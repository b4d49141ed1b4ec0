---------------------------- MODULE ClientsProofs ----------------------------
(***************************************************************************)
(* Proofs about the clients.  InProcess, for every number of threads,      *)
(* requests and responses: the server's callbacks use no freed memory,     *)
(* each caller gets what the server has sent, and no update of the         *)
(* statistics is lost.  RemoteClients, for all requests: what a request    *)
(* sends is its own, whatever the client was used for before.              *)
(***************************************************************************)
EXTENDS InProcess, RemoteClients, SequenceTheorems, FiniteSetTheorems, TLAPS

-----------------------------------------------------------------------------
Results == [failed : BOOLEAN, final : BOOLEAN]

Responses ==
    [at : {"none", "value", "stat", "write", "deliver"}, failed : BOOLEAN,
     final : BOOLEAN, timed : BOOLEAN, seen : Nat]

RequestType ==
    [by : Threads \cup {0}, irequest : {"none", "live", "deleted"},
     info : {"none", "live", "freed"}, held : BOOLEAN, timed : BOOLEAN,
     answered : BOOLEAN, resp : Responses, sent : Seq(Results),
     got : Seq(Results)]

ThreadType ==
    [pc : {"idle", "submit", "sent", "wait", "update", "stopped"},
     req : Requests \cup {0}, seen : Nat, stat : Nat]

ServingTypes ==
    /\ job \in Jobs
    /\ req \in [Requests -> RequestType]
    /\ thread \in [Threads -> ThreadType]
    /\ stat \in Nat /\ counted \in Nat
    /\ mutex \in Requests \cup {0}

\* A response is being handled only for a request that the server holds and
\* that is not answered, in the callback of the kind of call it was.
ResponseControl(q) ==
    /\ q.resp.at = "none" => q.resp = NoResponse
    /\ q.resp.at # "none" => q.held /\ ~q.answered
    /\ q.resp.at \in {"stat", "write", "deliver"} => ~job.sync
    /\ q.resp.at = "value" => job.sync

\* The info lives exactly until the final response.
InfoControl(q) ==
    /\ q.held => q.by \in Threads
    /\ q.answered => q.held /\ q.info = "freed"
    /\ q.held /\ ~q.answered =>
           q.info = IF q.resp.at = "value" THEN "freed" ELSE "live"

\* What the caller was given, against what the server has sent.
ResultControl(q) ==
    /\ ~q.held => q.sent = <<>>
    /\ Len(q.sent) = Len(q.got) + (IF q.resp.at = "none" THEN 0 ELSE 1)
    /\ q.resp.at # "none" =>
           q.sent[Len(q.sent)] = [failed |-> q.resp.failed,
                                  final |-> q.resp.final]
    /\ q.answered => q.sent # <<>> /\ q.sent[Len(q.sent)].final
    /\ job.sync =>
           /\ ~q.answered => q.got = <<>>
           /\ \A i \in 1 .. Len(q.sent) : q.sent[i].final
    /\ \A i \in 1 .. Len(q.got) :
           /\ q.got[i].final = q.sent[i].final
           /\ job.sync => q.got[i].failed = q.sent[i].failed

RequestOK(q) == ResponseControl(q) /\ InfoControl(q) /\ ResultControl(q)

RequestControl == \A r \in Requests : RequestOK(req[r])

\* A thread between InitializeRequest and its answer works on a request of its
\* own, which the server has not seen before it is submitted.
ThreadControl ==
    \A t \in Threads :
        LET r == thread[t].req
        IN  /\ thread[t].pc \in {"submit", "sent", "wait"} =>
                   r \in Requests /\ req[r].by = t
            /\ thread[t].pc = "submit" => req[r].info = "live" /\ ~req[r].held
            /\ thread[t].pc \in {"sent", "wait"} => req[r].held
            /\ thread[t].pc \in {"wait", "update"} => job.sync

\* Between the load and the store of the count its mutex is held, and the
\* count has not changed; Infer has no mutex, and needs to be alone.
StatControl ==
    /\ \A r \in Requests :
           req[r].resp.at = "write" <=> mutex = r
    /\ ~job.sync =>
           \A r \in Requests :
               req[r].resp.at = "write" => req[r].resp.seen = stat
    /\ job.sync /\ Cardinality(Threads) = 1 =>
           \A t \in Threads : thread[t].pc = "update" => thread[t].seen = stat

IInv == /\ ServingTypes /\ RequestControl /\ ThreadControl /\ StatControl
        /\ faults = {} /\ StatsExact
-----------------------------------------------------------------------------
(* Types.                                                                  *)

\* A step changes one request, or one thread.
LEMMA UpdateReq ==
  ASSUME ServingTypes, NEW r \in Requests, NEW q \in RequestType,
         req' = [req EXCEPT ![r] = q]
  PROVE  /\ req' \in [Requests -> RequestType]
         /\ req'[r] = q
         /\ \A s \in Requests \ {r} : req'[s] = req[s]
BY DEF ServingTypes

LEMMA UpdateThread ==
  ASSUME ServingTypes, NEW t \in Threads, NEW h \in ThreadType,
         thread' = [thread EXCEPT ![t] = h]
  PROVE  /\ thread' \in [Threads -> ThreadType]
         /\ thread'[t] = h
         /\ \A u \in Threads \ {t} : thread'[u] = thread[u]
BY DEF ServingTypes

\* The first request that was not made yet is prepared.
LEMMA PrepareStep ==
  ASSUME ServingTypes, NEW t \in Threads, Prepare(t)
  PROVE  \E r \in Requests, made, go \in BOOLEAN :
           LET q == [req[r] EXCEPT !.by = t,
                                   !.irequest = IF made THEN "live"
                                                        ELSE "none",
                                   !.info = IF go THEN "live" ELSE "none"]
               h == [thread[t] EXCEPT !.pc = IF go THEN "submit"
                                                   ELSE "stopped",
                                      !.req = r]
           IN  /\ req[r] = NewRequest
               /\ q \in RequestType /\ req' = [req EXCEPT ![r] = q]
               /\ h \in ThreadType /\ thread' = [thread EXCEPT ![t] = h]
<1>1. PICK r \in Requests, made, go \in BOOLEAN :
        /\ \A s \in Requests : s < r <=> req[s] # NewRequest
        /\ req' = [req EXCEPT
             ![r].by = t,
             ![r].irequest = IF made THEN "live" ELSE "none",
             ![r].info = IF go THEN "live" ELSE "none"]
        /\ thread' = [thread EXCEPT
             ![t].pc = IF go THEN "submit" ELSE "stopped",
             ![t].req = r]
  <2>1. PICK r \in Requests, made, taken \in BOOLEAN :
          LET fits == job.memory = "none" \/ ~job.sync
                          \/ GetMemoryInfo(job.size)
              go == made /\ taken /\ fits /\ loader.server_is_ready
                         /\ loader.model_is_loaded
          IN  /\ \A s \in Requests : s < r <=> req[s] # NewRequest
              /\ req' = [req EXCEPT
                   ![r].by = t,
                   ![r].irequest = IF made THEN "live" ELSE "none",
                   ![r].info = IF go THEN "live" ELSE "none"]
              /\ thread' = [thread EXCEPT
                   ![t].pc = IF go THEN "submit" ELSE "stopped",
                   ![t].req = r]
    BY DEF Prepare
  <2> DEFINE ready == made /\ taken /\ (job.memory = "none" \/ ~job.sync
                                      \/ GetMemoryInfo(job.size))
                           /\ loader.server_is_ready
                           /\ loader.model_is_loaded
  <2>2. CASE ready
    BY <2>1, <2>2
  <2>3. CASE ~ready
    BY <2>1, <2>3
  <2> QED
    BY <2>2, <2>3
<1> DEFINE q == [req[r] EXCEPT !.by = t,
                               !.irequest = IF made THEN "live" ELSE "none",
                               !.info = IF go THEN "live" ELSE "none"]
           h == [thread[t] EXCEPT !.pc = IF go THEN "submit" ELSE "stopped",
                                  !.req = r]
<1>2. req[r] \in RequestType /\ thread[t] \in ThreadType
  BY DEF ServingTypes
<1>3. req[r] = NewRequest
  BY <1>1 DEF Requests
<1>4. q \in RequestType
  BY <1>2 DEF RequestType
<1>5. h \in ThreadType
  BY <1>2 DEF ThreadType
<1>6. req' = [req EXCEPT ![r] = q]
  BY <1>1
<1>7. thread' = [thread EXCEPT ![t] = h]
  BY <1>1
<1> QED
  BY <1>3, <1>4, <1>5, <1>6, <1>7

-----------------------------------------------------------------------------
(* One step: the request it changes stays in order, and the others too.    *)

\* The state a request has to be in is its own.
LEMMA RequestKept ==
  ASSUME IInv, job' = job, NEW r \in Requests, NEW q \in RequestType,
         req' = [req EXCEPT ![r] = q], RequestOK(q)
  PROVE  RequestControl'
<1>1. /\ req'[r] = q
      /\ \A s \in Requests \ {r} : req'[s] = req[s]
  BY UpdateReq DEF IInv
<1>2. ASSUME NEW s \in Requests
      PROVE  RequestOK(req'[s])
  BY <1>1, <1>2 DEF IInv, RequestControl
<1>3. ASSUME NEW s \in Requests
      PROVE  RequestOK(req[s])'
  <2>1. RequestOK(req'[s])
    BY <1>2
  <2> QED
    BY <2>1 DEF RequestOK, ResponseControl, InfoControl, ResultControl
<1> QED
  BY <1>3 DEF RequestControl

\* A callback or the server's release of a request disturbs no thread.
LEMMA ThreadsKept ==
  ASSUME IInv, job' = job, NEW r \in Requests, NEW q \in RequestType,
         req' = [req EXCEPT ![r] = q],
         q.by = req[r].by, q.held = req[r].held, req[r].held,
         \A t \in Threads : /\ thread'[t].pc = thread[t].pc
                            /\ thread'[t].req = thread[t].req
  PROVE  ThreadControl'
<1>1. /\ req'[r] = q
      /\ \A s \in Requests \ {r} : req'[s] = req[s]
  BY UpdateReq DEF IInv
<1>2. SUFFICES ASSUME NEW t \in Threads
               PROVE  LET s == thread'[t].req
                      IN  /\ thread'[t].pc \in {"submit", "sent", "wait"} =>
                                 s \in Requests /\ req'[s].by = t
                          /\ thread'[t].pc = "submit" =>
                                 req'[s].info = "live" /\ ~req'[s].held
                          /\ thread'[t].pc \in {"sent", "wait"} => req'[s].held
                          /\ thread'[t].pc \in {"wait", "update"} => job'.sync
  BY DEF ThreadControl
<1>3. thread'[t].pc = thread[t].pc /\ thread'[t].req = thread[t].req
  OBVIOUS
<1>4. LET s == thread[t].req
      IN  /\ thread[t].pc \in {"submit", "sent", "wait"} =>
                 s \in Requests /\ req[s].by = t
          /\ thread[t].pc = "submit" => req[s].info = "live" /\ ~req[s].held
          /\ thread[t].pc \in {"sent", "wait"} => req[s].held
          /\ thread[t].pc \in {"wait", "update"} => job.sync
  BY DEF IInv, ThreadControl
<1>5. CASE thread[t].req = r
  BY <1>1, <1>3, <1>4, <1>5
<1>6. CASE thread[t].req # r
  BY <1>1, <1>3, <1>4, <1>6
<1> QED
  BY <1>5, <1>6

\* A step that is about neither the statistics nor their mutex.
LEMMA StatKept ==
  ASSUME IInv, job' = job, stat' = stat, mutex' = mutex, counted' = counted,
         NEW r \in Requests, NEW q \in RequestType,
         req' = [req EXCEPT ![r] = q],
         q.resp.at # "write", req[r].resp.at # "write",
         \A t \in Threads : thread'[t].pc = "update" =>
             thread[t].pc = "update" /\ thread'[t].seen = thread[t].seen
  PROVE  StatControl' /\ StatsExact'
<1>1. /\ req'[r] = q
      /\ \A s \in Requests \ {r} : req'[s] = req[s]
  BY UpdateReq DEF IInv
<1>2. StatsExact'
  BY DEF IInv, StatsExact
<1>3. \A s \in Requests : req'[s].resp.at = "write" <=> mutex' = s
  BY <1>1 DEF IInv, StatControl
<1>4. ~job'.sync =>
         \A s \in Requests :
             req'[s].resp.at = "write" => req'[s].resp.seen = stat'
  BY <1>1 DEF IInv, StatControl
<1>5. job'.sync /\ Cardinality(Threads) = 1 =>
         \A t \in Threads : thread'[t].pc = "update" => thread'[t].seen = stat'
  BY DEF IInv, StatControl
<1> QED
  BY <1>2, <1>3, <1>4, <1>5 DEF StatControl

\* What results are in order does not depend on the rest of the request.
LEMMA ResultsKept ==
  ASSUME NEW p, NEW q, ResultControl(p),
         q.held = p.held, q.answered = p.answered, q.sent = p.sent,
         q.got = p.got, q.resp.failed = p.resp.failed,
         q.resp.final = p.resp.final,
         q.resp.at = "none" <=> p.resp.at = "none"
  PROVE  ResultControl(q)
<1>1. /\ ~q.held => q.sent = <<>>
      /\ q.answered => q.sent # <<>> /\ q.sent[Len(q.sent)].final
      /\ job.sync /\ ~q.answered => q.got = <<>>
  BY Zenon DEF ResultControl
<1>2. /\ Len(q.sent) = Len(q.got) + (IF q.resp.at = "none" THEN 0 ELSE 1)
      /\ q.resp.at # "none" =>
             q.sent[Len(q.sent)] = [failed |-> q.resp.failed,
                                    final |-> q.resp.final]
  BY DEF ResultControl
<1>3. /\ job.sync => \A i \in 1 .. Len(q.sent) : q.sent[i].final
      /\ \A i \in 1 .. Len(q.got) :
             /\ q.got[i].final = q.sent[i].final
             /\ job.sync => q.got[i].failed = q.sent[i].failed
  BY ZenonT(60) DEF ResultControl
<1> QED
  BY <1>1, <1>2, <1>3, Zenon DEF ResultControl

-----------------------------------------------------------------------------
(* The steps of the worker threads.                                        *)

\* Prepare keeps the invariant: the request was nobody's.
LEMMA PrepareKeeps ==
  ASSUME IInv, NEW t \in Threads, Prepare(t)
  PROVE  IInv'
<1>1. PICK r \in Requests, made, go \in BOOLEAN :
        LET q == [req[r] EXCEPT !.by = t,
                                !.irequest = IF made THEN "live" ELSE "none",
                                !.info = IF go THEN "live" ELSE "none"]
            h == [thread[t] EXCEPT !.pc = IF go THEN "submit"
                                                ELSE "stopped",
                                   !.req = r]
        IN  /\ req[r] = NewRequest
            /\ q \in RequestType /\ req' = [req EXCEPT ![r] = q]
            /\ h \in ThreadType /\ thread' = [thread EXCEPT ![t] = h]
  BY PrepareStep DEF IInv
<1> DEFINE q == [req[r] EXCEPT !.by = t,
                               !.irequest = IF made THEN "live" ELSE "none",
                               !.info = IF go THEN "live" ELSE "none"]
           h == [thread[t] EXCEPT !.pc = IF go THEN "submit" ELSE "stopped",
                                  !.req = r]
<1>2. /\ q.by = t /\ q.held = req[r].held /\ q.answered = req[r].answered
      /\ q.info = (IF go THEN "live" ELSE "none")
      /\ q.resp = req[r].resp /\ q.sent = req[r].sent /\ q.got = req[r].got
      /\ h.pc = (IF go THEN "submit" ELSE "stopped") /\ h.req = r
  BY DEF IInv, ServingTypes, RequestType, ThreadType
<1>3. /\ req[r].held = FALSE /\ req[r].answered = FALSE
      /\ req[r].info = "none" /\ req[r].resp = NoResponse
      /\ req[r].sent = <<>> /\ req[r].got = <<>>
      /\ NoResponse.at = "none"
  BY <1>1 DEF NewRequest, NoResponse
<1>4. /\ job' = job /\ stat' = stat /\ mutex' = mutex
      /\ counted' = counted /\ faults' = faults
  BY DEF Prepare, serving
<1>5. /\ q \in RequestType /\ req' = [req EXCEPT ![r] = q]
      /\ h \in ThreadType /\ thread' = [thread EXCEPT ![t] = h]
  BY <1>1
<1> HIDE DEF q, h
<1>6. /\ req' \in [Requests -> RequestType] /\ req'[r] = q
      /\ \A s \in Requests \ {r} : req'[s] = req[s]
      /\ thread' \in [Threads -> ThreadType] /\ thread'[t] = h
      /\ \A u \in Threads \ {t} : thread'[u] = thread[u]
  BY <1>5, UpdateReq, UpdateThread DEF IInv
<1>7. ServingTypes'
  BY <1>4, <1>6 DEF IInv, ServingTypes
<1>8. RequestOK(q)
  BY <1>2, <1>3 DEF RequestOK, ResponseControl, InfoControl, ResultControl
<1>9. RequestControl'
  BY <1>4, <1>5, <1>8, RequestKept
<1>10. ThreadControl'
  <2>1. ASSUME NEW u \in Threads \ {t}, thread[u].req = r
        PROVE  thread[u].pc \notin {"submit", "sent", "wait"}
    BY <1>3, <2>1 DEF IInv, ThreadControl
  <2> QED
    BY <1>2, <1>3, <1>4, <1>6, <2>1 DEF IInv, ThreadControl
<1>11. StatControl' /\ StatsExact'
  BY <1>2, <1>3, <1>4, <1>5, <1>6, StatKept
<1> QED
  BY <1>4, <1>7, <1>9, <1>10, <1>11 DEF IInv

\* Submit keeps the invariant: no other thread is about to submit the request.
LEMMA SubmitKeeps ==
  ASSUME IInv, NEW t \in Threads, Submit(t)
  PROVE  IInv'
<1> DEFINE r == thread[t].req
<1>1. PICK taken \in BOOLEAN :
        /\ req' = [req EXCEPT ![r].held = taken]
        /\ thread' = [thread EXCEPT ![t].pc = IF taken THEN "sent"
                                                    ELSE "stopped"]
  BY DEF Submit
<1> DEFINE q == [req[r] EXCEPT !.held = taken]
           h == [thread[t] EXCEPT !.pc = IF taken THEN "sent" ELSE "stopped"]
<1>2. /\ r \in Requests /\ req[r].by = t /\ req[r].info = "live"
      /\ req[r].held = FALSE /\ thread[t].pc = "submit"
  BY DEF IInv, ThreadControl, Submit, ServingTypes, RequestType
<1>3. req[r] \in RequestType /\ thread[t] \in ThreadType
  BY <1>2 DEF IInv, ServingTypes
<1>4. /\ q.by = t /\ q.held = taken /\ q.answered = req[r].answered
      /\ q.info = "live" /\ q.resp = req[r].resp /\ q.sent = req[r].sent
      /\ q.got = req[r].got /\ q \in RequestType
      /\ h.pc = (IF taken THEN "sent" ELSE "stopped") /\ h.req = r
      /\ h \in ThreadType
  BY <1>2, <1>3 DEF RequestType, ThreadType
<1>5. /\ job' = job /\ stat' = stat /\ mutex' = mutex
      /\ counted' = counted /\ faults' = faults
  BY DEF Submit, serving
<1>6. req' = [req EXCEPT ![r] = q] /\ thread' = [thread EXCEPT ![t] = h]
  BY <1>1
<1>7. RequestOK(req[r])
  BY <1>2 DEF IInv, RequestControl
<1> HIDE DEF q, h, r
<1>8. /\ req' \in [Requests -> RequestType] /\ req'[r] = q
      /\ \A s \in Requests \ {r} : req'[s] = req[s]
      /\ thread' \in [Threads -> ThreadType] /\ thread'[t] = h
      /\ \A u \in Threads \ {t} : thread'[u] = thread[u]
  BY <1>2, <1>4, <1>6, UpdateReq, UpdateThread DEF IInv
<1>9. ServingTypes'
  BY <1>5, <1>8 DEF IInv, ServingTypes
<1>10. req[r].resp.at = "none" /\ ~req[r].answered
  <2>1. req[r].resp.at = "none"
    BY <1>2, <1>7 DEF RequestOK, ResponseControl
  <2>2. ~req[r].answered
    BY <1>2, <1>7 DEF RequestOK, InfoControl
  <2> QED
    BY <2>1, <2>2
<1>11. RequestOK(q)
  BY <1>2, <1>4, <1>7, <1>10
     DEF RequestOK, ResponseControl, InfoControl, ResultControl
<1>12. RequestControl'
  BY <1>2, <1>4, <1>5, <1>6, <1>11, RequestKept
<1>13. ThreadControl'
  <2>1. ASSUME NEW u \in Threads \ {t}, thread[u].req = r
        PROVE  thread[u].pc \notin {"submit", "sent", "wait"}
    BY <1>2, <2>1 DEF IInv, ThreadControl
  <2>2. thread[t].pc \notin {"wait", "update"}
    BY <1>2
  <2> QED
    BY <1>2, <1>4, <1>5, <1>8, <2>1 DEF IInv, ThreadControl
<1>14. StatControl' /\ StatsExact'
  BY <1>2, <1>4, <1>5, <1>6, <1>8, <1>10, StatKept
<1> QED
  BY <1>5, <1>9, <1>12, <1>13, <1>14 DEF IInv

\* SEND_END is captured: the request stays what it is.
LEMMA SendEndKeeps ==
  ASSUME IInv, NEW t \in Threads, SendEnd(t)
  PROVE  IInv'
<1> DEFINE r == thread[t].req
           q == [req[r] EXCEPT !.timed = TRUE]
           h == [thread[t] EXCEPT !.pc = IF job.sync THEN "wait" ELSE "idle"]
<1>1. /\ r \in Requests /\ req[r].by = t /\ req[r].held
      /\ thread[t].pc = "sent"
  BY DEF IInv, ThreadControl, SendEnd
<1>2. req[r] \in RequestType /\ thread[t] \in ThreadType
  BY <1>1 DEF IInv, ServingTypes
<1>3. /\ q.by = t /\ q.held = req[r].held /\ q.answered = req[r].answered
      /\ q.info = req[r].info /\ q.resp = req[r].resp
      /\ q.sent = req[r].sent /\ q.got = req[r].got /\ q \in RequestType
      /\ h.pc = (IF job.sync THEN "wait" ELSE "idle") /\ h.req = r
      /\ h \in ThreadType
  BY <1>1, <1>2 DEF RequestType, ThreadType
<1>4. /\ job' = job /\ stat' = stat /\ mutex' = mutex
      /\ counted' = counted /\ faults' = faults
  BY DEF SendEnd, serving
<1>5. req' = [req EXCEPT ![r] = q] /\ thread' = [thread EXCEPT ![t] = h]
  BY DEF SendEnd
<1>6. RequestOK(req[r])
  BY <1>1 DEF IInv, RequestControl
<1> HIDE DEF q, h, r
<1>7. /\ req' \in [Requests -> RequestType] /\ req'[r] = q
      /\ \A s \in Requests \ {r} : req'[s] = req[s]
      /\ thread' \in [Threads -> ThreadType] /\ thread'[t] = h
      /\ \A u \in Threads \ {t} : thread'[u] = thread[u]
  BY <1>1, <1>3, <1>5, UpdateReq, UpdateThread DEF IInv
<1>8. ServingTypes'
  BY <1>4, <1>7 DEF IInv, ServingTypes
<1>9. RequestOK(q)
  <2>1. ResponseControl(q)
    BY <1>1, <1>3, <1>6 DEF RequestOK, ResponseControl
  <2>2. InfoControl(q)
    BY <1>1, <1>3, <1>6 DEF RequestOK, InfoControl
  <2>3. ResultControl(q)
    BY <1>3, <1>6, ResultsKept DEF RequestOK
  <2> QED
    BY <2>1, <2>2, <2>3 DEF RequestOK
<1>10. RequestControl'
  BY <1>1, <1>3, <1>4, <1>5, <1>9, RequestKept
<1>11. ThreadControl'
  <2>1. ASSUME NEW u \in Threads \ {t}
        PROVE  thread[u].req = r =>
                   thread[u].pc \notin {"submit", "sent", "wait"}
    BY <1>1, <2>1 DEF IInv, ThreadControl
  <2> SUFFICES ASSUME NEW u \in Threads
               PROVE  LET s == thread'[u].req
                      IN  /\ thread'[u].pc \in {"submit", "sent", "wait"} =>
                                 s \in Requests /\ req'[s].by = u
                          /\ thread'[u].pc = "submit" =>
                                 req'[s].info = "live" /\ ~req'[s].held
                          /\ thread'[u].pc \in {"sent", "wait"} => req'[s].held
                          /\ thread'[u].pc \in {"wait", "update"} => job'.sync
    BY DEF ThreadControl
  <2>2. CASE u = t
    BY <1>1, <1>3, <1>4, <1>7, <2>2
  <2>3. CASE u # t
    BY <1>4, <1>7, <2>1, <2>3 DEF IInv, ThreadControl
  <2> QED
    BY <2>2, <2>3
<1>12. StatControl' /\ StatsExact'
  <2>1. StatsExact'
    BY <1>4 DEF IInv, StatsExact
  <2>2. \A s \in Requests : req'[s].resp = req[s].resp
    BY <1>3, <1>7
  <2>3. \A u \in Threads : thread'[u].pc = "update" =>
            thread[u].pc = "update" /\ thread'[u].seen = thread[u].seen
    BY <1>3, <1>7
  <2> QED
    BY <1>4, <2>1, <2>2, <2>3 DEF IInv, StatControl
<1> QED
  BY <1>4, <1>8, <1>10, <1>11, <1>12 DEF IInv

\* The caller of Infer takes the one response of its request.
LEMMA GetCompletedKeeps ==
  ASSUME IInv, NEW t \in Threads, GetCompleted(t)
  PROVE  IInv'
<1> DEFINE r == thread[t].req
           a == [failed |-> req[r].resp.failed, final |-> TRUE]
           q == [req[r] EXCEPT !.resp = NoResponse, !.answered = TRUE,
                               !.got = <<a>>]
           h == [thread[t] EXCEPT !.pc = IF req[r].resp.failed THEN "stopped"
                                                             ELSE "update",
                                  !.seen = stat]
<1>1. /\ r \in Requests /\ req[r].by = t /\ req[r].held
      /\ thread[t].pc = "wait" /\ req[r].resp.at = "value" /\ job.sync
  BY DEF IInv, ThreadControl, GetCompleted
<1>2. /\ req[r] \in RequestType /\ thread[t] \in ThreadType /\ stat \in Nat
      /\ req[r].resp \in Responses
  BY <1>1 DEF IInv, ServingTypes, RequestType
<1>3. NoResponse \in Responses /\ NoResponse.at = "none" /\ a \in Results
  BY <1>2 DEF NoResponse, Responses, Results
<1>4. <<a>> \in Seq(Results) /\ Len(<<a>>) = 1 /\ <<a>>[1] = a
  BY <1>3
<1>5. /\ q.by = t /\ q.held = req[r].held /\ q.answered
      /\ q.info = req[r].info /\ q.resp = NoResponse
      /\ q.sent = req[r].sent /\ q.got = <<a>>
      /\ h.pc = (IF req[r].resp.failed THEN "stopped" ELSE "update")
      /\ h.req = r /\ h.seen = stat
  BY <1>1, <1>2 DEF RequestType, ThreadType
<1>6. q \in RequestType
  BY <1>2, <1>3, <1>4 DEF RequestType
<1>7. h \in ThreadType
  BY <1>2 DEF ThreadType
<1>8. /\ job' = job /\ stat' = stat /\ mutex' = mutex
      /\ counted' = counted /\ faults' = faults
  BY DEF GetCompleted, serving
<1>9. req' = [req EXCEPT ![r] = q] /\ thread' = [thread EXCEPT ![t] = h]
  BY DEF GetCompleted
<1>10. RequestOK(req[r])
  BY <1>1 DEF IInv, RequestControl
<1>11. a.failed = req[r].resp.failed /\ a.final = TRUE
  OBVIOUS
<1> HIDE DEF q, h, r, a
<1>12. /\ req' \in [Requests -> RequestType] /\ req'[r] = q
       /\ \A s \in Requests \ {r} : req'[s] = req[s]
       /\ thread' \in [Threads -> ThreadType] /\ thread'[t] = h
       /\ \A u \in Threads \ {t} : thread'[u] = thread[u]
  BY <1>1, <1>6, <1>7, <1>9, UpdateReq, UpdateThread DEF IInv
<1>13. ServingTypes'
  BY <1>8, <1>12 DEF IInv, ServingTypes
<1>14. RequestOK(q)
  <2>1. ~req[r].answered /\ req[r].info \in {"live", "none", "freed"}
    BY <1>1, <1>2, <1>10 DEF RequestOK, ResponseControl, RequestType
  <2>2. /\ Len(req[r].sent) = 1 /\ req[r].sent[1].final
        /\ req[r].sent[1].failed = req[r].resp.failed
        /\ req[r].sent[1].final = TRUE /\ req[r].sent # <<>>
    <3>1. req[r].got = <<>>
      BY <1>1, <2>1, <1>10 DEF RequestOK, ResultControl
    <3>2. Len(req[r].sent) = 1
      BY <1>1, <3>1, <1>10 DEF RequestOK, ResultControl
    <3>3. /\ req[r].sent[1] = [failed |-> req[r].resp.failed,
                               final |-> req[r].resp.final]
          /\ req[r].sent[1].final
      BY <1>1, <3>2, <1>10 DEF RequestOK, ResultControl
    <3>4. req[r].resp.final \in BOOLEAN
      BY <1>2 DEF Responses
    <3> QED
      BY <3>2, <3>3, <3>4
  <2>3. req[r].info = "freed"
    BY <1>1, <1>10 DEF RequestOK, InfoControl
  <2>4. ResponseControl(q) /\ InfoControl(q)
    BY <1>1, <1>3, <1>5, <2>3 DEF ResponseControl, InfoControl
  <2>5. \A i \in 1 .. Len(q.got) :
            /\ q.got[i].final = q.sent[i].final
            /\ q.got[i].failed = q.sent[i].failed
    <3>1. \A i \in 1 .. Len(q.got) : i = 1
      BY <1>4, <1>5
    <3>2. /\ q.got[1].final = q.sent[1].final
          /\ q.got[1].failed = q.sent[1].failed
      BY <1>4, <1>5, <1>11, <2>2
    <3> QED
      BY <3>1, <3>2
  <2>6. ResultControl(q)
    BY <1>1, <1>3, <1>4, <1>5, <2>2, <2>5 DEF ResultControl
  <2> QED
    BY <2>4, <2>6 DEF RequestOK
<1>15. RequestControl'
  BY <1>1, <1>6, <1>8, <1>9, <1>14, RequestKept
<1>16. ThreadControl'
  <2>1. ASSUME NEW u \in Threads \ {t}
        PROVE  thread[u].req = r =>
                   thread[u].pc \notin {"submit", "sent", "wait"}
    BY <1>1, <2>1 DEF IInv, ThreadControl
  <2> QED
    BY <1>1, <1>5, <1>8, <1>12, <2>1 DEF IInv, ThreadControl
<1>17. StatControl' /\ StatsExact'
  <2>1. StatsExact'
    BY <1>8 DEF IInv, StatsExact
  <2>2. \A s \in Requests : req'[s].resp.at = "write" <=> mutex' = s
    BY <1>1, <1>3, <1>5, <1>8, <1>12 DEF IInv, StatControl
  <2>3. job'.sync
    BY <1>1, <1>8
  <2>4. \A u \in Threads : thread'[u].pc = "update" =>
            \/ thread[u].pc = "update" /\ thread'[u].seen = thread[u].seen
            \/ thread'[u].seen = stat
    BY <1>5, <1>12
  <2> QED
    BY <1>8, <2>1, <2>2, <2>3, <2>4 DEF IInv, StatControl
<1> QED
  BY <1>8, <1>13, <1>15, <1>16, <1>17 DEF IInv

\* Infer's update of the statistics: exact when no other thread is at it.
LEMMA UpdateInferStatKeeps ==
  ASSUME IInv, NEW t \in Threads, UpdateInferStat(t)
  PROVE  IInv'
<1> DEFINE h == [thread[t] EXCEPT !.pc = "idle", !.stat = stat']
<1>1. /\ job' = job /\ req' = req /\ mutex' = mutex /\ faults' = faults
      /\ stat' = thread[t].seen + 1 /\ counted' = counted + 1
      /\ thread[t].pc = "update" /\ thread' = [thread EXCEPT ![t] = h]
      /\ job.sync
  BY DEF UpdateInferStat, IInv, ThreadControl
<1>2. thread[t] \in ThreadType /\ stat \in Nat /\ counted \in Nat
  BY DEF IInv, ServingTypes
<1>3. stat' \in Nat /\ counted' \in Nat
  BY <1>1, <1>2 DEF ThreadType
<1>4. h \in ThreadType /\ h.pc = "idle"
  BY <1>2, <1>3 DEF ThreadType
<1> HIDE DEF h
<1>5. /\ thread' \in [Threads -> ThreadType] /\ thread'[t] = h
      /\ \A u \in Threads \ {t} : thread'[u] = thread[u]
  BY <1>1, <1>4, UpdateThread DEF IInv
<1>6. ServingTypes'
  BY <1>1, <1>3, <1>5 DEF IInv, ServingTypes
<1>7. RequestControl'
  BY <1>1, ZenonT(60) DEF IInv, RequestControl, RequestOK,
     ResponseControl, InfoControl, ResultControl
<1>8. ThreadControl'
  BY <1>1, <1>4, <1>5 DEF IInv, ThreadControl
<1>9. StatControl' /\ StatsExact'
  <2>1. \A s \in Requests : req'[s].resp.at = "write" <=> mutex' = s
    BY <1>1 DEF IInv, StatControl
  <2>2. CASE Cardinality(Threads) = 1
    <3>1. \A u \in Threads : u = t
      BY <2>2, FS_Singleton, SizesAssumption
    <3>2. thread[t].seen = stat /\ stat = counted
      BY <1>1, <2>2 DEF IInv, StatControl, StatsExact
    <3> QED
      BY <1>1, <1>4, <1>5, <2>1, <3>1, <3>2 DEF StatControl, StatsExact
  <2>3. CASE Cardinality(Threads) # 1
    BY <1>1, <2>1, <2>3 DEF StatControl, StatsExact
  <2> QED
    BY <2>2, <2>3
<1> QED
  BY <1>1, <1>6, <1>7, <1>8, <1>9 DEF IInv

-----------------------------------------------------------------------------
(* The steps of the server's threads.                                      *)

\* The server answers: the info it passes on is there, and in a call of Infer
\* this is the one answer.
LEMMA RespondKeeps ==
  ASSUME IInv, NEW r \in Requests, Respond(r)
  PROVE  IInv'
<1>1. PICK failed, final \in BOOLEAN :
        /\ ~job.decoupled => final
        /\ req' = [req EXCEPT
             ![r].sent = Append(@, [failed |-> failed, final |-> final]),
             ![r].info = IF job.sync THEN "freed" ELSE @,
             ![r].resp = [at |-> IF job.sync THEN "value"
                                 ELSE IF job.enable_stats THEN "stat"
                                 ELSE "deliver",
                          failed |-> failed, final |-> final,
                          timed |-> req[r].timed, seen |-> 0]]
  BY DEF Respond
<1> DEFINE a == [failed |-> failed, final |-> final]
           resp == [at |-> IF job.sync THEN "value"
                           ELSE IF job.enable_stats THEN "stat"
                           ELSE "deliver",
                    failed |-> failed, final |-> final,
                    timed |-> req[r].timed, seen |-> 0]
           q == [req[r] EXCEPT !.sent = Append(@, a),
                               !.info = IF job.sync THEN "freed" ELSE @,
                               !.resp = resp]
<1>2. /\ req[r] \in RequestType /\ req[r].sent \in Seq(Results)
      /\ req[r].timed \in BOOLEAN
  BY DEF IInv, ServingTypes, RequestType
<1>3. /\ req[r].held /\ req[r].held = TRUE
      /\ ~req[r].answered /\ req[r].answered = FALSE
      /\ req[r].resp = NoResponse /\ NoResponse.at = "none"
  BY <1>2 DEF Respond, NoResponse, RequestType
<1>4. a \in Results /\ a.failed = failed /\ a.final = final
  BY DEF Results
<1>5. /\ resp \in Responses /\ resp.failed = failed /\ resp.final = final
      /\ resp.at \in {"value", "stat", "deliver"}
      /\ resp.at = "value" <=> job.sync
  BY <1>2 DEF Responses
<1>6. /\ Append(req[r].sent, a) \in Seq(Results)
      /\ Append(req[r].sent, a) # <<>>
      /\ Len(Append(req[r].sent, a)) = Len(req[r].sent) + 1
      /\ \A i \in 1 .. Len(req[r].sent) :
             Append(req[r].sent, a)[i] = req[r].sent[i]
      /\ Append(req[r].sent, a)[Len(req[r].sent) + 1] = a
  BY <1>2, <1>4, AppendProperties
<1> HIDE DEF a, resp
<1>7. /\ q.by = req[r].by /\ q.held = req[r].held
      /\ q.answered = req[r].answered /\ q.got = req[r].got
      /\ q.info = (IF job.sync THEN "freed" ELSE req[r].info)
      /\ q.resp = resp /\ q.sent = Append(req[r].sent, a)
  BY <1>2 DEF RequestType
<1>8. q \in RequestType
  BY <1>2, <1>5, <1>6 DEF RequestType
<1>9. req' = [req EXCEPT ![r] = q]
  BY <1>1 DEF a, resp
<1>10. RequestOK(req[r])
  BY DEF IInv, RequestControl
<1>11. /\ job' = job /\ stat' = stat /\ mutex' = mutex
       /\ counted' = counted /\ thread' = thread
  BY DEF Respond
<1> HIDE DEF q
<1>12. req[r].info = "live" /\ req[r].by \in Threads
  BY <1>3, <1>10 DEF RequestOK, InfoControl
<1>13. faults' = {}
  BY <1>12 DEF Respond, Touched, IInv
<1>14. ServingTypes'
  BY <1>8, <1>9, <1>11, UpdateReq DEF IInv, ServingTypes
<1>15. job \in Jobs /\ (job.sync => final)
  BY <1>1, JobsAssumption DEF IInv, ServingTypes, JobsOK
<1>16. Len(req[r].got) = Len(req[r].sent) /\ Len(req[r].sent) \in Nat
  BY <1>2, <1>3, <1>10, LenProperties DEF RequestOK, ResultControl,
     RequestType
<1>17. RequestOK(q)
  <2>1. ResponseControl(q)
    BY <1>3, <1>5, <1>7 DEF ResponseControl
  <2>2. InfoControl(q)
    BY <1>3, <1>5, <1>7, <1>12 DEF InfoControl
  <2>3. \A i \in 1 .. Len(q.got) : q.sent[i] = req[r].sent[i]
    BY <1>6, <1>7, <1>16
  <2>4. \A i \in 1 .. Len(q.got) :
            /\ q.got[i].final = q.sent[i].final
            /\ job.sync => q.got[i].failed = q.sent[i].failed
    BY <1>7, <1>10, <2>3, ZenonT(60) DEF RequestOK, ResultControl
  <2>5. /\ Len(q.sent) = Len(q.got) + 1
        /\ q.sent[Len(q.sent)] = [failed |-> q.resp.failed,
                                  final |-> q.resp.final]
        /\ q.sent # <<>>
    BY <1>4, <1>5, <1>6, <1>7, <1>16 DEF a
  <2>6. job.sync => \A i \in 1 .. Len(q.sent) : q.sent[i].final
    <3>1. job.sync => req[r].got = <<>>
      BY <1>3, <1>10 DEF RequestOK, ResultControl
    <3>2. job.sync => Len(q.sent) = 1
      BY <1>7, <2>5, <3>1
    <3>3. ASSUME job.sync
          PROVE  q.sent[1].final
      <4>1. q.sent[1].final = final
        BY <1>5, <1>7, <2>5, <3>2, <3>3
      <4>2. final = TRUE
        BY <1>15, <3>3
      <4> QED
        BY <4>1, <4>2
    <3> QED
      BY <3>2, <3>3
  <2>7. job.sync => q.got = <<>>
    BY <1>3, <1>7, <1>10 DEF RequestOK, ResultControl
  <2> QED
    BY <1>3, <1>5, <1>7, <2>1, <2>2, <2>4, <2>5, <2>6, <2>7
       DEF RequestOK, ResultControl
<1>18. RequestControl'
  BY <1>8, <1>9, <1>11, <1>17, RequestKept
<1>19. ThreadControl'
  BY <1>3, <1>7, <1>8, <1>9, <1>11, ThreadsKept
<1>20. StatControl' /\ StatsExact'
  BY <1>3, <1>5, <1>7, <1>8, <1>9, <1>11, StatKept
<1> QED
  BY <1>13, <1>14, <1>18, <1>19, <1>20 DEF IInv

\* The server is done with the request: only irequest changes.
LEMMA ReleaseKeeps ==
  ASSUME IInv, NEW r \in Requests, Release(r)
  PROVE  IInv'
<1> DEFINE q == [req[r] EXCEPT !.irequest = "deleted"]
<1>1. req[r] \in RequestType
  BY DEF IInv, ServingTypes
<1>2. /\ q.by = req[r].by /\ q.held = req[r].held
      /\ q.answered = req[r].answered /\ q.info = req[r].info
      /\ q.resp = req[r].resp /\ q.sent = req[r].sent
      /\ q.got = req[r].got /\ q \in RequestType
  BY <1>1 DEF RequestType
<1>3. /\ job' = job /\ stat' = stat /\ mutex' = mutex /\ counted' = counted
      /\ thread' = thread /\ faults' = faults
      /\ req' = [req EXCEPT ![r] = q] /\ req[r].held
  BY DEF Release, serving
<1>4. RequestOK(req[r])
  BY DEF IInv, RequestControl
<1> HIDE DEF q
<1>5. /\ req' \in [Requests -> RequestType] /\ req'[r] = q
      /\ \A s \in Requests \ {r} : req'[s] = req[s]
  BY <1>2, <1>3, UpdateReq DEF IInv
<1>6. ServingTypes'
  BY <1>3, <1>5 DEF IInv, ServingTypes
<1>7. RequestOK(q)
  <2>1. ResponseControl(q) /\ InfoControl(q)
    BY <1>2, <1>3, <1>4 DEF RequestOK, ResponseControl, InfoControl
  <2>2. ResultControl(q)
    BY <1>2, <1>4, ResultsKept DEF RequestOK
  <2> QED
    BY <2>1, <2>2 DEF RequestOK
<1>8. RequestControl'
  BY <1>2, <1>3, <1>7, RequestKept
<1>9. ThreadControl'
  BY <1>2, <1>3, ThreadsKept
<1>10. StatControl' /\ StatsExact'
  <2>1. \A s \in Requests : req'[s].resp = req[s].resp
    BY <1>2, <1>5
  <2> QED
    BY <1>3, <2>1 DEF IInv, StatControl, StatsExact
<1> QED
  BY <1>3, <1>6, <1>8, <1>9, <1>10 DEF IInv

\* A callback changes the request's response and, under the mutex, the count.
LEMMA CallbackStep ==
  ASSUME IInv, NEW r \in Requests, req[r].resp.at \in {"stat", "write"},
         NEW q, q = [req[r] EXCEPT !.resp = q.resp], q.resp \in Responses,
         q.resp.at \in {"write", "deliver"},
         q.resp.failed = req[r].resp.failed,
         q.resp.final = req[r].resp.final,
         req' = [req EXCEPT ![r] = q], job' = job, thread' = thread
  PROVE  /\ q \in RequestType /\ RequestControl' /\ ThreadControl'
         /\ req' \in [Requests -> RequestType] /\ req'[r] = q
         /\ \A s \in Requests \ {r} : req'[s] = req[s]
         /\ ~job.sync
<1>1. req[r] \in RequestType
  BY DEF IInv, ServingTypes
<1>2. /\ q.by = req[r].by /\ q.held = req[r].held
      /\ q.answered = req[r].answered /\ q.info = req[r].info
      /\ q.sent = req[r].sent /\ q.got = req[r].got
  BY <1>1 DEF RequestType
<1>3. q \in RequestType
  BY <1>1 DEF RequestType
<1>4. RequestOK(req[r])
  BY DEF IInv, RequestControl
<1>5. ~job.sync /\ req[r].held
  BY <1>4 DEF RequestOK, ResponseControl
<1>6. /\ req' \in [Requests -> RequestType] /\ req'[r] = q
      /\ \A s \in Requests \ {r} : req'[s] = req[s]
  BY <1>3, UpdateReq DEF IInv
<1>7. RequestOK(q)
  <2>1. ResponseControl(q) /\ InfoControl(q)
    BY <1>2, <1>4, <1>5 DEF RequestOK, ResponseControl, InfoControl
  <2>2. ResultControl(q)
    BY <1>2, <1>4, ResultsKept DEF RequestOK
  <2> QED
    BY <2>1, <2>2 DEF RequestOK
<1>8. RequestControl'
  BY <1>3, <1>7, RequestKept
<1>9. ThreadControl'
  BY <1>2, <1>3, <1>5, ThreadsKept
<1> QED
  BY <1>3, <1>5, <1>6, <1>8, <1>9

\* The mutex is taken, and the count read.
LEMMA LockStatKeeps ==
  ASSUME IInv, NEW r \in Requests, LockStat(r)
  PROVE  IInv'
<1> DEFINE resp == [req[r].resp EXCEPT
                      !.at = IF req[r].resp.timed THEN "write" ELSE "deliver",
                      !.seen = stat]
           q == [req[r] EXCEPT !.resp = resp]
<1>1. /\ req[r] \in RequestType /\ req[r].resp \in Responses /\ stat \in Nat
  BY DEF IInv, ServingTypes, RequestType
<1>2. /\ resp \in Responses /\ resp.seen = stat
      /\ resp.at = (IF req[r].resp.timed THEN "write" ELSE "deliver")
      /\ resp.failed = req[r].resp.failed /\ resp.final = req[r].resp.final
  BY <1>1 DEF Responses
<1>3. q.resp = resp /\ q = [req[r] EXCEPT !.resp = q.resp]
  BY <1>1 DEF RequestType
<1>4. /\ req[r].resp.at = "stat" /\ mutex = 0
      /\ mutex' = (IF req[r].resp.timed THEN r ELSE 0)
      /\ req' = [req EXCEPT ![r] = q]
      /\ job' = job /\ stat' = stat /\ counted' = counted
      /\ thread' = thread /\ faults' = faults
  BY DEF LockStat
<1> HIDE DEF q, resp
<1>5. /\ RequestControl' /\ ThreadControl' /\ ~job.sync
      /\ req' \in [Requests -> RequestType] /\ req'[r] = q
      /\ \A s \in Requests \ {r} : req'[s] = req[s]
  BY <1>2, <1>3, <1>4, CallbackStep
<1>6. 0 \notin Requests
  BY DEF Requests
<1>7. ServingTypes'
  BY <1>4, <1>5 DEF IInv, ServingTypes
<1>8. \A s \in Requests : req[s].resp.at # "write"
  BY <1>4, <1>6 DEF IInv, StatControl
<1>9. \A s \in Requests : req'[s].resp.at = "write" <=> mutex' = s
  BY <1>2, <1>3, <1>4, <1>5, <1>6, <1>8
<1>10. \A s \in Requests :
          req'[s].resp.at = "write" => req'[s].resp.seen = stat'
  BY <1>2, <1>3, <1>4, <1>5, <1>8
<1>11. StatControl' /\ StatsExact'
  BY <1>4, <1>5, <1>9, <1>10 DEF IInv, StatControl, StatsExact
<1> QED
  BY <1>4, <1>5, <1>7, <1>11 DEF IInv

\* The count goes up by one from what it still is, and the mutex is given back.
LEMMA WriteStatKeeps ==
  ASSUME IInv, NEW r \in Requests, WriteStat(r)
  PROVE  IInv'
<1> DEFINE resp == [req[r].resp EXCEPT !.at = "deliver"]
           q == [req[r] EXCEPT !.resp = resp]
<1>1. /\ req[r] \in RequestType /\ req[r].resp \in Responses
      /\ stat \in Nat /\ counted \in Nat
  BY DEF IInv, ServingTypes, RequestType
<1>2. /\ resp \in Responses /\ resp.at = "deliver"
      /\ resp.failed = req[r].resp.failed /\ resp.final = req[r].resp.final
  BY <1>1 DEF Responses
<1>3. q.resp = resp /\ q = [req[r] EXCEPT !.resp = q.resp]
  BY <1>1 DEF RequestType
<1>4. /\ req[r].resp.at = "write" /\ mutex' = 0
      /\ stat' = req[r].resp.seen + 1 /\ counted' = counted + 1
      /\ req' = [req EXCEPT ![r] = q]
      /\ job' = job /\ thread' = thread /\ faults' = faults
  BY DEF WriteStat
<1> HIDE DEF q, resp
<1>5. /\ RequestControl' /\ ThreadControl' /\ ~job.sync
      /\ req' \in [Requests -> RequestType] /\ req'[r] = q
      /\ \A s \in Requests \ {r} : req'[s] = req[s]
  BY <1>2, <1>3, <1>4, CallbackStep
<1>6. 0 \notin Requests
  BY DEF Requests
<1>7. mutex = r /\ req[r].resp.seen = stat /\ stat = counted
  BY <1>4, <1>5 DEF IInv, StatControl, StatsExact
<1>8. ServingTypes'
  BY <1>1, <1>4, <1>5, <1>7 DEF IInv, ServingTypes
<1>9. \A s \in Requests : req'[s].resp.at # "write"
  BY <1>2, <1>3, <1>5, <1>7 DEF IInv, StatControl
<1>10. StatControl' /\ StatsExact'
  BY <1>4, <1>5, <1>6, <1>7, <1>9 DEF StatControl, StatsExact
<1> QED
  BY <1>4, <1>5, <1>8, <1>10 DEF IInv

\* The caller gets its result, with the info still there.
LEMMA DeliverKeeps ==
  ASSUME IInv, NEW r \in Requests, Deliver(r)
  PROVE  IInv'
<1> DEFINE a == [failed |-> FALSE, final |-> req[r].resp.final]
           q == [req[r] EXCEPT
                   !.got = Append(@, a), !.resp = NoResponse,
                   !.answered = @ \/ req[r].resp.final,
                   !.info = IF req[r].resp.final THEN "freed" ELSE @]
           t == req[r].by
           h == [thread[t] EXCEPT !.stat = stat]
<1>1. /\ req[r] \in RequestType /\ req[r].resp \in Responses
      /\ req[r].got \in Seq(Results) /\ req[r].sent \in Seq(Results)
      /\ req[r].answered \in BOOLEAN /\ req[r].resp.final \in BOOLEAN
      /\ stat \in Nat
  BY DEF IInv, ServingTypes, RequestType, Responses
<1>2. RequestOK(req[r])
  BY DEF IInv, RequestControl
<1>3. req[r].resp.at = "deliver"
  BY DEF Deliver
<1>4. /\ ~job.sync /\ req[r].held /\ ~req[r].answered
      /\ t \in Threads /\ req[r].info = "live"
  BY <1>2, <1>3 DEF RequestOK, ResponseControl, InfoControl
<1>5. a \in Results /\ a.final = req[r].resp.final
  BY <1>1 DEF Results
<1>6. NoResponse \in Responses /\ NoResponse.at = "none"
  BY DEF NoResponse, Responses
<1>7. /\ Append(req[r].got, a) \in Seq(Results)
      /\ Len(Append(req[r].got, a)) = Len(req[r].got) + 1
      /\ \A i \in 1 .. Len(req[r].got) :
             Append(req[r].got, a)[i] = req[r].got[i]
      /\ Append(req[r].got, a)[Len(req[r].got) + 1] = a
      /\ Len(req[r].got) \in Nat /\ Len(req[r].sent) \in Nat
  BY <1>1, <1>5, AppendProperties, LenProperties
<1> HIDE DEF a
<1>8. /\ q.by = t /\ q.held = req[r].held /\ q.sent = req[r].sent
      /\ q.answered = (req[r].answered \/ req[r].resp.final)
      /\ q.info = (IF req[r].resp.final THEN "freed" ELSE req[r].info)
      /\ q.resp = NoResponse /\ q.got = Append(req[r].got, a)
  BY <1>1 DEF RequestType
<1>9. q \in RequestType
  BY <1>1, <1>6, <1>7 DEF RequestType
<1>10. /\ req' = [req EXCEPT ![r] = q] /\ thread' = [thread EXCEPT ![t] = h]
       /\ job' = job /\ stat' = stat /\ mutex' = mutex
       /\ counted' = counted
  BY DEF Deliver, IsFinal, a
<1>11. /\ h \in ThreadType /\ h.pc = thread[t].pc /\ h.req = thread[t].req
       /\ h.seen = thread[t].seen
  <2>1. thread[t] \in ThreadType
    BY <1>4 DEF IInv, ServingTypes
  <2> QED
    BY <1>1, <2>1 DEF ThreadType
<1>12. faults' = {}
  BY <1>4 DEF Deliver, Touched, IInv
<1> HIDE DEF q, h, t
<1>13. /\ thread' \in [Threads -> ThreadType] /\ thread'[t] = h
       /\ \A u \in Threads \ {t} : thread'[u] = thread[u]
  BY <1>4, <1>10, <1>11, UpdateThread DEF IInv
<1>14. ServingTypes'
  BY <1>9, <1>10, <1>13, UpdateReq DEF IInv, ServingTypes
<1>15. RequestOK(q)
  <2>1. ResponseControl(q)
    BY <1>6, <1>8 DEF ResponseControl
  <2>2. InfoControl(q)
    BY <1>4, <1>6, <1>8 DEF InfoControl
  <2>3. /\ Len(req[r].sent) = Len(req[r].got) + 1
        /\ req[r].sent[Len(req[r].sent)].final = req[r].resp.final
    BY <1>2, <1>3 DEF RequestOK, ResultControl
  <2>4. \A i \in 1 .. Len(q.got) : q.got[i].final = q.sent[i].final
    <3>1. ASSUME NEW i \in 1 .. Len(req[r].got)
          PROVE  q.got[i].final = q.sent[i].final
      BY <1>2, <1>7, <1>8 DEF RequestOK, ResultControl
    <3>2. q.got[Len(req[r].got) + 1].final =
              q.sent[Len(req[r].got) + 1].final
      BY <1>5, <1>7, <1>8, <2>3
    <3> QED
      BY <1>7, <1>8, <3>1, <3>2, SMTT(30)
  <2>5. q.sent # <<>> /\ Len(q.sent) = Len(q.got)
    BY <1>7, <1>8, <2>3
  <2>6. q.answered => q.sent[Len(q.sent)].final
    BY <1>4, <1>8, <2>3
  <2> QED
    BY <1>4, <1>6, <1>8, <2>1, <2>2, <2>4, <2>5, <2>6
       DEF RequestOK, ResultControl
<1>16. RequestControl'
  BY <1>9, <1>10, <1>15, RequestKept
<1>17. ThreadControl'
  <2>1. \A u \in Threads : /\ thread'[u].pc = thread[u].pc
                           /\ thread'[u].req = thread[u].req
    BY <1>11, <1>13
  <2> QED
    BY <1>4, <1>8, <1>9, <1>10, <2>1, ThreadsKept DEF t
<1>18. StatControl' /\ StatsExact'
  <2>1. q.resp.at # "write" /\ req[r].resp.at # "write"
    BY <1>3, <1>6, <1>8
  <2>2. \A u \in Threads : thread'[u].pc = "update" =>
            thread[u].pc = "update" /\ thread'[u].seen = thread[u].seen
    BY <1>11, <1>13
  <2> QED
    BY <1>9, <1>10, <2>1, <2>2, StatKept
<1> QED
  BY <1>12, <1>14, <1>16, <1>17, <1>18 DEF IInv

-----------------------------------------------------------------------------
(* The theorems.                                                           *)

LEMMA InitOK == Init => IInv
<1> SUFFICES ASSUME Init PROVE IInv
  OBVIOUS
<1>1. \A r \in Requests : req[r] = NewRequest
  BY DEF Init
<1>2. NoResponse \in Responses
  BY DEF NoResponse, Responses
<1>3. NewRequest \in RequestType
  BY <1>2 DEF NewRequest, RequestType
<1>4. ServingTypes
  BY <1>3 DEF Init, ServingTypes, ThreadType
<1>5. RequestOK(NewRequest)
  BY DEF RequestOK, ResponseControl, InfoControl, ResultControl, NewRequest,
     NoResponse
<1>6. RequestControl
  BY <1>1, <1>5 DEF RequestControl
<1>7. ThreadControl
  BY DEF Init, ThreadControl
<1>8. StatControl /\ StatsExact
  <2>1. 0 \notin Requests
    BY DEF Requests
  <2>2. \A r \in Requests : req[r].resp.at = "none"
    BY <1>1 DEF NewRequest, NoResponse
  <2>3. \A t \in Threads : thread[t].pc = "idle"
    BY DEF Init
  <2> QED
    BY <2>1, <2>2, <2>3 DEF Init, StatControl, StatsExact
<1> QED
  BY <1>4, <1>6, <1>7, <1>8 DEF Init, IInv

\* The steps of the main thread leave the requests alone.
LEMMA ServingUnchanged ==
  ASSUME IInv, UNCHANGED <<job, thread, req, serving>>
  PROVE  IInv'
<1>1. /\ job' = job /\ thread' = thread /\ req' = req /\ stat' = stat
      /\ mutex' = mutex /\ counted' = counted /\ faults' = faults
  BY DEF serving
<1>2. ServingTypes'
  BY <1>1 DEF IInv, ServingTypes
<1>3. RequestControl'
  <2>1. ASSUME NEW s \in Requests
        PROVE  RequestOK(req[s])'
    <3>1. RequestOK(req'[s])
      BY <1>1, <2>1 DEF IInv, RequestControl
    <3> QED
      BY <1>1, <3>1 DEF RequestOK, ResponseControl, InfoControl,
         ResultControl
  <2> QED
    BY <2>1 DEF RequestControl
<1>4. ThreadControl'
  BY <1>1 DEF IInv, ThreadControl
<1>5. StatControl' /\ StatsExact'
  BY <1>1 DEF IInv, StatControl, StatsExact
<1> QED
  BY <1>1, <1>2, <1>3, <1>4, <1>5 DEF IInv

LEMMA NextKeeps == IInv /\ [Next]_vars => IInv'
<1> SUFFICES ASSUME IInv, [Next]_vars
             PROVE  IInv'
  OBVIOUS
<1>1. CASE Main
  <2>1. UNCHANGED <<job, thread, req, serving>>
    BY <1>1 DEF Main, Create, WaitServer, NewAllocator, LoadModel,
       ModelMetadata, RegisterMemory, UnregisterAllSharedMemory, Delete
  <2> QED
    BY <2>1, ServingUnchanged
<1>2. CASE UNCHANGED vars
  BY <1>2, ServingUnchanged DEF vars, serving
<1>3. ASSUME NEW t \in Threads, Worker(t)
      PROVE  IInv'
  BY <1>3, PrepareKeeps, SubmitKeeps, SendEndKeeps, GetCompletedKeeps,
     UpdateInferStatKeeps DEF Worker
<1>4. ASSUME NEW r \in Requests, Respond(r) \/ Callback(r) \/ Release(r)
      PROVE  IInv'
  BY <1>4, RespondKeeps, LockStatKeeps, WriteStatKeeps, DeliverKeeps,
     ReleaseKeeps DEF Callback
<1> QED
  BY <1>1, <1>2, <1>3, <1>4 DEF Next, Ended

LEMMA Invariance == Spec => []IInv
<1> QED
  BY InitOK, NextKeeps, PTL DEF Spec

\* No thread of the server and none that sends touches an AsyncRequestInfo or a
\* promise that the final response has freed, in whatever order
\* InferResponseCompleteAsync and the end of AsyncInfer come.
THEOREM FreedMemoryUnused == Spec => []NoUseAfterFree
<1>1. IInv => NoUseAfterFree
  <2>1. ASSUME IInv, NEW r \in Requests, req[r].held, ~req[r].answered
        PROVE  \/ req[r].info = "live"
               \/ job.sync /\ req[r].resp.at = "value"
    BY <2>1 DEF IInv, RequestControl, RequestOK, ResponseControl, InfoControl
  <2> QED
    BY <2>1 DEF NoUseAfterFree, IInv
<1> QED
  BY <1>1, Invariance, PTL

\* Each caller gets one result for each response, in order and with its final
\* flag, and is done when the final one has come.
THEOREM CallersAnswered == Spec => []AnswersComplete
<1>1. IInv => AnswersComplete
  <2> SUFFICES ASSUME IInv, NEW r \in Requests
               PROVE  /\ Len(req[r].got) = Len(req[r].sent)
                            - (IF req[r].resp = NoResponse THEN 0 ELSE 1)
                      /\ req[r].answered =>
                            /\ req[r].info = "freed"
                            /\ req[r].sent[Len(req[r].sent)].final
                      /\ \A i \in DOMAIN req[r].got :
                            /\ req[r].got[i].final = req[r].sent[i].final
                            /\ job.sync => req[r].got[i].failed =
                                               req[r].sent[i].failed
    BY DEF AnswersComplete
  <2>1. RequestOK(req[r]) /\ req[r] \in RequestType
    BY DEF IInv, RequestControl, ServingTypes
  <2>2. /\ Len(req[r].got) \in Nat /\ Len(req[r].sent) \in Nat
        /\ DOMAIN req[r].got = 1 .. Len(req[r].got)
    BY <2>1, LenProperties DEF RequestType
  <2>3. req[r].resp = NoResponse <=> req[r].resp.at = "none"
    BY <2>1 DEF RequestOK, ResponseControl, NoResponse
  <2>4. Len(req[r].got) = Len(req[r].sent)
                            - (IF req[r].resp = NoResponse THEN 0 ELSE 1)
    <3>1. Len(req[r].sent) = Len(req[r].got)
                               + (IF req[r].resp.at = "none" THEN 0 ELSE 1)
      BY <2>1 DEF RequestOK, ResultControl
    <3>2. CASE req[r].resp.at = "none"
      <4>1. Len(req[r].sent) = Len(req[r].got)
        BY <2>2, <3>1, <3>2
      <4>2. req[r].resp = NoResponse
        BY <2>3, <3>2
      <4> QED
        BY <2>2, <4>1, <4>2
    <3>3. CASE req[r].resp.at # "none"
      <4>1. Len(req[r].sent) = Len(req[r].got) + 1
        BY <2>2, <3>1, <3>3
      <4>2. req[r].resp # NoResponse
        BY <2>3, <3>3
      <4> QED
        BY <2>2, <4>1, <4>2
    <3> QED
      BY <3>2, <3>3
  <2>5. req[r].answered => req[r].info = "freed"
    BY <2>1 DEF RequestOK, InfoControl
  <2>6. req[r].answered => req[r].sent[Len(req[r].sent)].final
    BY <2>1 DEF RequestOK, ResultControl
  <2>7. \A i \in DOMAIN req[r].got :
            /\ req[r].got[i].final = req[r].sent[i].final
            /\ job.sync => req[r].got[i].failed = req[r].sent[i].failed
    BY <2>1, <2>2 DEF RequestOK, ResultControl
  <2> QED
    BY <2>4, <2>5, <2>6, <2>7
<1> QED
  BY <1>1, Invariance, PTL

\* update_infer_stat_mutex_ keeps the count of completed requests exact.
THEOREM StatisticsExact == Spec => []StatsExact
<1>1. IInv => StatsExact
  BY DEF IInv
<1> QED
  BY <1>1, Invariance, PTL

-----------------------------------------------------------------------------
LEMMA LeastNatural ==
  ASSUME NEW S \in SUBSET Nat, S # {}
  PROVE  \E m \in S : \A j \in S : m <= j
<1> DEFINE R == OpToRel(<, Nat)
<1>1. IsWellFoundedOn(R, Nat)
  BY NatLessThanWellFounded
<1>2. PICK m \in S : \A j \in S : <<j, m>> \notin R
  <2> HIDE DEF R
  <2> QED BY <1>1, WFMin
<1>3. \A j \in S : ~(j < m)
  BY <1>2 DEF OpToRel
<1> QED BY <1>3

LEMMA Induction ==
  ASSUME NEW S, 0 \in S, \A j \in Nat : j \in S => j + 1 \in S
  PROVE  \A j \in Nat : j \in S
<1> SUFFICES ASSUME NEW k \in Nat, k \notin S PROVE FALSE
  OBVIOUS
<1>1. PICK m \in Nat \ S : \A j \in Nat \ S : m <= j
  BY LeastNatural
<1>2. m # 0 /\ m - 1 \in Nat
  BY <1>1
<1>3. m - 1 \in S
  BY <1>1, <1>2
<1> QED BY <1>1, <1>2, <1>3

LEMMA MaxOfInterval ==
  ASSUME NEW N \in Nat, NEW S \in SUBSET (1 .. N), S # {}
  PROVE  Max(S) \in S /\ \A x \in S : x <= Max(S)
<1>1. PICK m \in {k \in Nat : \A x \in S : x <= k} :
        \A j \in {k \in Nat : \A x \in S : x <= k} : m <= j
  <2>1. N \in {k \in Nat : \A x \in S : x <= k}
    OBVIOUS
  <2> QED BY <2>1, LeastNatural
<1>2. m \in S
  <2> SUFFICES ASSUME m \notin S PROVE FALSE
    OBVIOUS
  <2>1. PICK x \in S : TRUE
    OBVIOUS
  <2>2. m - 1 \in Nat /\ \A y \in S : y <= m - 1
    BY <1>1, <2>1
  <2> QED BY <1>1, <2>2
<1>3. \E x \in S : \A y \in S : x >= y
  BY <1>1, <1>2
<1> QED BY <1>3 DEF Max

LEMMA PeelOff ==
  ASSUME NEW k \in Nat, NEW S \in SUBSET (1 .. k + 1), S # {}
  PROVE  IF k + 1 \in S
         THEN Max(S) = k + 1 /\ S \ {k + 1} \in SUBSET (1 .. k)
         ELSE S \in SUBSET (1 .. k) /\ S \ {Max(S)} \in SUBSET (1 .. k)
<1>1. Max(S) \in S /\ \A x \in S : x <= Max(S)
  <2>1. k + 1 \in Nat
    OBVIOUS
  <2> QED BY <2>1, MaxOfInterval
<1>2. \A x \in S : x \in Nat /\ 1 <= x /\ x <= k + 1
  OBVIOUS
<1>3. CASE k + 1 \in S
  <2>1. Max(S) = k + 1
    <3>1. Max(S) \in Nat /\ Max(S) <= k + 1 /\ k + 1 <= Max(S)
      BY <1>1, <1>2, <1>3
    <3> HIDE DEF Max
    <3> QED BY <3>1
  <2>2. \A x \in S \ {k + 1} : x \in 1 .. k
    BY <1>2
  <2> QED BY <1>3, <2>1, <2>2
<1>4. CASE k + 1 \notin S
  <2>1. \A x \in S : x \in 1 .. k
    BY <1>2, <1>4
  <2> QED BY <1>4, <2>1
<1> QED BY <1>3, <1>4

LEMMA WholeInterval ==
  ASSUME NEW N \in Nat, NEW k \in 1 .. N
  PROVE  /\ Max(1 .. k) = k /\ (1 .. k) \ {k} = 1 .. k - 1
         /\ 1 .. k \in SUBSET (1 .. N) /\ 1 .. k # {}
<1>1. 1 .. k \in SUBSET (1 .. N) /\ 1 .. k # {}
  OBVIOUS
<1>2. Max(1 .. k) \in 1 .. k /\ \A x \in 1 .. k : x <= Max(1 .. k)
  BY <1>1, MaxOfInterval
<1> QED BY <1>1, <1>2

\* The loop of PreRunProcessing.
AllAdded(base, s, pad) == FoldLeft(LAMBDA r, i : AddInput(r, i, pad), base, s)

LEMMA AddInputs ==
  ASSUME NEW base, NEW pad, NEW N \in Nat, NEW s, DOMAIN s = 1 .. N
  PROVE  \E f : /\ f[0] = base
                /\ \A k \in 1 .. N : f[k] = AddInput(f[k - 1], s[k], pad)
                /\ AllAdded(base, s, pad) = f[N]
<1> DEFINE Rec(F, k) ==
             F = [S \in SUBSET (1 .. k) |->
                    IF S = {} THEN base
                    ELSE AddInput(F[S \ {Max(S)}], s[Max(S)], pad)]
           D == {k \in Nat : \E F : Rec(F, k)}
<1>1. 0 \in D
  <2>1. Rec([S \in SUBSET (1 .. 0) |-> base], 0)
    OBVIOUS
  <2> QED BY <2>1
<1>2. ASSUME NEW k \in Nat, k \in D
      PROVE  k + 1 \in D
  <2>1. PICK F : Rec(F, k)
    BY <1>2
  <2> DEFINE G == [S \in SUBSET (1 .. k + 1) |->
                     IF k + 1 \in S
                     THEN AddInput(F[S \ {k + 1}], s[k + 1], pad) ELSE F[S]]
  <2>2. ASSUME NEW S \in SUBSET (1 .. k + 1), S # {}
        PROVE  G[S] = AddInput(G[S \ {Max(S)}], s[Max(S)], pad)
    <3>1. CASE k + 1 \in S
      <4>1. /\ Max(S) = k + 1 /\ S \ {k + 1} \in SUBSET (1 .. k + 1)
            /\ k + 1 \notin S \ {k + 1}
        <5> HIDE DEF Rec, D, G
        <5> QED BY <2>2, <3>1, PeelOff
      <4>2. G[S \ {k + 1}] = F[S \ {k + 1}]
        BY <4>1
      <4> QED BY <3>1, <4>1, <4>2
    <3>2. CASE k + 1 \notin S
      <4>1. /\ S \in SUBSET (1 .. k)
            /\ S \ {Max(S)} \in SUBSET (1 .. k + 1)
            /\ k + 1 \notin S \ {Max(S)}
        <5> HIDE DEF Rec, D, G
        <5> QED BY <2>2, <3>2, PeelOff
      <4>2. G[S] = F[S] /\ G[S \ {Max(S)}] = F[S \ {Max(S)}]
        BY <3>2, <4>1
      <4>3. F[S] = AddInput(F[S \ {Max(S)}], s[Max(S)], pad)
        BY <2>1, <2>2, <4>1
      <4> QED BY <4>2, <4>3
    <3> QED BY <3>1, <3>2
  <2>3. G[{}] = base
    <3>1. F[{}] = base /\ k + 1 \notin {} /\ {} \in SUBSET (1 .. k + 1)
      BY <2>1
    <3> QED BY <3>1
  <2>4. Rec(G, k + 1)
    <3>1. \A S \in SUBSET (1 .. k + 1) :
            G[S] = IF S = {} THEN base
                   ELSE AddInput(G[S \ {Max(S)}], s[Max(S)], pad)
      <4> HIDE DEF G
      <4> QED BY <2>2, <2>3
    <3> QED BY <3>1
  <2>5. k + 1 \in Nat
    OBVIOUS
  <2> HIDE DEF G
  <2>6. \E E : Rec(E, k + 1)
    BY <2>4
  <2> QED BY <2>5, <2>6
<1>3. N \in D
  <2> HIDE DEF D
  <2> QED BY <1>1, <1>2, Induction
<1> DEFINE F == CHOOSE F : Rec(F, N)
<1>4. Rec(F, N)
  BY <1>3
<1>5. AllAdded(base, s, pad) = F[1 .. N]
  BY DEF AllAdded, FoldLeft, MapThenFoldSet
<1> HIDE DEF F
<1> DEFINE f == [k \in 0 .. N |-> F[1 .. k]]
<1>6. F[1 .. 0] = base
  <2>1. 1 .. 0 = {} /\ {} \in SUBSET (1 .. N)
    OBVIOUS
  <2> QED BY <1>4, <2>1
<1>7. ASSUME NEW k \in 1 .. N
      PROVE  F[1 .. k] = AddInput(F[1 .. k - 1], s[k], pad)
  <2>1. /\ Max(1 .. k) = k /\ (1 .. k) \ {k} = 1 .. k - 1
        /\ 1 .. k \in SUBSET (1 .. N) /\ 1 .. k # {}
    <3> HIDE DEF Rec
    <3> QED BY WholeInterval
  <2>2. F[1 .. k] = AddInput(F[(1 .. k) \ {Max(1 .. k)}], s[Max(1 .. k)], pad)
    BY <1>4, <2>1
  <2> QED BY <2>1, <2>2
<1>8. f[0] = base /\ f[N] = F[1 .. N]
  BY <1>6
<1>9. \A k \in 1 .. N : f[k] = AddInput(f[k - 1], s[k], pad)
  <2> HIDE DEF Rec
  <2>1. \A k \in 1 .. N : k \in 0 .. N /\ k - 1 \in 0 .. N
    OBVIOUS
  <2> QED BY <1>7, <2>1
<1> QED BY <1>5, <1>8, <1>9

-----------------------------------------------------------------------------
Flattening(seqs, g, k) ==
  g = [i \in 1 .. k |-> IF i = 1 THEN seqs[i] ELSE g[i - 1] \o seqs[i]]

LEMMA FlattenUnfolds ==
  ASSUME NEW seqs, Len(seqs) \in Nat \ {0}
  PROVE  \E g : /\ Flattening(seqs, g, Len(seqs))
                /\ FlattenSeq(seqs) = g[Len(seqs)]
<1> DEFINE D == {k \in Nat : \E g : Flattening(seqs, g, k)}
<1>1. 0 \in D
  <2>1. Flattening(seqs, <<>>, 0)
    BY DEF Flattening
  <2> QED BY <2>1
<1>2. ASSUME NEW k \in Nat, k \in D
      PROVE  k + 1 \in D
  <2>1. PICK g : Flattening(seqs, g, k)
    BY <1>2
  <2> DEFINE h == [i \in 1 .. k + 1 |->
                     IF i = k + 1
                     THEN IF i = 1 THEN seqs[i] ELSE g[k] \o seqs[i]
                     ELSE g[i]]
  <2>2. ASSUME NEW i \in 1 .. k + 1
        PROVE  h[i] = IF i = 1 THEN seqs[i] ELSE h[i - 1] \o seqs[i]
    <3>1. CASE i = k + 1
      <4>1. i # 1 => i - 1 \in 1 .. k + 1 /\ i - 1 # k + 1 /\ i - 1 = k
        BY <3>1
      <4>2. i # 1 => h[i - 1] = g[k]
        BY <4>1
      <4> QED BY <3>1, <4>2
    <3>2. CASE i # k + 1
      <4>1. i \in 1 .. k
        BY <3>2
      <4>2. i # 1 => i - 1 \in 1 .. k + 1 /\ i - 1 # k + 1
        BY <4>1
      <4>3. g[i] = IF i = 1 THEN seqs[i] ELSE g[i - 1] \o seqs[i]
        BY <2>1, <4>1 DEF Flattening
      <4>4. h[i] = g[i] /\ (i # 1 => h[i - 1] = g[i - 1])
        BY <3>2, <4>2
      <4> QED BY <4>3, <4>4
    <3> QED BY <3>1, <3>2
  <2>3. Flattening(seqs, h, k + 1)
    BY <2>2 DEF Flattening
  <2>4. k + 1 \in Nat
    OBVIOUS
  <2> HIDE DEF h
  <2> QED BY <2>3, <2>4
<1> DEFINE N == Len(seqs)
           g == CHOOSE g : Flattening(seqs, g, N)
<1>3. Flattening(seqs, g, N)
  <2>1. N \in D
    <3> HIDE DEF D
    <3> QED BY <1>1, <1>2, Induction
  <2> QED BY <2>1
<1>4. FlattenSeq(seqs) = g[N]
  BY DEF FlattenSeq, Flattening
<1> HIDE DEF g
<1> QED BY <1>3, <1>4

LEMMA Remainder ==
  ASSUME NEW v \in Nat, NEW L \in Nat, v < L
  PROVE  v % L = v /\ (v + L) % L = v
OBVIOUS

LEMMA NextPlace ==
  ASSUME NEW b \in Nat, NEW size \in Nat
  PROVE  b * size \in Nat /\ (b + 1) * size = b * size + size
OBVIOUS

LEMMA SmallerPlace ==
  ASSUME NEW b \in Nat, NEW i \in Nat, i < b, NEW size \in Nat,
         NEW k \in 1 .. size
  PROVE  i * size + k \in 1 .. b * size
<1>1. (i + 1) * size <= b * size
  OBVIOUS
<1>2. i * size \in Nat /\ b * size \in Nat /\ (i + 1) * size = i * size + size
  OBVIOUS
<1> QED BY <1>1, <1>2

\* The values of the first m buffers, which have size values each.
Joined(flat, bufs, size, m) ==
  /\ flat \in Seq(Nat) /\ Len(flat) = m * size
  /\ \A b \in 1 .. m : \A k \in 1 .. size :
        flat[(b - 1) * size + k] = bufs[b][k]
  /\ \A j \in 1 .. Len(flat) :
        \E b \in 1 .. m : \E k \in 1 .. size : flat[j] = bufs[b][k]

LEMMA OneMoreBuffer ==
  ASSUME NEW bufs, NEW size \in Nat, NEW m \in Nat, NEW flat,
         bufs[m + 1] \in Seq(Nat), Len(bufs[m + 1]) = size,
         Joined(flat, bufs, size, m)
  PROVE  Joined(flat \o bufs[m + 1], bufs, size, m + 1)
<1> DEFINE p == m * size
           both == flat \o bufs[m + 1]
<1>1. p \in Nat /\ (m + 1) * size = p + size
  BY NextPlace
<1>2. flat \in Seq(Nat) /\ Len(flat) = p
  BY DEF Joined
<1>3. /\ both \in Seq(Nat) /\ Len(both) = p + size
      /\ \A j \in 1 .. p + size :
            both[j] = IF j <= p THEN flat[j] ELSE bufs[m + 1][j - p]
  <2> HIDE DEF p
  <2> QED BY <1>2, ConcatProperties
<1>4. ASSUME NEW b \in 1 .. m + 1, NEW k \in 1 .. size
      PROVE  both[(b - 1) * size + k] = bufs[b][k]
  <2> HIDE DEF both
  <2>1. CASE b = m + 1
    <3>1. (b - 1) * size = p
      BY <2>1
    <3> HIDE DEF p
    <3>2. p + k \in 1 .. p + size /\ ~(p + k <= p) /\ (p + k) - p = k
      BY <1>1
    <3> QED BY <1>3, <2>1, <3>1, <3>2
  <2>2. CASE b # m + 1
    <3>1. b \in 1 .. m /\ b - 1 \in Nat /\ b - 1 < m
      BY <2>2
    <3>2. (b - 1) * size + k \in 1 .. p
      <4>1. \A i \in Nat : i < m => i * size + k \in 1 .. m * size
        BY SmallerPlace
      <4> QED BY <3>1, <4>1
    <3>3. flat[(b - 1) * size + k] = bufs[b][k]
      BY <3>1 DEF Joined
    <3> DEFINE q == (b - 1) * size + k
    <3> HIDE DEF p, q
    <3>4. q \in 1 .. p + size /\ q <= p
      BY <1>1, <3>2 DEF q
    <3>5. both[q] = flat[q]
      BY <1>3, <3>4
    <3> QED BY <3>3, <3>5 DEF q
  <2> QED BY <2>1, <2>2
<1>5. ASSUME NEW j \in 1 .. p + size
      PROVE  \E b \in 1 .. m + 1 : \E k \in 1 .. size : both[j] = bufs[b][k]
  <2> HIDE DEF p, both
  <2>1. CASE j <= p
    <3>1. j \in 1 .. p
      BY <1>1, <2>1
    <3>2. PICK b \in 1 .. m, k \in 1 .. size : flat[j] = bufs[b][k]
      BY <1>2, <3>1 DEF Joined
    <3>3. b \in 1 .. m + 1
      OBVIOUS
    <3> QED BY <1>3, <2>1, <3>2, <3>3
  <2>2. CASE ~(j <= p)
    <3>1. j - p \in 1 .. size /\ m + 1 \in 1 .. m + 1
      BY <1>1, <2>2
    <3> QED BY <1>3, <2>2, <3>1
  <2> QED BY <2>1, <2>2
<1> HIDE DEF p, both
<1>6. Joined(both, bufs, size, m + 1)
  BY <1>1, <1>3, <1>4, <1>5 DEF Joined
<1> QED BY <1>6 DEF both

LEMMA FlattenBatch ==
  ASSUME NEW bufs \in Seq(Seq(Nat)), bufs # <<>>,
         \A b \in 1 .. Len(bufs) : Len(bufs[b]) = Len(bufs[1])
  PROVE  Joined(FlattenSeq(bufs), bufs, Len(bufs[1]), Len(bufs))
<1> DEFINE N == Len(bufs)
           size == Len(bufs[1])
<1>1. N \in Nat \ {0} /\ \A b \in 1 .. N : bufs[b] \in Seq(Nat)
  BY EmptySeq, ElementOfSeq, LenProperties
<1>2. size \in Nat
  BY <1>1, LenProperties
<1>3. PICK g : Flattening(bufs, g, N) /\ FlattenSeq(bufs) = g[N]
  BY <1>1, FlattenUnfolds
<1> DEFINE D == {m \in Nat : m < N => Joined(g[m + 1], bufs, size, m + 1)}
<1> HIDE DEF size
<1>4. 0 \in D
  <2>1. g[1] = bufs[1] /\ bufs[1] \in Seq(Nat) /\ Len(bufs[1]) = size
    BY <1>1, <1>3 DEF Flattening, size
  <2>2. (1 - 1) * size = 0 /\ 1 * size = size
    BY <1>2
  <2>3. ASSUME NEW b \in 1 .. 1, NEW k \in 1 .. size
        PROVE  g[1][(b - 1) * size + k] = bufs[b][k]
    <3>1. b = 1 /\ (b - 1) * size = 0 /\ 0 + k = k
      BY <2>2
    <3> QED BY <2>1, <3>1
  <2>4. \A j \in 1 .. Len(g[1]) :
          \E b \in 1 .. 1 : \E k \in 1 .. size : g[1][j] = bufs[b][k]
    BY <2>1
  <2>5. Joined(g[1], bufs, size, 1)
    BY <2>1, <2>2, <2>3, <2>4 DEF Joined
  <2> QED BY <2>5
<1>5. ASSUME NEW m \in Nat, m \in D
      PROVE  m + 1 \in D
  <2>1. CASE m + 1 < N
    <3>1. Joined(g[m + 1], bufs, size, m + 1)
      BY <1>1, <1>5, <2>1
    <3>2. /\ m + 2 \in 1 .. N /\ m + 2 # 1 /\ m + 1 \in Nat
          /\ (m + 2) - 1 = m + 1 /\ (m + 1) + 1 = m + 2
      BY <1>1, <2>1
    <3>3. g[m + 2] = g[m + 1] \o bufs[m + 2]
      BY <1>3, <3>2 DEF Flattening
    <3>4. bufs[m + 2] \in Seq(Nat) /\ Len(bufs[m + 2]) = size
      BY <1>1, <3>2 DEF size
    <3>5. Joined(g[m + 1] \o bufs[(m + 1) + 1], bufs, size, (m + 1) + 1)
      <4> HIDE DEF D, N
      <4> QED BY <1>2, <3>1, <3>2, <3>4, OneMoreBuffer
    <3> QED BY <3>2, <3>3, <3>5
  <2>2. CASE ~(m + 1 < N)
    <3>1. m + 1 \in Nat
      OBVIOUS
    <3> QED BY <2>2, <3>1
  <2> QED BY <2>1, <2>2
<1>6. N - 1 \in D
  <2>1. N - 1 \in Nat
    BY <1>1
  <2> HIDE DEF D
  <2> QED BY <1>4, <1>5, <2>1, Induction
<1>7. (N - 1) + 1 = N /\ N - 1 < N
  BY <1>1
<1> QED BY <1>3, <1>6, <1>7 DEF size

-----------------------------------------------------------------------------
TensorType == [datatype : TFDataTypes \cup {""}, shape : Seq(Nat),
               vals : [Fields -> Seq(Nat)]]

Typed(request) == \A name \in DOMAIN request : request[name] \in TensorType

\* The tensor is the input's, with its values and no other.
IsTensorOf(t, input) ==
  LET d == input.datatype
  IN  /\ t.datatype = d /\ t.shape = input.shape
      /\ d \notin {"BF16", "INT64"} =>
            /\ InBatchOrder(LowBytes(t.vals[FieldOf[d]], d), input.bufs)
            /\ \A f \in Fields \ {FieldOf[d]} : t.vals[f] = <<>>

LEMMA FieldsOfTypes ==
  \A d \in TFDataTypes \ {"BF16"} : FieldOf[d] \in Fields
BY DEF FieldOf, TFDataTypes, Fields

LEMMA NewTensorTyped ==
  NewTensor \in TensorType /\ NoValues \in [Fields -> Seq(Nat)]
BY EmptySeq DEF NewTensor, TensorType, NoValues

LEMMA BatchOfInput ==
  ASSUME NEW input, InputOK(input)
  PROVE  /\ TempBuffer(input) \in Seq(Nat)
         /\ Len(TempBuffer(input)) = Len(input.bufs) * Len(input.bufs[1])
         /\ InBatchOrder(TempBuffer(input), input.bufs)
         /\ input.datatype \in NarrowTypes =>
               \A j \in 1 .. Len(TempBuffer(input)) :
                  TempBuffer(input)[j] < NarrowLimit
<1> DEFINE bufs == input.bufs
           flat == FlattenSeq(bufs)
<1>1. /\ bufs \in Seq(Seq(Nat)) /\ bufs # <<>> /\ DOMAIN bufs = 1 .. Len(bufs)
      /\ \A b \in 1 .. Len(bufs) : Len(bufs[b]) = Len(bufs[1])
      /\ \A b \in 1 .. Len(bufs) : DOMAIN bufs[b] = 1 .. Len(bufs[b])
  BY ElementOfSeq, LenProperties DEF InputOK
<1>2. Joined(flat, bufs, Len(bufs[1]), Len(bufs))
  BY <1>1, FlattenBatch
<1>3. InBatchOrder(flat, bufs)
  BY <1>2 DEF Joined, InBatchOrder
<1>4. ASSUME input.datatype \in NarrowTypes, NEW j \in 1 .. Len(flat)
      PROVE  flat[j] < NarrowLimit
  <2>1. PICK b \in 1 .. Len(bufs), k \in 1 .. Len(bufs[1]) :
          flat[j] = bufs[b][k]
    BY <1>2 DEF Joined
  <2>2. k \in DOMAIN bufs[b] /\ b \in DOMAIN bufs
    BY <1>1
  <2> QED BY <1>4, <2>1, <2>2 DEF InputOK
<1> QED BY <1>2, <1>3, <1>4 DEF Joined, TempBuffer

\* What the server sees of values put into a field that was empty.
LEMMA LowBytesOfBatch ==
  ASSUME NEW input, InputOK(input), NEW d, d = input.datatype,
         NEW pad \in 0 .. 1, NEW vals \in Seq(Nat),
         NarrowLimit \in Nat \ {0},
         vals = IF d \in NarrowTypes
                THEN [i \in DOMAIN TempBuffer(input) |->
                        PopulateNarrow(TempBuffer(input)[i], pad)]
                ELSE TempBuffer(input)
  PROVE  InBatchOrder(LowBytes(vals, d), input.bufs)
<1> DEFINE flat == TempBuffer(input)
           low == LowBytes(vals, d)
<1>1. /\ flat \in Seq(Nat) /\ InBatchOrder(flat, input.bufs)
      /\ d \in NarrowTypes => \A j \in 1 .. Len(flat) : flat[j] < NarrowLimit
  BY BatchOfInput
<1>2. DOMAIN flat = 1 .. Len(flat) /\ Len(flat) \in Nat
      /\ \A j \in 1 .. Len(flat) : flat[j] \in Nat
  BY <1>1, LenProperties, ElementOfSeq
<1> HIDE DEF flat
<1>3. DOMAIN vals = 1 .. Len(flat)
  BY <1>2 DEF flat
<1>4. ASSUME NEW j \in 1 .. Len(flat)
      PROVE  low[j] = flat[j]
  <2>1. CASE d \in NarrowTypes
    <3>1. low[j] = (flat[j] + NarrowLimit * pad) % NarrowLimit
      BY <1>2, <1>3, <2>1 DEF LowBytes, PopulateNarrow, flat
    <3>2. /\ flat[j] + NarrowLimit * 0 = flat[j]
          /\ flat[j] + NarrowLimit * 1 = flat[j] + NarrowLimit
      BY <1>2
    <3>3. /\ flat[j] % NarrowLimit = flat[j]
          /\ (flat[j] + NarrowLimit) % NarrowLimit = flat[j]
      BY <1>1, <1>2, <2>1, Remainder
    <3>4. pad = 0 \/ pad = 1
      OBVIOUS
    <3> QED BY <3>1, <3>2, <3>3, <3>4
  <2>2. CASE d \notin NarrowTypes
    BY <1>2, <1>3, <2>2 DEF LowBytes, flat
  <2> QED BY <2>1, <2>2
<1>5. low = flat
  <2>1. DOMAIN low = 1 .. Len(flat) /\ low = [j \in 1 .. Len(flat) |-> low[j]]
    BY <1>3 DEF LowBytes
  <2>2. flat = [j \in 1 .. Len(flat) |-> flat[j]]
    BY <1>1, LenProperties
  <2> HIDE DEF low
  <2> QED BY <1>4, <2>1, <2>2
<1> QED BY <1>1, <1>5

LEMMA ConcatToEmpty == \A s \in Seq(Nat) : <<>> \o s = s
BY ConcatEmptySeq

LEMMA InputPopulated ==
  ASSUME NEW input, InputOK(input), input.datatype \in TFDataTypes,
         NEW pad \in 0 .. 1, NarrowLimit \in Nat \ {0},
         NEW t \in TensorType, t.vals = NoValues,
         t.datatype = input.datatype, t.shape = input.shape
  PROVE  /\ PopulateInputData(t, input, pad) \in TensorType
         /\ IsTensorOf(PopulateInputData(t, input, pad), input)
<1> DEFINE d == input.datatype
           r == PopulateInputData(t, input, pad)
           flat == TempBuffer(input)
<1>1. flat \in Seq(Nat) /\ DOMAIN flat = 1 .. Len(flat) /\ Len(flat) \in Nat
  BY BatchOfInput, LenProperties
<1> HIDE DEF flat
<1>2. CASE d = "BF16"
  <2>1. r = t
    BY <1>2 DEF PopulateInputData, NarrowTypes
  <2> QED BY <1>2, <2>1 DEF IsTensorOf
<1>3. CASE d = "INT64"
  <2> DEFINE bools == [i \in DOMAIN flat |-> IF flat[i] = 0 THEN 0 ELSE 1]
  <2>1. bools \in Seq(Nat)
    BY <1>1
  <2>2. <<>> \o bools = bools
    BY <2>1, ConcatToEmpty
  <2> HIDE DEF bools
  <2>3. t.vals["bool_val"] = <<>>
    BY DEF NoValues, Fields
  <2>4. r = [t EXCEPT !.vals.bool_val = bools]
    <3>1. r = PopulateInt64Val(t, flat)
      BY <1>3 DEF PopulateInputData, NarrowTypes, flat
    <3>2. r = [t EXCEPT !.vals.bool_val = @ \o bools]
      BY <3>1 DEF PopulateInt64Val, bools
    <3> QED BY <2>2, <2>3, <3>2
  <2>5. r \in TensorType
    BY <2>1, <2>4 DEF TensorType
  <2>6. r.datatype = d /\ r.shape = input.shape
    BY <2>4 DEF TensorType
  <2> QED BY <1>3, <2>5, <2>6 DEF IsTensorOf
<1>4. CASE d \notin {"BF16", "INT64"}
  <2> DEFINE vals == IF d \in NarrowTypes
                     THEN [i \in DOMAIN flat |-> PopulateNarrow(flat[i], pad)]
                     ELSE flat
             f == FieldOf[d]
  <2>1. vals \in Seq(Nat)
    <3>1. ASSUME NEW i \in 1 .. Len(flat)
          PROVE  PopulateNarrow(flat[i], pad) \in Nat
      BY <1>1, ElementOfSeq DEF PopulateNarrow
    <3>2. [i \in 1 .. Len(flat) |-> PopulateNarrow(flat[i], pad)] \in Seq(Nat)
      BY <1>1, <3>1
    <3> QED BY <1>1, <3>2
  <2>2. f \in Fields
    BY <1>4, FieldsOfTypes
  <2>3. InBatchOrder(LowBytes(vals, d), input.bufs)
    <3> HIDE DEF vals
    <3>1. vals = IF d \in NarrowTypes
                 THEN [i \in DOMAIN TempBuffer(input) |->
                         PopulateNarrow(TempBuffer(input)[i], pad)]
                 ELSE TempBuffer(input)
      BY DEF vals, flat
    <3> QED BY <2>1, <3>1, LowBytesOfBatch
  <2>4. t.vals[f] = <<>> /\ <<>> \o vals = vals
    BY <2>1, <2>2, ConcatToEmpty DEF NoValues
  <2>5. r = [t EXCEPT !.vals[f] = vals]
    <3>1. r = [t EXCEPT !.vals[f] = @ \o vals]
      BY <1>4 DEF PopulateInputData, flat
    <3> HIDE DEF vals, f
    <3> QED BY <2>4, <3>1
  <2> HIDE DEF vals, f
  <2>6. r \in TensorType
    BY <2>1, <2>2, <2>5 DEF TensorType
  <2>7. /\ r.datatype = d /\ r.shape = input.shape /\ r.vals[f] = vals
        /\ \A g \in Fields \ {f} : r.vals[g] = <<>>
    BY <2>2, <2>5 DEF TensorType, NoValues
  <2> QED BY <2>3, <2>6, <2>7 DEF IsTensorOf, f
<1> QED BY <1>2, <1>3, <1>4

-----------------------------------------------------------------------------
\* r is the request with the input's tensor in its place.
Adds(r, request, input) ==
  /\ DOMAIN r = DOMAIN request \cup {input.name}
  /\ \A name \in DOMAIN request \ {input.name} : r[name] = request[name]
  /\ IsTensorOf(r[input.name], input)
  /\ Typed(r)

LEMMA AddInputSets ==
  ASSUME NEW request, Typed(request), NEW input, InputOK(input),
         input.datatype \in TFDataTypes, NEW pad \in 0 .. 1,
         NarrowLimit \in Nat \ {0}
  PROVE  Adds(AddInput(request, input, pad), request, input)
<1> DEFINE old == TensorOf(request, input.name)
           set == [old EXCEPT !.datatype = input.datatype,
                              !.shape = input.shape]
           clear == ClearAllInputFields(set)
           new == PopulateInputData(clear, input, pad)
<1>1. old \in TensorType
  BY NewTensorTyped DEF TensorOf, Typed
<1>2. /\ clear \in TensorType /\ clear.vals = NoValues
      /\ clear.datatype = input.datatype /\ clear.shape = input.shape
  <2>1. set \in TensorType
    BY <1>1 DEF TensorType, InputOK
  <2>2. set.datatype = input.datatype /\ set.shape = input.shape
    BY <1>1 DEF TensorType
  <2> HIDE DEF set
  <2> QED BY <2>1, <2>2, NewTensorTyped DEF ClearAllInputFields, TensorType
<1>3. AddInput(request, input, pad) = SetTensor(request, input.name, new)
  BY DEF AddInput
<1> HIDE DEF clear
<1>4. new \in TensorType /\ IsTensorOf(new, input)
  BY <1>2, InputPopulated
<1> HIDE DEF new
<1> QED BY <1>3, <1>4 DEF SetTensor, Typed, Adds

InputsKnown(inputs) ==
  \A i \in DOMAIN inputs :
    InputOK(inputs[i]) /\ inputs[i].datatype \in TFDataTypes

\* The request after the first k inputs.
Built(r, base, inputs, k) ==
  /\ Typed(r)
  /\ DOMAIN r = DOMAIN base \cup {inputs[i].name : i \in 1 .. k}
  /\ \A i \in 1 .. k : IsTensorOf(r[inputs[i].name], inputs[i])

LEMMA AllInputsAdded ==
  ASSUME NEW base, Typed(base), NEW N \in Nat, NEW inputs,
         DOMAIN inputs = 1 .. N, DifferentNames(inputs),
         InputsKnown(inputs), NEW pad \in 0 .. 1, NarrowLimit \in Nat \ {0}
  PROVE  Built(AllAdded(base, inputs, pad), base, inputs, N)
<1>1. PICK f : /\ f[0] = base
               /\ \A k \in 1 .. N : f[k] = AddInput(f[k - 1], inputs[k], pad)
               /\ AllAdded(base, inputs, pad) = f[N]
  BY AddInputs
<1> DEFINE D == {k \in Nat : k <= N => Built(f[k], base, inputs, k)}
<1>2. 0 \in D
  <2>1. 1 .. 0 = {}
    OBVIOUS
  <2> QED BY <1>1, <2>1 DEF Built
<1>3. ASSUME NEW k \in Nat, k \in D
      PROVE  k + 1 \in D
  <2>1. CASE k + 1 <= N
    <3>1. /\ Built(f[k], base, inputs, k)
          /\ k + 1 \in 1 .. N /\ (k + 1) - 1 = k /\ k + 1 \in Nat
      BY <1>3, <2>1
    <3>2. f[k + 1] = AddInput(f[k], inputs[k + 1], pad)
      BY <1>1, <3>1
    <3> DEFINE new == inputs[k + 1]
               r == f[k + 1]
    <3>3. Adds(r, f[k], new)
      <4>1. Typed(f[k]) /\ InputOK(new) /\ new.datatype \in TFDataTypes
        BY <3>1 DEF Built, InputsKnown
      <4>2. r = AddInput(f[k], new, pad)
        BY <3>2
      <4>3. Adds(AddInput(f[k], new, pad), f[k], new)
        <5> HIDE DEF D, new, r
        <5> QED BY <4>1, AddInputSets
      <4> QED BY <4>2, <4>3
    <3>4. 1 .. k + 1 = (1 .. k) \cup {k + 1}
      BY <3>1
    <3>5. \A i \in 1 .. k : inputs[i].name # new.name /\ i \in 1 .. N
      BY <3>1 DEF DifferentNames
    <3> HIDE DEF r
    <3>6. DOMAIN r = DOMAIN base \cup {inputs[i].name : i \in 1 .. k + 1}
      <4>1. {inputs[i].name : i \in 1 .. k + 1}
              = {inputs[i].name : i \in 1 .. k} \cup {new.name}
        BY <3>4
      <4> HIDE DEF new
      <4> QED BY <3>1, <3>3, <4>1 DEF Built, Adds
    <3>7. \A i \in 1 .. k + 1 : IsTensorOf(r[inputs[i].name], inputs[i])
      <4>1. ASSUME NEW i \in 1 .. k
            PROVE  r[inputs[i].name] = f[k][inputs[i].name]
        BY <3>1, <3>3, <3>5 DEF Built, Adds
      <4>2. \A i \in 1 .. k : IsTensorOf(f[k][inputs[i].name], inputs[i])
        BY <3>1 DEF Built
      <4> HIDE DEF D
      <4> QED BY <3>3, <3>4, <4>1, <4>2 DEF Adds
    <3>8. Built(f[k + 1], base, inputs, k + 1)
      BY <3>3, <3>6, <3>7 DEF Built, Adds, r
    <3> QED BY <3>1, <3>8
  <2>2. CASE ~(k + 1 <= N)
    <3>1. k + 1 \in Nat
      OBVIOUS
    <3> QED BY <2>2, <3>1
  <2> QED BY <2>1, <2>2
<1>4. N \in D
  <2> HIDE DEF D
  <2> QED BY <1>2, <1>3, Induction
<1> QED BY <1>1, <1>4

\* A request that is sent carries its inputs, and a typed request stays so.
LEMMA RequestPrepared ==
  ASSUME CallsAssumption, Typed(infer_request),
         NEW N \in Nat, NEW inputs, DOMAIN inputs = 1 .. N,
         DifferentNames(inputs), \A i \in 1 .. N : InputOK(inputs[i]),
         NEW pad \in 0 .. 1, NEW large \in BOOLEAN,
         NEW r, r = PreRunProcessing(inputs, pad, large), r.ok
  PROVE  /\ Typed(r.request)
         /\ DOMAIN r.request = {inputs[i].name : i \in DOMAIN inputs}
         /\ \A i \in DOMAIN inputs :
               IsTensorOf(r.request[inputs[i].name], inputs[i])
<1> DEFINE built == AllAdded(infer_request, inputs, pad)
<1>1. Unknown(inputs) = {}
  BY DEF PreRunProcessing
<1>2. r.request = RemoveExtraInputs(built, inputs)
  BY <1>1 DEF PreRunProcessing, AllAdded
<1>3. InputsKnown(inputs)
  BY <1>1 DEF Unknown, InputsKnown
<1>4. Built(built, infer_request, inputs, N)
  BY <1>3, AllInputsAdded, CallsAssumption DEF CallsOK
<1> HIDE DEF built
<1> QED BY <1>2, <1>4 DEF Built, RemoveExtraInputs, Typed

-----------------------------------------------------------------------------
\* A request that was taken over leaves a typed one, and carries its inputs.
TFServeInv ==
  calls.kind = "tfserving" =>
    /\ pc # "stopped" => Typed(infer_request)
    /\ pc = "sent" =>
         LET inputs == calls.steps[Step]
         IN  /\ DOMAIN infer_request =
                  {inputs[i].name : i \in DOMAIN inputs}
             /\ \A i \in DOMAIN inputs :
                  IsTensorOf(infer_request[inputs[i].name], inputs[i])

TorchInv ==
  calls.kind = "torchserve" =>
    /\ pc = "idle" => file = NoFile /\ mime = 0
    /\ pc = "sent" =>
         /\ mime = 1
         /\ Len(calls.steps[Step]) = 1 => file = calls.steps[Step][1]
    /\ pc = "stopped" => file = NoFile /\ mime \in 0 .. 1

StreamType == [half : BOOLEAN, dead : BOOLEAN, written : Seq(Nat)]

\* What was written and what is left is the request; the flag of the last
\* write tells whether the stream is dead.
Writing ==
  /\ stream \in StreamType /\ ~stream.half /\ pending \in Seq(Nat)
  /\ ~stream.dead => stream.written \o pending
                       = GetSerializedMessages(calls.steps[Step], 0)
  /\ ok \in {"unset", "true"} => ~stream.dead
  /\ ok \in {"unset", "true", "false"}

GrpcInv ==
  calls.kind = "dynamic_grpc" =>
    /\ buf_pos \in [DOMAIN calls.steps -> Nat]
    /\ (pc \in {"idle", "prepared"} /\ ~writesdone_called) =>
          stream = StartStream
    /\ pc = "prepared" => buf_pos[Step] = 0
    /\ pc = "writing" => Writing
    /\ pc = "reading" =>
          /\ writesdone_called
          /\ stream.written = GetSerializedMessages(calls.steps[Step], 0)

RemoteControl ==
  /\ calls \in Calls /\ n \in Nat
  /\ pc \in {"sent", "prepared", "writing", "reading"} => n > 0
  /\ pc \in {"prepared", "writing", "reading"} =>
        calls.kind = "dynamic_grpc"
  /\ pc = "sent" => calls.kind \in {"tfserving", "torchserve"}
  /\ pc \in {"idle", "stopped", "sent", "prepared", "writing", "reading"}

RemoteInv == RemoteControl /\ TFServeInv /\ TorchInv /\ GrpcInv

LEMMA StepOfCalls ==
  ASSUME CallsAssumption, RemoteControl, calls.kind # "in_process"
  PROVE  /\ NextStep \in 1 .. Len(calls.steps)
         /\ n > 0 => Step \in 1 .. Len(calls.steps)
<1>1. Len(calls.steps) \in Nat \ {0} /\ n \in Nat
  BY CallsAssumption DEF CallsOK, RemoteControl
<1>2. \A a \in Nat, b \in Nat \ {0} : a % b \in 0 .. b - 1
  OBVIOUS
<1>3. \A a \in 0 .. Len(calls.steps) - 1 : a + 1 \in 1 .. Len(calls.steps)
  BY <1>1
<1>4. NextStep \in 1 .. Len(calls.steps)
  BY <1>1, <1>2, <1>3 DEF NextStep
<1>5. n > 0 => n - 1 \in Nat
  BY <1>1
<1>6. n > 0 => Step \in 1 .. Len(calls.steps)
  BY <1>1, <1>2, <1>3, <1>5 DEF Step
<1> QED BY <1>4, <1>6

LEMMA NextStepIsStep ==
  ASSUME n \in Nat, n' = n + 1, calls' = calls
  PROVE  Step' = NextStep
<1>1. n' - 1 = n
  OBVIOUS
<1> QED BY <1>1 DEF Step, NextStep

LEMMA SerializedMessages ==
  ASSUME NEW messages \in Seq(Nat)
  PROVE  LET m == GetSerializedMessages(messages, 0)
         IN  /\ m \in Seq(Nat)
             /\ m = messages \/ Append(m, EmptyMessage) = messages
<1>1. Len(messages) \in Nat
  BY LenProperties
<1>2. SubSeq(messages, 0 + 1, Len(messages)) = messages
  <2>1. 0 + 1 = 1
    OBVIOUS
  <2> QED BY <1>1, <2>1, SubSeqFull
<1>3. CASE messages # <<>> /\ messages[Len(messages)] = EmptyMessage
  <2> DEFINE L == Len(messages)
             front == SubSeq(messages, 1, L - 1)
  <2>1. L - 1 \in Nat /\ \A i \in 1 .. L : messages[i] \in Nat
    BY <1>1, <1>3, EmptySeq, ElementOfSeq
  <2>2. /\ front \in Seq(Nat) /\ Len(front) = L - 1
        /\ \A i \in 1 .. L - 1 : front[i] = messages[i]
    <3>1. /\ L - 1 \in Int /\ 1 \in Int
          /\ \A i \in 1 .. L - 1 : messages[i] \in Nat
      BY <2>1
    <3>2. /\ SubSeq(messages, 1, L - 1) \in Seq(Nat)
          /\ Len(SubSeq(messages, 1, L - 1))
               = IF 1 <= L - 1 THEN (L - 1) - 1 + 1 ELSE 0
          /\ \A i \in 1 .. (L - 1) - 1 + 1 :
               SubSeq(messages, 1, L - 1)[i] = messages[1 + i - 1]
      <4> HIDE DEF L
      <4> QED BY <3>1, SubSeqProperties
    <3> HIDE DEF L
    <3> QED BY <2>1, <3>2
  <2>3. Append(front, EmptyMessage) = messages
    <3> DEFINE both == Append(front, EmptyMessage)
    <3>1. EmptyMessage \in Nat /\ messages[L] = EmptyMessage
      BY <1>3 DEF EmptyMessage
    <3> HIDE DEF front
    <3>2. /\ both \in Seq(Nat) /\ Len(both) = L
          /\ \A i \in 1 .. L : both[i] = messages[i]
      BY <2>1, <2>2, <3>1
    <3> HIDE DEF both
    <3> QED BY <3>2, SeqEqual DEF both
  <2>4. GetSerializedMessages(messages, 0) = front
    <3>1. GetSerializedMessages(messages, 0)
            = SubSeq(messages, 1, Len(messages) - 1)
      BY <1>2, <1>3 DEF GetSerializedMessages
    <3> QED BY <3>1
  <2> HIDE DEF front
  <2> QED BY <2>2, <2>3, <2>4
<1>4. CASE ~(messages # <<>> /\ messages[Len(messages)] = EmptyMessage)
  BY <1>2, <1>4 DEF GetSerializedMessages
<1> QED BY <1>3, <1>4

-----------------------------------------------------------------------------
LEMMA RemoteInvInit ==
  ASSUME CallsAssumption, RemoteInit
  PROVE  RemoteInv
<1>1. RemoteControl
  BY DEF RemoteInit, RemoteControl
<1>2. TFServeInv
  <2>1. Typed(infer_request)
    BY DEF RemoteInit, TFServeInit, Typed
  <2> QED BY <2>1 DEF RemoteInit, TFServeInv
<1>3. TorchInv
  BY DEF RemoteInit, TorchServeInit, TorchInv
<1>4. GrpcInv
  BY DEF RemoteInit, DynamicGrpcInit, GrpcInv
<1> QED BY <1>1, <1>2, <1>3, <1>4 DEF RemoteInv

\* The steps of a request to TensorFlow Serving.
LEMMA TFServeKeeps ==
  ASSUME CallsAssumption, RemoteInv, TFServeInfer \/ Predict
  PROVE  RemoteInv'
<1> DEFINE inputs == calls.steps[NextStep]
<1>1. calls.kind = "tfserving" /\ calls \in Calls /\ n \in Nat
  BY DEF TFServeInfer, Predict, Begins, RemoteInv, RemoteControl
<1>2. CASE TFServeInfer
  <2>1. PICK pad \in 0 .. 1, large \in BOOLEAN :
          LET r == PreRunProcessing(inputs, pad, large)
          IN  /\ infer_request' = r.request
              /\ pc' = IF r.ok THEN "sent" ELSE "stopped"
    BY <1>2 DEF TFServeInfer
  <2>2. /\ pc = "idle" /\ n' = n + 1 /\ calls' = calls
        /\ UNCHANGED <<torch, grpc, pending, ok>>
    BY <1>2 DEF TFServeInfer, Begins
  <2>3. RemoteControl'
    BY <1>1, <2>1, <2>2 DEF RemoteControl
  <2>4. TFServeInv'
    <3> DEFINE r == PreRunProcessing(inputs, pad, large)
    <3>1. CASE r.ok
      <4>1. NextStep \in 1 .. Len(calls.steps)
        BY <1>1, StepOfCalls DEF RemoteInv
      <4>2. /\ Len(inputs) \in Nat /\ DOMAIN inputs = 1 .. Len(inputs)
            /\ DifferentNames(inputs)
            /\ \A i \in 1 .. Len(inputs) : InputOK(inputs[i])
        BY <1>1, <4>1, CallsAssumption DEF CallsOK
      <4>3. Typed(infer_request)
        BY <1>1, <2>2 DEF RemoteInv, TFServeInv
      <4> HIDE DEF inputs
      <4>4. /\ Typed(r.request)
            /\ DOMAIN r.request = {inputs[i].name : i \in DOMAIN inputs}
            /\ \A i \in DOMAIN inputs :
                  IsTensorOf(r.request[inputs[i].name], inputs[i])
        BY <3>1, <4>2, <4>3, RequestPrepared
      <4>5. calls.steps[Step]' = inputs
        BY <1>1, <2>2, NextStepIsStep DEF inputs
      <4> HIDE DEF r
      <4>6. infer_request' = r.request
        BY <2>1 DEF r
      <4> QED BY <4>4, <4>5, <4>6 DEF TFServeInv
    <3>2. CASE ~r.ok
      BY <2>1, <3>2 DEF TFServeInv
    <3> QED BY <3>1, <3>2
  <2> QED BY <1>1, <2>2, <2>3, <2>4 DEF RemoteInv, TorchInv, GrpcInv
<1>3. CASE Predict
  <2>1. /\ pc = "sent" /\ pc' \in {"idle", "stopped"}
        /\ UNCHANGED <<infer_request, calls, n>>
    BY <1>3 DEF Predict, Answer
  <2>2. RemoteControl'
    BY <2>1 DEF RemoteInv, RemoteControl
  <2>3. TFServeInv'
    BY <1>1, <2>1 DEF RemoteInv, TFServeInv
  <2> QED BY <1>1, <2>1, <2>2, <2>3 DEF RemoteInv, TorchInv, GrpcInv
<1> QED BY <1>2, <1>3

\* The steps of a request to TorchServe.
LEMMA TorchServeKeeps ==
  ASSUME CallsAssumption, RemoteInv, TorchServeInfer \/ TorchServePerform
  PROVE  RemoteInv'
<1>1. calls.kind = "torchserve" /\ calls \in Calls /\ n \in Nat
  BY DEF TorchServeInfer, TorchServePerform, Begins, RemoteInv, RemoteControl
<1>2. CASE TorchServeInfer
  <2> DEFINE paths == calls.steps[NextStep]
  <2>1. /\ pc = "idle" /\ n' = n + 1 /\ calls' = calls
        /\ pc' = IF file' = NoFile THEN "stopped" ELSE "sent"
        /\ file' = OpenFileData(paths, calls.exists) /\ mime' = mime + 1
    BY <1>2 DEF TorchServeInfer, Begins, TorchPreRunProcessing
  <2>2. RemoteControl'
    BY <1>1, <2>1 DEF RemoteControl
  <2>3. mime' = 1
    BY <1>1, <2>1 DEF RemoteInv, TorchInv
  <2>4. (file' # NoFile /\ Len(paths) = 1) => file' = paths[1]
    BY <2>1 DEF OpenFileData
  <2>5. calls.steps[Step]' = paths
    BY <1>1, <2>1, NextStepIsStep
  <2> HIDE DEF paths
  <2>6. TorchInv'
    BY <2>1, <2>3, <2>4, <2>5 DEF TorchInv
  <2> QED BY <1>1, <2>1, <2>2, <2>6 DEF RemoteInv, TFServeInv, GrpcInv
<1>3. CASE TorchServePerform
  <2>1. /\ pc = "sent" /\ pc' \in {"idle", "stopped"}
        /\ UNCHANGED <<calls, n>>
        /\ file' = NoFile /\ mime' = mime - 1
    BY <1>3 DEF TorchServePerform, TorchFinish, Answer
  <2>2. RemoteControl'
    BY <2>1 DEF RemoteInv, RemoteControl
  <2>3. mime' = 0
    BY <1>1, <2>1 DEF RemoteInv, TorchInv
  <2>4. TorchInv'
    <3>1. 0 \in 0 .. 1
      OBVIOUS
    <3> QED BY <2>1, <2>3, <3>1 DEF TorchInv
  <2> QED BY <1>1, <2>1, <2>2, <2>4 DEF RemoteInv, TFServeInv, GrpcInv
<1> QED BY <1>2, <1>3

LEMMA WrittenFirst ==
  ASSUME NEW written \in Seq(Nat), NEW rest \in Seq(Nat), rest # <<>>
  PROVE  Append(written, Head(rest)) \o Tail(rest) = written \o rest
<1> DEFINE s == Append(written, Head(rest)) \o Tail(rest)
           t == written \o rest
<1>1. /\ Head(rest) \in Nat /\ Tail(rest) \in Seq(Nat)
      /\ Len(Tail(rest)) = Len(rest) - 1
      /\ \A i \in 1 .. Len(rest) - 1 : Tail(rest)[i] = rest[i + 1]
      /\ Head(rest) = rest[1] /\ Len(rest) \in Nat \ {0}
  BY HeadTailProperties, EmptySeq
<1>2. /\ Append(written, Head(rest)) \in Seq(Nat)
      /\ Len(Append(written, Head(rest))) = Len(written) + 1
      /\ \A i \in 1 .. Len(written) + 1 : Append(written, Head(rest))[i]
            = IF i <= Len(written) THEN written[i] ELSE Head(rest)
      /\ Len(written) \in Nat
  BY <1>1, LenProperties
<1>3. /\ s \in Seq(Nat) /\ Len(s) = Len(written) + Len(rest)
      /\ \A i \in 1 .. Len(written) + Len(rest) : s[i]
           = IF i <= Len(written) THEN written[i]
             ELSE IF i = Len(written) + 1 THEN rest[1]
             ELSE rest[i - Len(written)]
  <2> DEFINE a == Append(written, Head(rest))
             b == Tail(rest)
  <2>1. /\ a \o b \in Seq(Nat) /\ Len(a \o b) = Len(a) + Len(b)
        /\ \A i \in 1 .. Len(a) + Len(b) :
             (a \o b)[i] = IF i <= Len(a) THEN a[i] ELSE b[i - Len(a)]
    <3> HIDE DEF a, b
    <3> QED BY <1>1, <1>2, ConcatProperties DEF a, b
  <2> HIDE DEF a, b
  <2>2. Len(a) = Len(written) + 1 /\ Len(b) = Len(rest) - 1
    BY <1>1, <1>2 DEF a, b
  <2>3. ASSUME NEW i \in 1 .. Len(written) + Len(rest)
        PROVE  (a \o b)[i] = IF i <= Len(written) THEN written[i]
                             ELSE IF i = Len(written) + 1 THEN rest[1]
                             ELSE rest[i - Len(written)]
    <3>1. CASE i <= Len(written) + 1
      BY <1>1, <1>2, <2>1, <2>2, <3>1 DEF a
    <3>2. CASE ~(i <= Len(written) + 1)
      <4>1. /\ i - (Len(written) + 1) \in 1 .. Len(rest) - 1
            /\ (i - (Len(written) + 1)) + 1 = i - Len(written)
        BY <1>1, <1>2, <3>2
      <4>2. (a \o b)[i] = b[i - (Len(written) + 1)]
        <5>1. i \in 1 .. Len(a) + Len(b) /\ ~(i <= Len(a))
          BY <1>1, <1>2, <2>2, <3>2
        <5> QED BY <2>1, <2>2, <5>1
      <4>3. b[i - (Len(written) + 1)] = rest[i - Len(written)]
        BY <1>1, <4>1 DEF b
      <4> QED BY <1>2, <3>2, <4>2, <4>3
    <3> QED BY <3>1, <3>2
  <2>4. Len(a \o b) = Len(written) + Len(rest)
    BY <1>1, <1>2, <2>1, <2>2
  <2> QED BY <2>1, <2>3, <2>4 DEF a, b
<1>4. /\ t \in Seq(Nat) /\ Len(t) = Len(written) + Len(rest)
      /\ \A i \in 1 .. Len(written) + Len(rest) : t[i]
           = IF i <= Len(written) THEN written[i] ELSE rest[i - Len(written)]
  BY ConcatProperties
<1> HIDE DEF s, t
<1>5. ASSUME NEW i \in 1 .. Len(s)
      PROVE  s[i] = t[i]
  <2>1. i \in 1 .. Len(written) + Len(rest)
    BY <1>3
  <2>2. i = Len(written) + 1 => i - Len(written) = 1 /\ ~(i <= Len(written))
    BY <1>2
  <2> QED BY <1>3, <1>4, <2>1, <2>2
<1>6. s = t
  BY <1>3, <1>4, <1>5, SeqEqual
<1> QED BY <1>6 DEF s, t

\* The steps of a dynamic gRPC request.
LEMMA DynamicGrpcKeeps ==
  ASSUME CallsAssumption, RemoteInv,
         \/ DynamicGrpcInfer \/ BidiStreamRPC
         \/ WriteMessage \/ WritesEnd \/ ReadResponses
  PROVE  RemoteInv'
<1>1. calls.kind = "dynamic_grpc" /\ calls \in Calls /\ n \in Nat
  BY DEF DynamicGrpcInfer, BidiStreamRPC, WriteMessage, WritesEnd,
         ReadResponses, Begins, RemoteInv, RemoteControl
<1>2. GrpcInv /\ RemoteControl
  BY DEF RemoteInv
<1>3. ASSUME RemoteControl', GrpcInv', calls' = calls
      PROVE  RemoteInv'
  BY <1>1, <1>3 DEF RemoteInv, TFServeInv, TorchInv
<1>4. CASE DynamicGrpcInfer
  <2>1. /\ pc = "idle" /\ n' = n + 1 /\ calls' = calls /\ pc' = "prepared"
        /\ buf_pos' = [buf_pos EXCEPT ![NextStep] = 0]
        /\ UNCHANGED <<stream, writesdone_called>>
    BY <1>4 DEF DynamicGrpcInfer, Begins, PrepareForRequest
  <2>2. RemoteControl'
    BY <1>1, <2>1 DEF RemoteControl
  <2>3. Step' = NextStep
    BY <1>1, <2>1, NextStepIsStep
  <2>4. NextStep \in DOMAIN calls.steps
    BY <1>1, <1>2, StepOfCalls, CallsAssumption DEF CallsOK
  <2>5. GrpcInv'
    BY <1>1, <1>2, <2>1, <2>3, <2>4 DEF GrpcInv
  <2> QED BY <1>3, <2>1, <2>2, <2>5
<1>5. CASE BidiStreamRPC
  <2> DEFINE messages == calls.steps[Step]
  <2>1. /\ pc = "prepared" /\ pc' = "writing" /\ calls' = calls /\ n' = n
        /\ stream' = StreamOf /\ ok' = "unset"
        /\ pending' = GetSerializedMessages(messages, buf_pos[Step])
        /\ buf_pos' = [buf_pos EXCEPT ![Step] = @ + Len(pending')]
    BY <1>5 DEF BidiStreamRPC
  <2>2. RemoteControl'
    BY <1>2, <2>1 DEF RemoteControl
  <2>3. Step \in DOMAIN calls.steps /\ messages \in Seq(Nat)
    <3>1. n > 0
      BY <1>2, <2>1 DEF RemoteControl
    <3> QED BY <1>1, <1>2, <3>1, StepOfCalls, CallsAssumption DEF CallsOK
  <2>4. Step' = Step
    BY <2>1 DEF Step
  <2>5. buf_pos[Step] = 0
    BY <1>1, <1>2, <2>1 DEF GrpcInv
  <2>6. stream' = StartStream
    BY <1>1, <1>2, <2>1 DEF GrpcInv, StreamOf
  <2>7. /\ pending' = GetSerializedMessages(messages, 0)
        /\ pending' \in Seq(Nat)
    BY <2>1, <2>3, <2>5, SerializedMessages
  <2> HIDE DEF messages
  <2>8. Writing'
    <3>1. <<>> \o pending' = pending' /\ <<>> \in Seq(Nat)
      BY <2>7, ConcatToEmpty
    <3>2. calls.steps[Step]' = messages
      BY <2>1, <2>4 DEF messages
    <3> QED BY <2>1, <2>6, <2>7, <3>1, <3>2
            DEF Writing, StartStream, StreamType
  <2>9. GrpcInv'
    <3>1. Len(pending') \in Nat
      BY <2>7, LenProperties
    <3>2. buf_pos' \in [DOMAIN calls.steps -> Nat]
      BY <1>1, <1>2, <2>1, <2>3, <3>1 DEF GrpcInv
    <3> QED BY <2>1, <2>8, <3>2 DEF GrpcInv
  <2> QED BY <1>3, <2>1, <2>2, <2>9
<1>6. CASE WriteMessage
  <2>1. /\ pc = "writing" /\ pc' = pc /\ calls' = calls /\ n' = n
        /\ pending # <<>> /\ pending' = Tail(pending)
        /\ ok' = IF stream'.dead THEN "false" ELSE "true"
        /\ buf_pos' = buf_pos
    BY <1>6 DEF WriteMessage
  <2>2. PICK alive \in BOOLEAN :
          stream' = Write(stream, Head(pending), alive)
    BY <1>6 DEF WriteMessage
  <2>3. RemoteControl'
    BY <1>2, <2>1 DEF RemoteControl
  <2>4. Writing
    BY <1>1, <1>2, <2>1 DEF GrpcInv
  <2>5. Head(pending) \in Nat /\ Tail(pending) \in Seq(Nat)
    BY <2>1, <2>4, HeadTailProperties DEF Writing
  <2>6. /\ stream' \in StreamType /\ ~stream'.half
        /\ ~stream'.dead =>
              /\ ~stream.dead
              /\ stream'.written = Append(stream.written, Head(pending))
    <3>1. stream \in StreamType /\ ~stream.half
      BY <2>4 DEF Writing
    <3>2. CASE alive /\ ~stream.half /\ ~stream.dead
      <4> DEFINE m == Append(stream.written, Head(pending))
      <4>1. m \in Seq(Nat)
        BY <2>5, <3>1 DEF StreamType
      <4>2. stream' = [stream EXCEPT !.written = m]
        BY <2>2, <3>2 DEF Write
      <4> HIDE DEF m
      <4>3. /\ stream' \in StreamType /\ stream'.half = stream.half
            /\ stream'.written = m
        BY <3>1, <4>1, <4>2 DEF StreamType
      <4> QED BY <3>1, <3>2, <4>3 DEF m
    <3>3. CASE ~(alive /\ ~stream.half /\ ~stream.dead)
      <4>1. stream' = [stream EXCEPT !.dead = TRUE]
        BY <2>2, <3>3 DEF Write
      <4>2. /\ stream' \in StreamType /\ stream'.half = stream.half
            /\ stream'.dead
        BY <3>1, <4>1 DEF StreamType
      <4> QED BY <3>1, <4>2
    <3> QED BY <3>2, <3>3
  <2>7. ~stream'.dead =>
          stream'.written \o Tail(pending) = stream.written \o pending
    BY <2>1, <2>4, <2>6, WrittenFirst DEF Writing, StreamType
  <2>8. calls.steps[Step]' = calls.steps[Step]
    BY <2>1 DEF Step
  <2>9. Writing'
    BY <2>1, <2>4, <2>5, <2>6, <2>7, <2>8 DEF Writing
  <2>10. GrpcInv'
    BY <1>1, <1>2, <2>1, <2>9 DEF GrpcInv
  <2> QED BY <1>3, <2>1, <2>3, <2>10
<1>7. CASE WritesEnd
  <2>1. /\ pc = "writing" /\ pending = <<>> /\ calls' = calls /\ n' = n
        /\ pc' \in {"reading", "stopped"} /\ buf_pos' = buf_pos
        /\ pc' = "reading" => /\ ok \in {"true", "unset"}
                              /\ stream' = [stream EXCEPT !.half = TRUE]
                              /\ writesdone_called'
    BY <1>7 DEF WritesEnd, WritesDone, Answer, grpc
  <2>2. RemoteControl'
    BY <1>2, <2>1 DEF RemoteControl
  <2>3. Writing
    BY <1>1, <1>2, <2>1 DEF GrpcInv
  <2>4. ASSUME pc' = "reading"
        PROVE  stream'.written
                 = GetSerializedMessages(calls.steps[Step], 0)
    <3>1. ~stream.dead /\ stream'.written = stream.written
      BY <2>1, <2>3, <2>4 DEF Writing, StreamType
    <3>2. stream.written \o pending = stream.written
      BY <2>1, <2>3, ConcatEmptySeq DEF Writing, StreamType
    <3> QED BY <2>3, <3>1, <3>2 DEF Writing
  <2>5. calls.steps[Step]' = calls.steps[Step]
    BY <2>1 DEF Step
  <2>6. GrpcInv'
    BY <1>1, <1>2, <2>1, <2>4, <2>5 DEF GrpcInv
  <2> QED BY <1>3, <2>1, <2>2, <2>6
<1>8. CASE ReadResponses
  <2>1. /\ pc = "reading" /\ pc' \in {"idle", "stopped"}
        /\ UNCHANGED <<calls, n, stream, writesdone_called, buf_pos>>
    BY <1>8 DEF ReadResponses, Answer, grpc
  <2>2. RemoteControl'
    BY <1>2, <2>1 DEF RemoteControl
  <2>3. GrpcInv'
    BY <1>1, <1>2, <2>1 DEF GrpcInv
  <2> QED BY <1>3, <2>1, <2>2, <2>3
<1> QED BY <1>4, <1>5, <1>6, <1>7, <1>8

LEMMA RemoteInvStep ==
  ASSUME CallsAssumption, RemoteInv, [RemoteNext]_remoteVars
  PROVE  RemoteInv'
<1>1. CASE UNCHANGED remoteVars
  BY <1>1 DEF remoteVars, torch, grpc, RemoteInv, RemoteControl, TFServeInv,
              TorchInv, GrpcInv, Writing, Step
<1>2. CASE TFServeInfer \/ Predict
  BY <1>2, TFServeKeeps
<1>3. CASE TorchServeInfer \/ TorchServePerform
  BY <1>3, TorchServeKeeps
<1>4. CASE \/ DynamicGrpcInfer \/ BidiStreamRPC
           \/ WriteMessage \/ WritesEnd \/ ReadResponses
  BY <1>4, DynamicGrpcKeeps
<1> QED BY <1>1, <1>2, <1>3, <1>4 DEF RemoteNext, RemoteEnded

LEMMA RemoteInvImplies ==
  ASSUME CallsAssumption, RemoteInv
  PROVE  SendsItsOwn
<1>1. TensorsFaithful
  <2> SUFFICES ASSUME pc = "sent", calls.kind = "tfserving"
               PROVE  LET inputs == calls.steps[Step]
                      IN  /\ DOMAIN infer_request =
                               {inputs[i].name : i \in DOMAIN inputs}
                          /\ \A i \in DOMAIN inputs :
                               IsTensorOf(Carried(inputs[i]), inputs[i])
    BY DEF TensorsFaithful, IsTensorOf
  <2> QED BY DEF RemoteInv, TFServeInv, Carried
<1>2. StreamFaithful
  <2> SUFFICES ASSUME pc = "reading" PROVE StreamFaithful
    BY DEF StreamFaithful
  <2>1. /\ calls.kind = "dynamic_grpc" /\ calls \in Calls /\ n > 0
        /\ stream.written = GetSerializedMessages(calls.steps[Step], 0)
    BY DEF RemoteInv, RemoteControl, GrpcInv
  <2>2. calls.steps[Step] \in Seq(Nat)
    BY <2>1, StepOfCalls, CallsAssumption DEF CallsOK, RemoteInv
  <2> QED BY <2>1, <2>2, SerializedMessages DEF StreamFaithful
<1>3. NothingLeft
  BY DEF NothingLeft, RemoteInv, TorchInv
<1> QED BY <1>1, <1>2, <1>3 DEF SendsItsOwn

THEOREM RequestsSendTheirOwn == RemoteSpec => []SendsItsOwn
<1> USE CallsAssumption
<1>1. RemoteInit => RemoteInv
  BY RemoteInvInit
<1>2. RemoteInv /\ [RemoteNext]_remoteVars => RemoteInv'
  BY RemoteInvStep
<1>3. RemoteInv => SendsItsOwn
  BY RemoteInvImplies
<1> QED BY <1>1, <1>2, <1>3, PTL DEF RemoteSpec
=============================================================================
