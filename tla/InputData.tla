----------------------------- MODULE InputData -----------------------------
(***************************************************************************)
(* The data of a run from the user's files to the requests: DataLoader is  *)
(* filled (LoadManager::InitManager), InferDataManager or                  *)
(* InferDataManagerShm prepares the inputs of every step, and the contexts *)
(* of the worker threads put them in their requests, walking through       *)
(* stream 0 (UpdateJsonData) or, with a sequence model, through the stream *)
(* of the sequence (UpdateSeqJsonData).  The sequences and their ids are   *)
(* SequenceManager's; a slot stands for a sequence status and the context  *)
(* that sends for it.                                                      *)
(***************************************************************************)
EXTENDS DataLoader

CONSTANTS
    Jobs,          \* the data sets, models and options to explore
    MaxRequests    \* bound: requests of a context, and ids of all slots

\* A file's "data" or "validation_data", in which no stream is empty.
MemberOK(data) ==
    /\ data \in Seq(Range(data))
    /\ \A i \in DOMAIN data :
          /\ data[i].array \in BOOLEAN /\ data[i].steps # <<>>
          /\ data[i].steps \in Seq(Range(data[i].steps))

\* The range of sequence ids of a job, as CLParser leaves it: a start of 0 is
\* replaced by 1.  A batch of sequences is refused (CreateAnalyzerObjects).
\* Files without any data need an input that is not optional: where all are,
\* the code divides by the number of steps, which is 0.
JobsOK ==
    \A j \in Jobs :
        /\ j.start_id \in Nat \ {0} /\ j.range \in Nat
        /\ j.batch \in Nat \ {0} /\ (j.sequence => j.batch = 1)
        /\ j.threads \in Nat /\ j.lengths \subseteq Nat \ {0}
        /\ j.files \in Seq(Range(j.files))
        /\ \A i \in DOMAIN j.files :
              MemberOK(j.files[i].data) /\ MemberOK(j.files[i].validation)
        /\ (/\ j.source = "json" /\ Inputs \subseteq j.model.optional) =>
              \E i \in DOMAIN j.files : j.files[i].data # <<>>

VARIABLES
    job, pc,
    loader,        \* data_loader_
    read,          \* number of JSON files read
    prepared,      \* inputs_, or the contents of the input regions
    regions,       \* shared memory: allocated, owned, registered
    ctx,           \* the contexts of a model without sequences, per thread
    seq,           \* sequence_statuses_, with the slot's next step
    curr_seq_id,   \* curr_seq_id_
    used           \* history: the values of each input that were sent

vars == <<job, pc, loader, read, prepared, regions, ctx, seq, curr_seq_id,
          used>>

Threads == 0 .. job.threads - 1
Slots == 0 .. job.slots - 1
Json == job.source = "json"

NoRequest == [inputs |-> <<>>, expected |-> <<>>, stream |-> 0, pos |-> 0,
              start |-> FALSE, end |-> FALSE]

NoRegions == [allocated |-> {}, owned |-> {}, registered |-> {}]

\* SequenceStatus, with the thread's place in SendSequenceInferRequest (phase,
\* next: next_seq_id) and, as history, the requests sent of the sequence.
NewSequenceStatus ==
    [seq_id |-> 0, data_stream_id |-> 0, remaining |-> 0, length |-> 0,
     phase |-> "idle", next |-> 0, count |-> 0, ok |-> TRUE,
     req |-> NoRequest]

NewContextAtZero(t) == [data_step_id |-> 0, ready |-> FALSE, ok |-> TRUE,
                        sent |-> 0, req |-> NoRequest]

\* InferContext: data_step_id_ starts at the thread's id.
NewContext(t) == [data_step_id |-> t, ready |-> FALSE, ok |-> TRUE,
                  sent |-> 0, req |-> NoRequest]

Init ==
    /\ job \in Jobs
    /\ pc = "load"
    /\ loader = EmptyLoader /\ read = 0
    /\ prepared = <<>> /\ regions = NoRegions
    /\ ctx = [t \in Threads |-> NewContext(t)]
    /\ seq = [s \in Slots |-> NewSequenceStatus]
    /\ curr_seq_id = 0
    /\ used = [n \in Inputs |-> {}]

-----------------------------------------------------------------------------
(* LoadManager::InitManagerInputs.                                         *)

ReadDataFromJSON ==
    /\ pc = "load" /\ Json /\ read < Len(job.files)
    /\ loader' = ParseData(loader, job.files[read + 1], job.model)
    /\ read' = read + 1
    /\ pc' = IF loader'.ok
             THEN (IF read' = Len(job.files) THEN "prepare" ELSE "load")
             ELSE "destroy"
    /\ UNCHANGED <<job, prepared, regions, ctx, seq, curr_seq_id, used>>

ReadOrGenerate ==
    /\ pc = "load" /\ ~Json
    /\ loader' = IF job.source = "dir"
                 THEN ReadDataFromDir(loader, job.dir, job.model)
                 ELSE GenerateData(loader, job.model)
    /\ pc' = IF loader'.ok THEN "prepare" ELSE "destroy"
    /\ UNCHANGED <<job, read, prepared, regions, ctx, seq, curr_seq_id, used>>

-----------------------------------------------------------------------------
(* InferDataManager and InferDataManagerShm.                               *)

Keys == UNION {Inputs \X {u} \X (0 .. GetTotalSteps(loader, u) - 1) :
                 u \in 0 .. loader.data_stream_cnt - 1}

\* InferDataManagerBase::GetInputData: the steps of a batch follow each other
\* and wrap around; of a shape tensor one is enough.
BatchSteps(n, stream, step) ==
    [i \in 1 .. (IF n \in job.model.shape_tensors THEN 1 ELSE job.batch) |->
        (step + i - 1) % GetTotalSteps(loader, stream)]

BatchData(n, stream, step) ==
    LET at == BatchSteps(n, stream, step)
    IN  [i \in DOMAIN at |->
            GetInputData(loader, n, stream, at[i], job.model)]

\* ValidateShapeTensor: the steps of the batch that are not sent have the
\* same contents as the one that is.
ValidateShapeTensor(n, stream, step) ==
    n \in job.model.shape_tensors =>
        \A i \in 1 .. job.batch - 1 :
            LET k == (step + i) % GetTotalSteps(loader, stream)
            IN  GetInputData(loader, n, stream, k, job.model)
                  = GetInputData(loader, n, stream, step, job.model)

\* CreateAndPopulateInput accepts the batch that starts at a step.
BatchOk(n, stream, step) ==
    LET at == BatchSteps(n, stream, step)
        data == BatchData(n, stream, step)
    IN  /\ \A i \in DOMAIN at :
              /\ InputDataOk(loader, n, stream, at[i], job.model)
              /\ GetInputShape(loader, n, stream, at[i])
                   = GetInputShape(loader, n, stream, at[1])
        /\ ValidateShapeTensor(n, stream, step)
        /\ \/ \A i \in DOMAIN data : data[i].valid
           \/ \A i \in DOMAIN data : ~data[i].valid

Values(data) == [i \in DOMAIN data |-> data[i].val]

\* InferDataManager::Init.  Every thread gets inputs of its own, all with the
\* same contents.
InitInputs ==
    /\ pc = "prepare" /\ job.shm = "none"
    /\ IF \A k \in Keys : BatchOk(k[1], k[2], k[3])
       THEN /\ prepared' = [k \in {j \in Keys :
                                   BatchData(j[1], j[2], j[3])[1].valid}
                              |-> Values(BatchData(k[1], k[2], k[3]))]
            /\ pc' = "run"
       ELSE pc' = "destroy" /\ prepared' = prepared
    /\ UNCHANGED <<job, loader, read, regions, ctx, seq, curr_seq_id, used>>

\* The regions still to be made: one per output, then one per input and step.
NextRegions ==
    LET todo(S) == S \ regions.owned
        outputs == {<<n>> : n \in Outputs}
    IN  IF todo(outputs) # {} THEN todo(outputs) ELSE todo(Keys)

RegionOk(r) ==
    r \in Keys => /\ BatchOk(r[1], r[2], r[3])
                  /\ BatchData(r[1], r[2], r[3])[1].valid

\* CreateMemoryRegion: the memory is allocated, mapped or made a handle of,
\* registered with the server, and only then kept in shared_memory_regions_.
CreateMemoryRegion(r, done) ==
    [allocated |-> regions.allocated \cup (IF done > 0 THEN {r} ELSE {}),
     owned |-> regions.owned \cup (IF done = 3 THEN {r} ELSE {}),
     registered |-> regions.registered \cup (IF done = 3 THEN {r} ELSE {})]

\* CopySharedMemory into a region of an input: only cudaMemcpy may fail.
CopySharedMemory(r) ==
    IF r \in Keys /\ job.shm = "cuda" THEN BOOLEAN ELSE {TRUE}

InitRegion ==
    /\ pc = "prepare" /\ job.shm # "none"
    /\ \E r \in NextRegions :
          \/ /\ ~RegionOk(r)
             /\ pc' = "destroy" /\ UNCHANGED <<regions, prepared>>
          \/ /\ RegionOk(r)
             /\ \E done \in 0 .. 3, copied \in CopySharedMemory(r) :
                   /\ regions' = CreateMemoryRegion(r, done)
                   /\ prepared' = IF done = 3 /\ copied /\ r \in Keys
                                  THEN Extended(prepared, [x \in {r} |->
                                         Values(BatchData(r[1], r[2], r[3]))])
                                  ELSE prepared
                   /\ pc' = IF done = 3 /\ copied THEN pc ELSE "destroy"
    /\ UNCHANGED <<job, loader, read, ctx, seq, curr_seq_id, used>>

RegionsReady ==
    /\ pc = "prepare" /\ job.shm # "none" /\ NextRegions = {}
    /\ pc' = "run"
    /\ UNCHANGED <<job, loader, read, prepared, regions, ctx, seq,
                   curr_seq_id, used>>

\* InitInferData: the data of step 0 of stream 0, for every element of the
\* batch, or its region.
InitInferData ==
    [n \in {m \in Inputs :
              GetInputData(loader, m, 0, 0, job.model).valid} |->
        IF job.shm # "none" THEN prepared[<<n, 0, 0>>]
        ELSE [i \in 1 .. job.batch |->
                 GetInputData(loader, n, 0, 0, job.model).val]]

InitInferDataOk ==
    \A n \in Inputs : InputDataOk(loader, n, 0, 0, job.model)

\* UpdateInputs: the inputs prepared for the step.
UpdateInputs(stream, step) ==
    [n \in {m \in Inputs : <<m, stream, step>> \in DOMAIN prepared} |->
        prepared[<<n, stream, step>>]]

\* UpdateValidationOutputs: the outputs expected of a batch, as far as there
\* are any.  The steps wrap around at the length of stream 0.
UpdateValidationOutputs(stream, step) ==
    LET at(i) == (step + i - 1) % GetTotalSteps(loader, 0)
        out(n, i) == GetOutputData(loader, n, stream, at(i))
    IN  [n \in {m \in Outputs : out(m, 1).valid} |->
            [i \in 1 .. job.batch |-> out(n, i).val]]

UpdateInferData(stream, step) ==
    [inputs |-> UpdateInputs(stream, step),
     expected |-> UpdateValidationOutputs(stream, step)]

-----------------------------------------------------------------------------
(* The contexts of a model without sequences.                              *)

InitContext(t) ==
    /\ pc = "run" /\ ~job.sequence /\ ~ctx[t].ready
    /\ ctx' = [ctx EXCEPT ![t].ready = TRUE, ![t].ok = InitInferDataOk,
                          ![t].req = IF InitInferDataOk
                                     THEN [@ EXCEPT !.inputs = InitInferData]
                                     ELSE @]
    /\ UNCHANGED <<job, pc, loader, read, prepared, regions, seq,
                   curr_seq_id, used>>

Sent(inputs) ==
    [n \in Inputs |-> used[n] \cup
       (IF n \in DOMAIN inputs THEN {inputs[n][i] : i \in DOMAIN inputs[n]}
        ELSE {})]

\* UpdateJsonData: the step of a context's next request.
JsonStep(t) ==
    (ctx[t].data_step_id * job.batch) % GetTotalSteps(loader, 0)

SendInferRequest(t) ==
    LET step == JsonStep(t)
        data == IF Json THEN UpdateInferData(0, step)
                ELSE [inputs |-> ctx[t].req.inputs, expected |-> <<>>]
    IN  /\ pc = "run" /\ ctx[t].ready /\ ctx[t].ok
        /\ ctx[t].sent < MaxRequests
        /\ ctx' = [ctx EXCEPT
              ![t].data_step_id = IF Json THEN @ + job.threads ELSE @,
              ![t].sent = @ + 1,
              ![t].req = [@ EXCEPT !.inputs = data.inputs,
                                   !.expected = data.expected,
                                   !.pos = ctx[t].sent]]
        /\ used' = Sent(data.inputs)
        /\ UNCHANGED <<job, pc, loader, read, prepared, regions, seq,
                       curr_seq_id>>

-----------------------------------------------------------------------------
(* SequenceManager, and the requests of its sequences.  Each action below  *)
(* runs under the mutex of its slot; other slots run beside it.            *)

\* GetNextSeqId, first the counter, then the look at the other slots' ids,
\* which their threads may be changing.
NextSeqId == (curr_seq_id % job.range) + job.start_id

TakeSeqIdUnlocked(s) ==
    /\ pc = "run" /\ job.sequence
    /\ seq[s].phase = "idle" /\ seq[s].remaining = 0 /\ seq[s].ok
    /\ curr_seq_id < MaxRequests
    /\ curr_seq_id' \in {curr_seq_id, curr_seq_id + 1}
    /\ seq' = [seq EXCEPT ![s].next = NextSeqId, ![s].phase = "compare"]
    /\ UNCHANGED <<job, pc, loader, read, prepared, regions, ctx, used>>

TakeSeqId(s) ==
    /\ pc = "run" /\ job.sequence
    /\ seq[s].phase = "idle" /\ seq[s].remaining = 0 /\ seq[s].ok
    /\ curr_seq_id < MaxRequests
    /\ curr_seq_id' = curr_seq_id + 1
    /\ seq' = [seq EXCEPT ![s].next = NextSeqId, ![s].phase = "compare"]
    /\ UNCHANGED <<job, pc, loader, read, prepared, regions, ctx, used>>

CompareSeqId(s) ==
    /\ seq[s].phase = "compare"
    /\ seq' = [seq EXCEPT
          ![s].phase = "begin",
          ![s].next = IF \E i \in Slots : seq[i].seq_id = @
                      THEN seq[s].seq_id ELSE @]
    /\ UNCHANGED <<job, pc, loader, read, prepared, regions, ctx,
                   curr_seq_id, used>>

\* InitNewSequence: the stream and the length of a new sequence.
NewSequences(s) ==
    {[seq[s] EXCEPT !.seq_id = seq[s].next, !.phase = "idle", !.count = 0,
                    !.data_stream_id = IF Json THEN draw[1] ELSE @,
                    !.length = IF Json THEN draw[2] ELSE @,
                    !.remaining = draw[2]] :
       draw \in
         (IF Json
          THEN UNION {{u} \X (IF job.lengths # {} THEN job.lengths
                              ELSE {GetTotalSteps(loader, u)}) :
                         u \in 0 .. loader.data_stream_cnt - 1}
          ELSE {0} \X job.lengths)}

SeqJsonStepOfFirst(st) ==
    (st.length - st.remaining) % GetTotalSteps(loader, 0)

\* UpdateSeqJsonData: the step of the sequence's stream.
SeqJsonStep(st) ==
    (st.length - st.remaining) % GetTotalSteps(loader, st.data_stream_id)

\* SetInferSequenceOptions, UpdateSeqJsonData, DecrementRemainingQueries and
\* SendRequest, for the status st of slot s.
SendOf(s, st, start, pos) ==
    LET data == IF Json THEN UpdateInferData(st.data_stream_id,
                                             SeqJsonStep(st))
                ELSE [inputs |-> InitInferData, expected |-> <<>>]
    IN  IF InitInferDataOk
        THEN /\ seq' = [seq EXCEPT ![s] = [st EXCEPT
                  !.remaining = @ - 1, !.count = @ + 1,
                  !.req = [inputs |-> data.inputs, expected |-> data.expected,
                           stream |-> st.data_stream_id, pos |-> pos,
                           start |-> start, end |-> st.remaining = 1]]]
             /\ used' = Sent(data.inputs)
        ELSE /\ seq' = [seq EXCEPT ![s] = [st EXCEPT !.ok = FALSE,
                                                     !.remaining = 0]]
             /\ used' = used

BeginSequence(s) ==
    /\ seq[s].phase = "begin"
    /\ \E st \in NewSequences(s) : SendOf(s, st, TRUE, 0)
    /\ UNCHANGED <<job, pc, loader, read, prepared, regions, ctx,
                   curr_seq_id>>

ContinueSequence(s) ==
    /\ pc = "run" /\ seq[s].phase = "idle" /\ seq[s].remaining > 0
    /\ SendOf(s, seq[s], FALSE, seq[s].count)
    /\ UNCHANGED <<job, pc, loader, read, prepared, regions, ctx,
                   curr_seq_id>>

\* CompleteOngoingSequence: the last request of a sequence that is open when
\* the worker stops.
CompleteOngoingSequence(s) ==
    /\ pc = "stop" /\ seq[s].phase = "idle" /\ seq[s].remaining > 0
    /\ SendOf(s, [seq[s] EXCEPT !.remaining = 1], FALSE, seq[s].length - 1)
    /\ UNCHANGED <<job, pc, loader, read, prepared, regions, ctx,
                   curr_seq_id>>

-----------------------------------------------------------------------------
(* The end of the run.                                                     *)

Stop ==
    /\ pc = "run" /\ pc' = "stop"
    /\ UNCHANGED <<job, loader, read, prepared, regions, ctx, seq,
                   curr_seq_id, used>>

Joined ==
    /\ pc = "stop"
    /\ \A s \in Slots : seq[s].phase = "idle" /\ seq[s].remaining = 0
    /\ pc' = "destroy"
    /\ UNCHANGED <<job, loader, read, prepared, regions, ctx, seq,
                   curr_seq_id, used>>

ReleaseInputRegions ==
    [allocated |-> regions.allocated \ {r \in regions.owned : Len(r) = 3},
     owned |-> {}, registered |-> {}]

\* ~InferDataManagerShm: what is kept is unregistered, unmapped and unlinked,
\* or freed.  The CUDA memory of a remote server has no destructor: it lives
\* as long as the process.  TritonLoader::UnregisterAllSharedMemory asks twice
\* for the GPU regions: the system memory stays registered.
ReleaseRegions ==
    [allocated |-> IF job.shm = "cuda" /\ ~job.in_process
                   THEN regions.allocated
                   ELSE regions.allocated \ regions.owned,
     owned |-> {},
     registered |-> IF job.shm = "system" /\ job.in_process
                    THEN regions.registered ELSE {}]

Destroy ==
    /\ pc = "destroy" /\ pc' = "end"
    /\ regions' = ReleaseRegions
    /\ UNCHANGED <<job, loader, read, prepared, ctx, seq, curr_seq_id, used>>

Ended == pc = "end" /\ UNCHANGED vars

Next ==
    \/ ReadDataFromJSON \/ ReadOrGenerate
    \/ InitInputs \/ InitRegion \/ RegionsReady
    \/ \E t \in Threads : InitContext(t) \/ SendInferRequest(t)
    \/ \E s \in Slots : \/ TakeSeqId(s) \/ CompareSeqId(s)
                        \/ BeginSequence(s) \/ ContinueSequence(s)
                        \/ CompleteOngoingSequence(s)
    \/ Stop \/ Joined \/ Destroy \/ Ended

Spec == Init /\ [][Next]_vars

-----------------------------------------------------------------------------
(* What the requests should carry, straight from the files.               *)

Elements(member) ==
    FlattenSeq([i \in DOMAIN job.files |-> job.files[i][member]])

\* The steps of a stream: the arrays of all files are the streams, in order;
\* without arrays, all the steps of all files are one stream.
StreamOf(member, stream) ==
    LET all == Elements(member)
    IN  IF all # <<>> /\ all[1].array THEN all[stream + 1].steps
        ELSE [i \in DOMAIN all |-> all[i].steps[1]]

StepOf(member, stream, pos) ==
    LET steps == StreamOf(member, stream)
    IN  steps[(pos % Len(steps)) + 1]

\* A request that starts at position pos of a stream carries, for each input,
\* the tensors of the steps from there on, one per element of the batch.
Carries(req, stream, pos) ==
    \A n \in Inputs :
        LET width == IF n \in job.model.shape_tensors THEN 1 ELSE job.batch
            step(i) == StepOf("data", stream, pos + i - 1)
        IN  IF n \in DOMAIN req.inputs
            THEN /\ DOMAIN req.inputs[n] = 1 .. width
                 /\ \A i \in 1 .. width :
                       req.inputs[n][i] = step(i)[n].val
            ELSE \A i \in 1 .. width : n \notin DOMAIN step(i)

\* The expected outputs of the request are those given for the same steps.
Expects(req, stream, pos) ==
    Len(Elements("validation")) = Len(Elements("data")) =>
        \A n \in Outputs, i \in 1 .. job.batch :
            req.expected[n][i]
              = StepOf("validation", stream, pos + i - 1)[n].val

\* No stream has more steps than the first.
FirstIsLongest ==
    Elements("data")[1].array =>
        \A i \in DOMAIN Elements("data") :
            Len(Elements("data")[i].steps) <= Len(Elements("data")[1].steps)

-----------------------------------------------------------------------------
(* Properties.                                                             *)

\* However the data is spread over files and streams, whatever the batch and
\* whether it goes through shared memory: the requests of a thread carry
\* every threads-th batch of the data, and those of a sequence the steps of
\* one stream from the first to the last.
RequestFaithful ==
    Json =>
      /\ \A t \in DOMAIN ctx :
            ctx[t].sent > 0 =>
               Carries(ctx[t].req, 0,
                       (t + ctx[t].req.pos * job.threads) * job.batch)
      /\ \A s \in DOMAIN seq :
            seq[s].req # NoRequest =>
               /\ Carries(seq[s].req, seq[s].req.stream, seq[s].req.pos)
               /\ FirstIsLongest =>
                    Expects(seq[s].req, seq[s].req.stream, seq[s].req.pos)

\* The threads share the data out between them: when each has sent k requests,
\* the first k * threads batches of the data have been sent, none left out.
RoundsCoverData ==
    (Json /\ pc = "run" /\ ~job.sequence) =>
        \A k \in 1 .. MaxRequests, n \in Inputs \ job.model.optional,
           p \in DOMAIN StreamOf("data", 0) :
            (/\ p <= k * job.threads * job.batch
             /\ n \notin job.model.shape_tensors
             /\ \A t \in Threads : ctx[t].sent >= k) =>
               StreamOf("data", 0)[p][n].val \in used[n]

\* A run leaves nothing in shared memory, but for the one region whose making
\* failed after its memory was allocated, and nothing registered, but for the
\* system memory an in-process server never forgets.
RegionsReleased ==
    (pc = "end" /\ ~(job.shm = "cuda" /\ ~job.in_process)) =>
        /\ (job.shm = "system" /\ job.in_process)
             \/ regions.registered = {}
        /\ Cardinality(regions.allocated) <= 1
        /\ (\E s \in DOMAIN seq : seq[s].count > 0)
             \/ (\E t \in DOMAIN ctx : ctx[t].sent > 0) =>
                regions.allocated = {}

\* As long as the range of sequence ids has not been gone through, no two
\* sequences are open under one id, and all ids are in the range, though the
\* slots take their ids concurrently.
OpenIdsDistinct ==
    curr_seq_id <= job.range =>
        \A s \in DOMAIN seq :
            seq[s].remaining > 0 =>
               /\ seq[s].seq_id \in
                     job.start_id .. job.start_id + job.range - 1
               /\ \A o \in DOMAIN seq :
                    (o # s /\ seq[o].remaining > 0) =>
                        seq[o].seq_id # seq[s].seq_id

\* The entries in "validation_data" align with "data" (docs/input_data.md):
\* the outputs a request is validated against are those of its own steps.
ValidationAligned ==
    \A s \in DOMAIN seq :
        (Json /\ seq[s].req # NoRequest) =>
            Expects(seq[s].req, seq[s].req.stream, seq[s].req.pos)
=============================================================================
