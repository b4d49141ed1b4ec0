----------------------------- MODULE MCClients -----------------------------
(***************************************************************************)
(* Model checking of the clients: a behaviour is one of the in-process     *)
(* server, or one of a context that calls a server of another kind.        *)
(***************************************************************************)
EXTENDS InProcess, RemoteClients

Job == [sync |-> TRUE, enable_stats |-> TRUE, decoupled |-> FALSE,
        memory |-> "none", size |-> 1, need |-> 1]

MCJobs ==
    {Job, [Job EXCEPT !.sync = FALSE],
     [Job EXCEPT !.sync = FALSE, !.decoupled = TRUE],
     [Job EXCEPT !.sync = FALSE, !.decoupled = TRUE,
                 !.enable_stats = FALSE]}
    \cup {[Job EXCEPT !.memory = k, !.size = z] :
            k \in {"cpu", "gpu"}, z \in 0 .. 1}
    \cup {[Job EXCEPT !.memory = "cpu", !.need = 2],
          [Job EXCEPT !.sync = FALSE, !.memory = "cpu", !.need = 2]}

-----------------------------------------------------------------------------
In(name, datatype, bufs) ==
    [name |-> name, datatype |-> datatype, shape |-> <<Len(bufs)>>,
     bufs |-> bufs]

\* Steps that share input names with other datatypes, sizes and sets of inputs.
TFServeCalls ==
    {[kind |-> "tfserving", exists |-> {}, steps |-> s] :
        s \in {<< <<In("A", d, << <<1>>, <<2>> >>),
                    In("B", "FP32", << <<3, 0>> >>)>>,
                  <<In("A", e, << <<3>> >>)>> >> :
                  d \in TFDataTypes \cup {"JSON"},
                  e \in TFDataTypes}}

TorchServeCalls ==
    {[kind |-> "torchserve", exists |-> {"x", "y"}, steps |-> s] :
        s \in {<< <<"x">>, <<"y">> >>, << <<"x">>, <<"z">> >>,
               << <<"x", "y">> >>}}

DynamicGrpcCalls ==
    {[kind |-> "dynamic_grpc", exists |-> {}, steps |-> s] :
        s \in {<< <<1, 2>>, <<3>> >>, << <<1, 2, 3>> >>, << <<>>, <<4>> >>,
               << <<5, EmptyMessage>>, <<EmptyMessage, 6>> >>}}

\* No call of another kind of server.
InProcessCall == [kind |-> "in_process", exists |-> {}, steps |-> <<>>]

MCCalls == {InProcessCall} \cup TFServeCalls \cup TorchServeCalls
               \cup DynamicGrpcCalls

-----------------------------------------------------------------------------
ClientsInit ==
    /\ RemoteInit /\ Init
    /\ calls # InProcessCall => job = Job

ClientsNext ==
    \/ calls = InProcessCall /\ Next /\ UNCHANGED remoteVars
    \/ calls # InProcessCall /\ RemoteNext /\ UNCHANGED vars

ClientsSpec ==
    ClientsInit /\ [][ClientsNext]_<<vars, remoteVars>> /\ Fairness
=============================================================================
