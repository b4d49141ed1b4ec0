------------------------------ MODULE Backends ------------------------------
(***************************************************************************)
(* The client backends as the rest of the program sees them                *)
(* (client_backend.h): which operations each kind overrides.  An operation *)
(* a kind does not override is ClientBackend's own, which returns an       *)
(* error.                                                                  *)
(***************************************************************************)

\* POSIX shared memory, offered by the remote Triton backend only.
SystemRegionOps == {"CreateSharedMemoryRegion", "MapSharedMemory",
                    "RegisterSystemSharedMemory", "UnmapSharedMemory",
                    "UnlinkSharedMemoryRegion"}

TritonOps == SystemRegionOps \cup
    {"ServerExtensions", "ModelMetadata", "ModelConfig", "Infer",
     "AsyncInfer", "StartStream", "AsyncStreamInfer", "ClientInferStat",
     "ModelInferenceStatistics", "Metrics", "RegisterCudaSharedMemory"}

TritonCApiOps ==
    {"ServerExtensions", "ModelMetadata", "ModelConfig", "Infer",
     "AsyncInfer", "StartStream", "AsyncStreamInfer", "ClientInferStat",
     "ModelInferenceStatistics", "RegisterSystemMemory", "RegisterCudaMemory"}

TFServeOps == {"ModelMetadata", "Infer", "AsyncInfer", "ClientInferStat"}

TorchServeOps == {"Infer", "ClientInferStat"}

OpenAiOps == {"AsyncInfer", "ClientInferStat"}

\* StartStream is overridden to say that it is not supported.
DynamicGrpcOps == {"Infer", "ClientInferStat"}

\* The operations that do not end in ClientBackend's "does not support".
Overridden(kind) ==
    CASE kind = "TRITON" -> TritonOps
      [] kind = "TRITON_C_API" -> TritonCApiOps
      [] kind = "TENSORFLOW_SERVING" -> TFServeOps
      [] kind = "TORCHSERVE" -> TorchServeOps
      [] kind = "OPENAI" -> OpenAiOps
      [] kind = "DYNAMIC_GRPC" -> DynamicGrpcOps

\* The protocols the kinds' Create functions accept (ClientBackend::Create).
Creatable(kind, protocol) ==
    /\ kind \in {"TENSORFLOW_SERVING", "DYNAMIC_GRPC"} => protocol = "GRPC"
    /\ kind \in {"OPENAI", "TORCHSERVE"} => protocol = "HTTP"

\* InferRequestedOutput::Create has no case for TorchServe.
HasRequestedOutput(kind) == kind # "TORCHSERVE"

\* CreateMemoryRegion's calls, by the kind and the memory asked for.
RegionCalls(kind, memory) ==
    CASE memory = "none" -> {}
      [] memory = "system" -> IF kind = "TRITON_C_API"
                              THEN {"RegisterSystemMemory"}
                              ELSE {"CreateSharedMemoryRegion",
                                    "MapSharedMemory",
                                    "RegisterSystemSharedMemory"}
      [] memory = "cuda" -> IF kind = "TRITON_C_API"
                            THEN {"RegisterCudaMemory"}
                            ELSE {"RegisterCudaSharedMemory"}

\* InferContext::SendRequest's choice of the call that sends a request, and
\* InferContext::Init's call for a streamed one.
InferenceCall(async, streaming) ==
    IF async THEN IF streaming THEN "AsyncStreamInfer" ELSE "AsyncInfer"
             ELSE "Infer"

ContextCalls(streaming) == IF streaming THEN {"StartStream"} ELSE {}
=============================================================================
