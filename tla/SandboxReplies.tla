--------------------------- MODULE SandboxReplies ---------------------------
(* What a caller of the sandbox tells apart: the codes it repairs, those it *)
(* answers as an outage, and everything else (backend/app/services/        *)
(* strategy_lab_service.py).                                               *)

\* Keys of SAFE_SMOKE_ERRORS: failures that are the strategy's own.
SAFE_SMOKE_ERRORS ==
    {"STRATEGY_IMPORT_ERROR", "STRATEGY_CLASS_MISSING", "STRATEGY_INTERFACE_ERROR",
     "STRATEGY_RUNTIME_ERROR", "STRATEGY_TIMEOUT", "STRATEGY_RESOURCE_LIMIT"}

\* A result with one of the other codes, or an executor that raises
\* SandboxUnavailableError or its subclass SandboxProtocolError.
InfrastructureErrors ==
    {"SANDBOX_UNAVAILABLE", "INVALID_SANDBOX_OUTPUT", "SandboxUnavailableError"}

\* "OtherException": the input files could not be written.
SmokeReplies == {"ok", "OtherException"} \cup SAFE_SMOKE_ERRORS \cup InfrastructureErrors
=============================================================================
