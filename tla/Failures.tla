------------------------------- MODULE Failures -------------------------------
(***************************************************************************)
(* The exceptions of src/sddiar/errors.py as far as the pipeline tells     *)
(* them apart, and what worker.classify_retry makes of them.  A            *)
(* ProductionOrchestrationError is a ContractValidationError; the errors   *)
(* of the whisper.cpp adapter are plain SDDiarErrors.                      *)
(***************************************************************************)

Contract == {"ContractValidationError", "ProductionOrchestrationError"}
ModelPack == {"ModelHashMismatch", "ManifestSignatureInvalid",
              "ModelNotFound", "ModelRuntimeIncompatible"}
Transient == {"TimeoutError", "OSError"}
Other == {"OfflinePolicyViolation", "MemoryError", "SDDiarError",
          "KeyboardInterrupt"}

Failure == Contract \cup ModelPack \cup Transient \cup Other

\* Only infrastructure failures are worth another attempt.
ClassifyRetry(failure) ==
    /\ failure \notin Contract \cup ModelPack \cup {"OfflinePolicyViolation"}
    /\ failure \in Transient

\* What ProductionOrchestrator._process_unlocked raises again when diarization
\* fails; after anything else it publishes the transcript without speakers.
Fatal == Contract \cup {"ModelHashMismatch", "ManifestSignatureInvalid",
                        "OfflinePolicyViolation", "MemoryError",
                        "KeyboardInterrupt"}
=============================================================================
