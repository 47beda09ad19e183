---------------------------- MODULE FailurePolicy ---------------------------
(***************************************************************************)
(* How a failure of a delivery turn is judged: gRPC codes and server       *)
(* markers (astravector/policy.py), Finalize ambiguity                     *)
(* (application/finalize_reconciliation.py), exceptions                    *)
(* (application/delivery_execution.py, application/retry_policy.py) and    *)
(* vector readiness (astravector/policy.py).                               *)
(*                                                                         *)
(* Messages are abstracted to the marker the classifiers look for:         *)
(*   SESSION_LIMIT  one of the three transient MAX_..._SESSIONS markers    *)
(*   SESSION_STATE  INGESTION_SESSION_FINALIZING, _COMPLETED or _ABORTED   *)
(*   HASH_MISMATCH  a content hash conflict                                *)
(*   OTHER          anything else                                          *)
(***************************************************************************)

Markers == {"SESSION_LIMIT", "SESSION_STATE", "HASH_MISMATCH", "OTHER"}

\* An exception as the classifiers see it.
Transport(code, marker) ==
    [name |-> "AstraVectorTransportError", code |-> code, marker |-> marker]
Error(name) == [name |-> name, code |-> "NONE", marker |-> "OTHER"]

ClassifyGrpcFailure(code, marker) ==
    CASE code = "UNAVAILABLE" -> "BACKOFF_AND_RETRY"
      [] code \in {"DEADLINE_EXCEEDED", "ABORTED"} -> "RECONCILE_STATUS"
      [] code = "RESOURCE_EXHAUSTED" /\ marker = "SESSION_LIMIT" -> "BACKOFF_AND_RETRY"
      [] code = "FAILED_PRECONDITION" /\ marker = "SESSION_STATE" -> "RECONCILE_STATUS"
      [] OTHER -> "PERMANENT_FAILURE"

\* A Finalize that failed this way may have been committed.
ShouldReconcileFinalize(exc) ==
    \/ exc.code \in {"DEADLINE_EXCEEDED", "UNAVAILABLE", "ABORTED"}
    \/ ClassifyGrpcFailure(exc.code, exc.marker) = "RECONCILE_STATUS"

\* DurableFailureHandler.classify_exception.
ClassifyException(exc) ==
    CASE exc.name = "LeaseLostError" -> "OWNERSHIP_LOST"
      [] exc.name = "AstraVectorTransportError" ->
            (CASE ClassifyGrpcFailure(exc.code, exc.marker) = "BACKOFF_AND_RETRY"
                     -> "DEPENDENCY_UNAVAILABLE"
               [] ClassifyGrpcFailure(exc.code, exc.marker) = "RECONCILE_STATUS"
                     -> "DOWNSTREAM_AMBIGUOUS"
               [] OTHER -> "PERMANENT_POLICY")
      [] exc.name \in {"ValueError", "TypeError"} -> "PERMANENT_INPUT"
      [] OTHER -> "INTERNAL_BUG"

\* AstraVectorDeliveryExecutor._classify.
Classify(exc) ==
    CASE exc.name = "LeaseLostError" -> "OWNERSHIP_LOST"
      [] exc.name \in {"DeliveryRecoveryContractGap", "FinalizeReconciliationPending"}
            -> "DOWNSTREAM_AMBIGUOUS"
      [] exc.name = "VectorReadinessPending" -> "TRANSIENT"
      [] exc.name \in {"FinalizeTerminalError", "VectorReadinessTerminalError",
                       "DeliveryIntegrityError"} -> "PERMANENT_POLICY"
      [] OTHER -> ClassifyException(exc)

Retryable == {"TRANSIENT", "DEPENDENCY_UNAVAILABLE"}

\* Mutation: synchronized vectors count as searchable.
Readiness_ReadyIsEnough(state, allowReady) ==
    CASE state = "SYNCING" -> "WAIT"
      [] state \in {"READY_TO_ACTIVATE", "READY_AND_ACTIVE", "ACTIVE"} -> "SEARCHABLE"
      [] OTHER -> "TERMINAL"

\* evaluate_vector_readiness on consistent evidence: the disposition of a
\* vector state under the policy that accepts READY_TO_ACTIVATE or not.
\* READY_AND_ACTIVE is READY_TO_ACTIVATE of a document that is ACTIVE and
\* searchable.
Readiness(state, allowReady) ==
    CASE state = "SYNCING" -> "WAIT"
      [] state = "READY_TO_ACTIVATE" -> IF allowReady THEN "READY_TO_ACTIVATE" ELSE "WAIT"
      [] state \in {"ACTIVE", "READY_AND_ACTIVE"} -> "SEARCHABLE"
      [] OTHER -> "TERMINAL"
=============================================================================
