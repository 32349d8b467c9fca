-------------------------- MODULE FailureClassifier --------------------------
(***************************************************************************)
(* StdFailureClassifier: which results count against the circuit.          *)
(***************************************************************************)
EXTENDS CallResult

\* Slip: a full quota counts against the circuit.
classify_result_with_quota(r) ==
    IF \/ r.kind = "transport" /\ r.code \in {"Unavailable", "Unknown", "Internal"}
       \/ r.kind = "status" /\ r.code \in {"Unavailable", "Internal", "ResourceExhausted"}
       \/ r.kind = "decode"
    THEN "failure"
    ELSE "success"

\* StdFailureClassifier::classify_result.
classify_result(r) ==
    IF \/ r.kind = "transport" /\ r.code \in {"Unavailable", "Unknown", "Internal"}
       \/ r.kind = "status" /\ r.code \in {"Unavailable", "Internal"}
       \/ r.kind = "decode"
    THEN "failure"
    ELSE "success"
=============================================================================
