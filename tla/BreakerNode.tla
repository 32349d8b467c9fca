----------------------------- MODULE BreakerNode -----------------------------
(***************************************************************************)
(* The circuit's state machine: DefaultBreakerTransition, a library that   *)
(* GrpcBreakerClient calls.  It is a pure function of a BreakerNode, the   *)
(* policy and the clock; it is modelled from the arguments the breaker     *)
(* hands it, the fields it stores back, and the state machine documented   *)
(* and tested in breaker-spi.  A late outcome (one that arrives while the  *)
(* circuit is open) leaves the node as it is.                              *)
(***************************************************************************)
EXTENDS Naturals

CONSTANTS
    FailureThreshold,   \* failure_threshold
    CoolDown,           \* cool_down_seconds, in ticks of the model's clock
    HalfOpenProbeCount  \* half_open_probe_count

\* GrpcBreakerConfig::try_new refuses a threshold or a probe count of zero; a
\* cool-down of zero is accepted.
ASSUME PolicyAssumption ==
    /\ FailureThreshold \in Nat \ {0}
    /\ HalfOpenProbeCount \in Nat \ {0}
    /\ CoolDown \in Nat

(***************************************************************************)
(* The node.  Open remembers the instant it opened; the model keeps the    *)
(* time gone by since, up to CoolDown, beyond which nothing tells two      *)
(* instants apart.  In Open both counters are out of use and kept at 0.    *)
(***************************************************************************)
Node == [state     : {"closed", "open", "half_open"},
         failures  : 0 .. FailureThreshold,
         successes : 0 .. HalfOpenProbeCount,
         age       : 0 .. CoolDown]

InitialNode == [state |-> "closed", failures |-> 0, successes |-> 0, age |-> 0]
OpenedNow   == [InitialNode EXCEPT !.state = "open"]
Probing     == [InitialNode EXCEPT !.state = "half_open"]

\* One tick later.
Aged(n) ==
    IF n.state = "open" /\ n.age < CoolDown
    THEN [n EXCEPT !.age = @ + 1]
    ELSE n

\* k ticks later.
AgedBy(n, k) ==
    IF n.state = "open"
    THEN [n EXCEPT !.age = IF @ + k < CoolDown THEN @ + k ELSE CoolDown]
    ELSE n

\* DefaultBreakerTransition::admit: whether the call may go out ...
Proceeds(n) == n.state = "open" => n.age >= CoolDown

\* ... and the node that comes next.
Admit(n) == IF n.state = "open" /\ Proceeds(n) THEN Probing ELSE n

\* Slip: the threshold is passed, not reached.
RecordFailureLate(n) ==
    IF n.state = "open" THEN n
    ELSE IF n.state = "closed" /\ n.failures + 1 <= FailureThreshold
    THEN [n EXCEPT !.failures = @ + 1]
    ELSE OpenedNow

\* Slip: one failure short of the threshold.
RecordFailureEarly(n) ==
    IF n.state = "open" THEN n
    ELSE IF n.state = "closed" /\ n.failures + 2 < FailureThreshold
    THEN [n EXCEPT !.failures = @ + 1]
    ELSE OpenedNow

\* DefaultBreakerTransition::record.
RecordFailure(n) ==
    IF n.state = "open" THEN n
    ELSE IF n.state = "closed" /\ n.failures + 1 < FailureThreshold
    THEN [n EXCEPT !.failures = @ + 1]
    ELSE OpenedNow

RecordSuccess(n) ==
    IF n.state = "open" THEN n
    ELSE IF n.state = "half_open" /\ n.successes + 1 < HalfOpenProbeCount
    THEN [n EXCEPT !.successes = @ + 1]
    ELSE InitialNode

Record(n, o) == IF o = "failure" THEN RecordFailure(n) ELSE RecordSuccess(n)
=============================================================================
