---------------------------- MODULE AtomicBreaker ----------------------------
(***************************************************************************)
(* The breaker as its documentation describes it: a call is admitted in    *)
(* one step and its outcome is recorded in one step.  The clock was read   *)
(* some time before: the caller waits for the lock in between.             *)
(***************************************************************************)
EXTENDS BreakerNode

CONSTANTS Tasks, Enabled

VARIABLES
    node,    \* the circuit
    phase,   \* where each task is in its call
    outcome  \* the outcome each task has yet to record

vars == <<node, phase, outcome>>

Init ==
    /\ node = InitialNode
    /\ phase = [t \in Tasks |-> "idle"]
    /\ outcome = [t \in Tasks |-> "success"]

Enter(t, next) == phase' = [phase EXCEPT ![t] = next]

\* The node k ticks ago.
Was(n, k) == AgedBy(n, k) = node

\* The nodes that may be the circuit's past.
Past == IF node.state = "open"
        THEN {[node EXCEPT !.age = a] : a \in 0 .. node.age}
        ELSE {node}

\* A call is let through, or refused without reaching the wrapped client.
AdmitCall(t) ==
    /\ phase[t] = "idle"
    /\ Enabled
    /\ \E n \in Past, k \in 0 .. CoolDown :
         /\ Was(n, k)
         /\ node' = AgedBy(Admit(n), k)
         /\ Enter(t, IF Proceeds(n) THEN "calling" ELSE "idle")
    /\ UNCHANGED outcome

\* A disabled breaker lets every call through.
Forward(t) ==
    /\ phase[t] = "idle"
    /\ ~Enabled
    /\ Enter(t, "calling")
    /\ UNCHANGED <<node, outcome>>

\* The wrapped client ends the call.
Answer(t) ==
    /\ phase[t] = "calling"
    /\ \/ /\ Enabled
          /\ Enter(t, "answered")
          /\ \E o \in {"success", "failure"} :
                outcome' = [outcome EXCEPT ![t] = o]
       \/ /\ ~Enabled
          /\ Enter(t, "idle")
          /\ UNCHANGED outcome
    /\ UNCHANGED node

\* The outcome is recorded and the result goes to the caller.
RecordCall(t) ==
    /\ phase[t] = "answered"
    /\ \E n \in Past, k \in 0 .. CoolDown :
         Was(n, k) /\ node' = AgedBy(Record(n, outcome[t]), k)
    /\ Enter(t, "idle")
    /\ outcome' = [outcome EXCEPT ![t] = "success"]

\* The caller drops its call: nothing is recorded.
Drop(t) ==
    /\ phase[t] \in {"calling", "answered"}
    /\ Enter(t, "idle")
    /\ outcome' = [outcome EXCEPT ![t] = "success"]
    /\ UNCHANGED node

Tick ==
    /\ node' = Aged(node)
    /\ UNCHANGED <<phase, outcome>>

Next ==
    \/ \E t \in Tasks :
          \/ AdmitCall(t)
          \/ Forward(t)
          \/ Answer(t)
          \/ RecordCall(t)
          \/ Drop(t)
    \/ Tick

Spec == Init /\ [][Next]_vars
=============================================================================
