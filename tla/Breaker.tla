------------------------------- MODULE Breaker -------------------------------
(***************************************************************************)
(* GrpcBreakerClient: the circuit breaker around a client, shared by every *)
(* task that makes calls through it.                                       *)
(*                                                                         *)
(* The node (state and two counters) is behind a mutex, but neither admit  *)
(* nor record holds the mutex over its work: each copies the node, lets go *)
(* of the lock, asks the state machine, which reads the clock, for the     *)
(* node that comes next, waits for the lock again and stores all three     *)
(* fields.  These are three steps (Snapshot, Decide, Store), and between   *)
(* any two of them the other tasks take any steps they like and time goes  *)
(* on.  A task that waits for the first lock holds nothing yet, so that    *)
(* wait is part of what came before it.                                    *)
(***************************************************************************)
EXTENDS BreakerNode, FailureClassifier

CONSTANTS
    Tasks,    \* the tasks that share the client
    Enabled   \* GrpcBreakerConfig::enabled

ASSUME EnabledAssumption == Enabled \in BOOLEAN

VARIABLES
    node,     \* the BreakerNode behind the mutex
    pc,       \* where each task is in its call
    copy,     \* each task's local node: the snapshot, then what comes next
    outcome,  \* the outcome each task has yet to record
    streak,   \* history: failures recorded since the last recorded success
    failed,   \* history: failures recorded so far
              \* (both histories stop counting at FailureThreshold)
    stale,    \* history: the tasks whose snapshot the node has moved on from
    raced     \* history: a task in stale has stored its node, since the last
              \* success recorded by a task that was not

histories == <<streak, failed, stale, raced>>
vars == <<node, pc, copy, outcome, histories>>

-----------------------------------------------------------------------------
\* What classify_result makes of the ways a call can end.
Outcomes == {classify_result(r) : r \in CallResults}

-----------------------------------------------------------------------------
Locations ==
    {"idle",       \* no call
     "admitting",  \* has a snapshot, about to ask the state machine
     "admitted",   \* may proceed, waits for the lock to store the next node
     "denied",     \* may not proceed, waits for the lock all the same
     "calling",    \* the wrapped client has the call
     "recording",  \* has a snapshot, about to ask the state machine
     "recorded"}   \* waits for the lock to store the next node

\* Between a snapshot and its store.
Holding == {"admitting", "admitted", "denied", "recording", "recorded"}

TypeOK ==
    /\ node \in Node
    /\ pc \in [Tasks -> Locations]
    /\ copy \in [Tasks -> Node]
    /\ outcome \in [Tasks -> {"success", "failure"}]
    /\ streak \in 0 .. FailureThreshold
    /\ failed \in 0 .. FailureThreshold
    /\ stale \subseteq Tasks
    /\ raced \in BOOLEAN

\* From<(T, GrpcBreakerConfig)>: the circuit starts closed.
Init ==
    /\ node = InitialNode
    /\ pc = [t \in Tasks |-> "idle"]
    /\ copy = [t \in Tasks |-> InitialNode]
    /\ outcome = [t \in Tasks |-> "success"]
    /\ streak = 0
    /\ failed = 0
    /\ stale = {}
    /\ raced = FALSE

Goto(t, location) == pc' = [pc EXCEPT ![t] = location]

\* What a task no longer holds is forgotten.
Forget(t) ==
    /\ copy' = [copy EXCEPT ![t] = InitialNode]
    /\ outcome' = [outcome EXCEPT ![t] = "success"]

\* The lock is taken, the node copied, the lock released.
Snapshot(t) == copy' = [copy EXCEPT ![t] = node] /\ UNCHANGED node

\* The lock is taken again and the task's node stored.  The snapshots of
\* others are stale if that changes the node.
Store(t) ==
    /\ node' = copy[t]
    /\ stale' = IF copy[t] = node
                THEN stale \ {t}
                ELSE {u \in Tasks \ {t} : pc[u] \in Holding}

\* The task makes a call, of any of the eight shapes: admit, up to the release
\* of the lock.  A disabled breaker forwards the call.
Call(t) ==
    /\ pc[t] = "idle"
    /\ IF Enabled
       THEN Snapshot(t) /\ Goto(t, "admitting")
       ELSE Goto(t, "calling") /\ UNCHANGED <<node, copy>>
    /\ UNCHANGED <<outcome, histories>>

\* Slip: a refusal is computed but not returned.
AdmitDecideAlways(t) ==
    /\ pc[t] = "admitting"
    /\ copy' = [copy EXCEPT ![t] = Admit(@)]
    /\ Goto(t, "admitted")
    /\ UNCHANGED <<node, outcome, histories>>

\* Slip: a half-open circuit waits for the probe it has let through.
AdmitDecideOneProbe(t) ==
    /\ pc[t] = "admitting"
    /\ copy' = [copy EXCEPT ![t] = Admit(@)]
    /\ Goto(t, IF Proceeds(copy[t]) /\ copy[t].state # "half_open"
               THEN "admitted" ELSE "denied")
    /\ UNCHANGED <<node, outcome, histories>>

\* admit asks the state machine; no lock is held.
AdmitDecide(t) ==
    /\ pc[t] = "admitting"
    /\ copy' = [copy EXCEPT ![t] = Admit(@)]
    /\ Goto(t, IF Proceeds(copy[t]) THEN "admitted" ELSE "denied")
    /\ UNCHANGED <<node, outcome, histories>>

\* admit, from the second lock on.  The node is stored before the refusal is
\* returned: the caller of a denied call gets Transport Unavailable.
AdmitStore(t) ==
    /\ pc[t] \in {"admitted", "denied"}
    /\ Store(t)
    /\ raced' = (raced \/ t \in stale)
    /\ Goto(t, IF pc[t] = "admitted" THEN "calling" ELSE "idle")
    /\ Forget(t)
    /\ UNCHANGED <<streak, failed>>

\* The wrapped client ends the call: record, up to the release of the lock.
Answer(t) ==
    /\ pc[t] = "calling"
    /\ IF Enabled
       THEN /\ \E o \in Outcomes : outcome' = [outcome EXCEPT ![t] = o]
            /\ Snapshot(t)
            /\ Goto(t, "recording")
       ELSE Goto(t, "idle") /\ UNCHANGED <<node, copy, outcome>>
    /\ UNCHANGED histories

\* Slip: a success has nothing to record while the circuit is closed.
RecordDecideFailures(t) ==
    /\ pc[t] = "recording"
    /\ copy' = [copy EXCEPT ![t] =
                   IF @.state = "closed" /\ outcome[t] = "success"
                   THEN @ ELSE Record(@, outcome[t])]
    /\ Goto(t, "recorded")
    /\ UNCHANGED <<node, outcome, histories>>

\* record asks the state machine; no lock is held.
RecordDecide(t) ==
    /\ pc[t] = "recording"
    /\ copy' = [copy EXCEPT ![t] = Record(@, outcome[t])]
    /\ Goto(t, "recorded")
    /\ UNCHANGED <<node, outcome, histories>>

\* The next value of a history.
Counted(n) == IF n < FailureThreshold THEN n + 1 ELSE n

\* What recording an outcome does to the histories.
Note(t) ==
    /\ streak' = IF outcome[t] = "failure" THEN Counted(streak) ELSE 0
    /\ failed' = IF outcome[t] = "failure" THEN Counted(failed) ELSE failed
    /\ raced' = \/ t \in stale
                \/ raced /\ ~(outcome[t] = "success" /\ node'.state = "closed")

\* Slip: the count is raised where it is, though the copy decided the state.
RecordStoreInPlace(t) ==
    /\ pc[t] = "recorded"
    /\ node' = IF outcome[t] = "failure" /\ copy[t].state = "closed"
               THEN [copy[t] EXCEPT !.failures = node.failures + 1]
               ELSE copy[t]
    /\ stale' = {u \in Tasks \ {t} : pc[u] \in Holding}
    /\ Note(t)
    /\ Goto(t, "idle")
    /\ Forget(t)

\* record, from the second lock on; the result of the call goes to the caller.
RecordStore(t) ==
    /\ pc[t] = "recorded"
    /\ Store(t)
    /\ Note(t)
    /\ Goto(t, "idle")
    /\ Forget(t)

\* The caller drops the future of its call: everything the task had yet to do
\* is left undone.  A future is dropped only where it awaits: a lock or the
\* wrapped client.
Drop(t) ==
    /\ pc[t] \in {"admitted", "denied", "calling", "recorded"}
    /\ Goto(t, "idle")
    /\ Forget(t)
    /\ stale' = stale \ {t}
    /\ UNCHANGED <<node, streak, failed, raced>>

\* Time passes for every Open node, the stored one and the copies.
Tick ==
    /\ node' = Aged(node)
    /\ copy' = [t \in Tasks |-> Aged(copy[t])]
    /\ <<node, copy>>' # <<node, copy>>
    /\ UNCHANGED <<pc, outcome, histories>>

\* What a task does by itself once it has made a call.
Proceed(t) ==
    \/ AdmitDecide(t)
    \/ AdmitStore(t)
    \/ Answer(t)
    \/ RecordDecide(t)
    \/ RecordStore(t)

Next ==
    \/ \E t \in Tasks : Call(t) \/ Proceed(t) \/ Drop(t)
    \/ Tick

Spec == Init /\ [][Next]_vars

\* The runtime polls a task that is ready, the wrapped client ends every call
\* (it has a timeout), and time goes on.  Nobody must call and nobody must
\* drop a call.
FairSpec ==
    /\ Spec
    /\ WF_vars(Tick)
    /\ \A t \in Tasks : WF_vars(Proceed(t))

-----------------------------------------------------------------------------
(***************************************************************************)
(* Properties.                                                             *)
(***************************************************************************)

\* A counter never sits at its limit: a node whose failures reached the
\* threshold has opened, a node whose probes succeeded has closed.  It is true
\* of what each task holds too, so no stale store in admit or record can bring
\* back a node that is stuck above its limit.
BelowLimit(n) ==
    /\ n.state = "closed" => n.failures < FailureThreshold
    /\ n.state = "half_open" => n.successes < HalfOpenProbeCount

CountersBelowLimits ==
    /\ BelowLimit(node)
    /\ \A t \in Tasks : BelowLimit(copy[t])

\* A circuit trips only when it should.  As long as no store was made from a
\* stale snapshot, it leaves Closed only with failure_threshold failures in a
\* row.  Stale stores can erase a success, and then the failures are not in a
\* row, but they cannot make one failure count twice: there were
\* failure_threshold of them.
NeverTripsEarly ==
    [][node.state = "closed" /\ node'.state # "closed"
         => /\ failed' = FailureThreshold
            /\ ~raced' => streak' = FailureThreshold]_vars

\* The counter of a closed circuit is the number of failures in a row, until a
\* store is made from a stale snapshot and again once a success is recorded
\* from one that is not: what a race upsets does not stay upset.
CountsConsecutive == ~raced /\ node.state = "closed" => node.failures = streak

\* A disabled breaker forwards every call, refuses none and records nothing
\* (the two enabled() tests of a raw call agree).
DisabledIsInert ==
    ~Enabled =>
        /\ node = InitialNode
        /\ \A t \in Tasks : pc[t] \in {"idle", "calling"}

\* Closed: "At `failure_threshold` the breaker trips Open".
TripsAtThreshold == node.state = "closed" => streak < FailureThreshold

\* The circuit "Stays open for `cool_down_seconds`": no step of any task closes
\* or half-opens a circuit that has not cooled down.
StaysOpen ==
    [][node.state = "open" /\ node.age < CoolDown => node'.state = "open"]_vars

\* Once calls fail no more, calls are refused for a while at most: neither lost
\* stores nor stale ones can keep the client from a peer that has recovered.
RecoveryAdmits ==
    <>[](\A t \in Tasks : outcome[t] = "success")
        => <>[](\A t \in Tasks : pc[t] # "denied")

\* The refinement mapping to AtomicBreaker: a call is admitted when admit
\* stores its node, and is over when record stores its own.
Phase(location) ==
    CASE location \in {"idle", "admitting", "admitted", "denied"} -> "idle"
      [] location \in {"recording", "recorded"} -> "answered"
      [] OTHER -> "calling"

Atomic == INSTANCE AtomicBreaker WITH phase <- [t \in Tasks |-> Phase(pc[t])]

\* A store that overwrites what another task stored in the meantime.
Overwrites == \E t \in stale : AdmitStore(t) \/ RecordStore(t)

\* Only such a store tells the breaker from one whose admit and record are
\* atomic: every other step of every task, overlapping calls and dropped ones
\* included, is a step of AtomicBreaker.
AtomicUnlessStale ==
    Atomic!Init /\ [][Overwrites \/ Atomic!Next]_(Atomic!vars)

\* One task makes one call at a time.
Serial == \A t, u \in Tasks : t = u

\* The breaker is the atomic one.
IsAtomic == Atomic!Spec

=============================================================================
