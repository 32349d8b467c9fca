---------------------------- MODULE BreakerProofs ----------------------------
(***************************************************************************)
(* Proofs about Breaker, for any set of tasks and any policy.              *)
(***************************************************************************)
EXTENDS Breaker, TLAPS

(***************************************************************************)
(* The state machine keeps nodes nodes, and counters below their limits.   *)
(***************************************************************************)

\* The named nodes are nodes, below the limits.
LEMMA NamedNodes ==
    /\ InitialNode \in Node /\ BelowLimit(InitialNode)
    /\ OpenedNow \in Node /\ BelowLimit(OpenedNow)
    /\ Probing \in Node /\ BelowLimit(Probing)
BY PolicyAssumption DEF InitialNode, OpenedNow, Probing, Node, BelowLimit

\* The passing of time (DefaultBreakerTransition reads a later clock).
LEMMA AgedNode ==
    ASSUME NEW n \in Node
    PROVE  /\ Aged(n) \in Node
           /\ BelowLimit(n) => BelowLimit(Aged(n))
           /\ Aged(n).state = n.state
           /\ Aged(n).failures = n.failures
BY PolicyAssumption DEF Node, Aged, BelowLimit

\* DefaultBreakerTransition::admit.
LEMMA AdmitNode ==
    ASSUME NEW n \in Node, BelowLimit(n)
    PROVE  /\ Admit(n) \in Node
           /\ BelowLimit(Admit(n))
           /\ Admit(n) = n \/ (n.state = "open" /\ Admit(n).state = "half_open")
BY NamedNodes DEF Admit, Probing

\* DefaultBreakerTransition::record, on a failure.
LEMMA RecordFailureNode ==
    ASSUME NEW n \in Node, BelowLimit(n)
    PROVE  /\ RecordFailure(n) \in Node
           /\ BelowLimit(RecordFailure(n))
           /\ RecordFailure(n).state = "closed"
                => n.state = "closed" /\ RecordFailure(n).failures = n.failures + 1
           /\ RecordFailure(n).state # "closed" /\ n.state = "closed"
                => n.failures + 1 = FailureThreshold
<1>1. CASE n.state = "closed" /\ n.failures + 1 < FailureThreshold
  BY <1>1, PolicyAssumption DEF RecordFailure, Node, BelowLimit
<1>2. CASE n.state = "open"
  BY <1>2, PolicyAssumption DEF RecordFailure, Node, BelowLimit
<1>3. CASE /\ ~(n.state = "closed" /\ n.failures + 1 < FailureThreshold)
           /\ n.state # "open"
  <2>1. RecordFailure(n) = OpenedNow
    BY <1>3 DEF RecordFailure
  <2>2. OpenedNow.state = "open"
    BY DEF OpenedNow, InitialNode
  <2>3. n.state = "closed" => n.failures + 1 = FailureThreshold
    BY <1>3, PolicyAssumption DEF Node, BelowLimit
  <2> QED
    BY <2>1, <2>2, <2>3, NamedNodes
<1> QED
  BY <1>1, <1>2, <1>3

\* DefaultBreakerTransition::record, on a success.
LEMMA RecordSuccessNode ==
    ASSUME NEW n \in Node, BelowLimit(n)
    PROVE  /\ RecordSuccess(n) \in Node
           /\ BelowLimit(RecordSuccess(n))
           /\ RecordSuccess(n).state = "closed" => RecordSuccess(n).failures = 0
           /\ RecordSuccess(n).state # "closed" => n.state # "closed"
BY NamedNodes, PolicyAssumption DEF RecordSuccess, Node, BelowLimit, InitialNode

\* Either outcome.
LEMMA RecordNode ==
    ASSUME NEW n \in Node, BelowLimit(n), NEW o
    PROVE  Record(n, o) \in Node /\ BelowLimit(Record(n, o))
BY RecordFailureNode, RecordSuccessNode DEF Record

\* A history stays within its bound.
LEMMA CountedBound ==
    ASSUME NEW k \in 0 .. FailureThreshold
    PROVE  /\ Counted(k) \in 0 .. FailureThreshold
           /\ k < FailureThreshold => Counted(k) = k + 1
           /\ k = FailureThreshold => Counted(k) = k
BY PolicyAssumption DEF Counted

-----------------------------------------------------------------------------
(***************************************************************************)
(* Type correctness and the bound on the counters.  They are proved        *)
(* together: that a decision keeps the node's type needs the snapshot it   *)
(* is computed from to be below the limits.                                *)
(***************************************************************************)
TypedAndBounded == TypeOK /\ CountersBelowLimits

\* Initially.
LEMMA TypedAndBoundedInit == Init => TypedAndBounded
<1> SUFFICES ASSUME Init
             PROVE  TypedAndBounded
  OBVIOUS
<1>1. TypeOK
  <2>1. raced \in BOOLEAN
    BY Zenon DEF Init
  <2>2. /\ node \in Node
        /\ copy \in [Tasks -> Node]
    BY NamedNodes DEF Init
  <2>3. /\ pc \in [Tasks -> Locations]
        /\ outcome \in [Tasks -> {"success", "failure"}]
        /\ stale \subseteq Tasks
    BY DEF Init, Locations
  <2>4. streak \in 0 .. FailureThreshold /\ failed \in 0 .. FailureThreshold
    BY PolicyAssumption DEF Init
  <2> QED
    BY <2>1, <2>2, <2>3, <2>4 DEF TypeOK
<1>2. node = InitialNode /\ \A t \in Tasks : copy[t] = InitialNode
  BY DEF Init
<1>3. CountersBelowLimits
  BY <1>2, NamedNodes DEF CountersBelowLimits
<1> QED
  BY <1>1, <1>3 DEF TypedAndBounded

\* The histories keep their types: raced is whatever a step says it is.
LEMMA RacedIsBoolean == TypeOK /\ [Next]_vars => raced' \in BOOLEAN
<1> SUFFICES ASSUME TypeOK, [Next]_vars
             PROVE  raced' \in BOOLEAN
  OBVIOUS
<1>1. ASSUME NEW t \in Tasks, AdmitStore(t) \/ RecordStore(t)
      PROVE  raced' \in BOOLEAN
  BY <1>1, Zenon DEF AdmitStore, RecordStore, Note
<1>2. CASE raced' = raced
  BY <1>2, Zenon DEF TypeOK
<1> QED
  BY <1>1, <1>2
     DEF Next, Proceed, Call, AdmitDecide, Answer, RecordDecide, Drop, Tick, vars,
         histories

\* Every step: a store keeps type and bound because its copy has them.
LEMMA TypedAndBoundedStep == TypedAndBounded /\ [Next]_vars => TypedAndBounded'
<1> SUFFICES ASSUME TypedAndBounded, [Next]_vars
             PROVE  TypedAndBounded'
  OBVIOUS
<1>r. raced' \in BOOLEAN
  BY RacedIsBoolean DEF TypedAndBounded
<1> USE DEF TypedAndBounded, TypeOK, CountersBelowLimits, Locations, Goto, histories
<1>1. ASSUME NEW t \in Tasks, Call(t)
      PROVE  TypedAndBounded'
  BY <1>1, <1>r DEF Call, Snapshot
<1>2. ASSUME NEW t \in Tasks, AdmitDecide(t)
      PROVE  TypedAndBounded'
  <2>1. Admit(copy[t]) \in Node /\ BelowLimit(Admit(copy[t]))
    BY AdmitNode
  <2> QED
    BY <1>2, <1>r, <2>1 DEF AdmitDecide
<1>3. ASSUME NEW t \in Tasks, AdmitStore(t)
      PROVE  TypedAndBounded'
  BY <1>3, <1>r, NamedNodes DEF AdmitStore, Store, Forget
<1>4. ASSUME NEW t \in Tasks, Answer(t)
      PROVE  TypedAndBounded'
  BY <1>4, <1>r DEF Answer, Snapshot, Outcomes, classify_result
<1>5. ASSUME NEW t \in Tasks, RecordDecide(t)
      PROVE  TypedAndBounded'
  <2>1. /\ Record(copy[t], outcome[t]) \in Node
        /\ BelowLimit(Record(copy[t], outcome[t]))
    BY RecordNode
  <2> QED
    BY <1>5, <1>r, <2>1 DEF RecordDecide
<1>6. ASSUME NEW t \in Tasks, RecordStore(t)
      PROVE  TypedAndBounded'
  <2>1. /\ Counted(streak) \in 0 .. FailureThreshold
        /\ Counted(failed) \in 0 .. FailureThreshold
        /\ 0 \in 0 .. FailureThreshold
    BY CountedBound, PolicyAssumption
  <2> QED
    BY <1>6, <1>r, <2>1, NamedNodes DEF RecordStore, Store, Note, Forget
<1>7. ASSUME NEW t \in Tasks, Drop(t)
      PROVE  TypedAndBounded'
  BY <1>7, <1>r, NamedNodes DEF Drop, Forget
<1>8. CASE Tick
  BY <1>8, <1>r, AgedNode DEF Tick
<1>9. CASE UNCHANGED vars
  BY <1>9 DEF vars
<1> QED
  BY <1>1, <1>2, <1>3, <1>4, <1>5, <1>6, <1>7, <1>8, <1>9 DEF Next, Proceed

\* The variables of the breaker keep their types in every behaviour: whatever
\* the interleaving, what admit and record store is a node.
THEOREM TypeCorrect == Spec => []TypeOK
<1>1. TypedAndBounded => TypeOK
  BY DEF TypedAndBounded
<1> QED
  BY <1>1, TypedAndBoundedInit, TypedAndBoundedStep, PTL DEF Spec

\* No counter is ever stored at its limit, whatever the interleaving of the
\* stores of admit and record.
THEOREM BoundedCounters == Spec => []CountersBelowLimits
<1>1. TypedAndBounded => CountersBelowLimits
  BY DEF TypedAndBounded
<1> QED
  BY <1>1, TypedAndBoundedInit, TypedAndBoundedStep, PTL DEF Spec

-----------------------------------------------------------------------------
(***************************************************************************)
(* No failure counts twice.  A copy can be stale, so the invariant speaks  *)
(* of the copies too: a closed node, stored or copied, counts no more      *)
(* failures than were recorded, and any other node has the threshold       *)
(* behind it.  A task that has decided on a failure and not yet stored it  *)
(* is one ahead.                                                           *)
(***************************************************************************)
EarnedBy(n, k) ==
    /\ n.state = "closed" => n.failures <= k
    /\ n.state # "closed" => k = FailureThreshold

Ahead(t) == pc[t] = "recorded" /\ outcome[t] = "failure"

FailuresEarned ==
    /\ EarnedBy(node, failed)
    /\ \A t \in Tasks : EarnedBy(copy[t], IF Ahead(t) THEN Counted(failed) ELSE failed)

\* The initial node counts nothing, and recording another failure takes
\* nothing away from what other tasks hold.
LEMMA EarnedMonotone ==
    ASSUME NEW k \in 0 .. FailureThreshold
    PROVE  /\ EarnedBy(InitialNode, k)
           /\ \A n \in Node : EarnedBy(n, k) => EarnedBy(n, Counted(k))
           /\ k = FailureThreshold => Counted(k) = FailureThreshold
BY PolicyAssumption DEF EarnedBy, InitialNode, Node, Counted

\* Admitting adds nothing to what a copy counts.
LEMMA EarnedAdmit ==
    ASSUME NEW n \in Node, NEW k \in 0 .. FailureThreshold,
           BelowLimit(n), EarnedBy(n, k)
    PROVE  /\ EarnedBy(Admit(n), k)
           /\ ~Proceeds(n) => k = FailureThreshold
BY AdmitNode DEF EarnedBy, Proceeds

\* Recording a failure adds one to the copy's count and one to the history;
\* recording a success only resets.
LEMMA EarnedRecord ==
    ASSUME NEW n \in Node, NEW k \in 0 .. FailureThreshold,
           BelowLimit(n), EarnedBy(n, k)
    PROVE  /\ EarnedBy(RecordFailure(n), Counted(k))
           /\ EarnedBy(RecordSuccess(n), k)
<1>1. RecordFailure(n) \in Node /\ RecordSuccess(n) \in Node
  BY RecordFailureNode, RecordSuccessNode
<1>2. EarnedBy(RecordSuccess(n), k)
  BY <1>1, RecordSuccessNode, PolicyAssumption DEF EarnedBy
<1>3. CASE n.state = "closed" /\ RecordFailure(n).state = "closed"
  <2>1. RecordFailure(n).failures = n.failures + 1
    BY <1>3, RecordFailureNode
  <2>2. n.failures + 1 <= Counted(k)
    BY <1>3, PolicyAssumption DEF EarnedBy, BelowLimit, Counted, Node
  <2> QED
    BY <1>2, <1>3, <2>1, <2>2 DEF EarnedBy
<1>4. CASE n.state = "closed" /\ RecordFailure(n).state # "closed"
  <2>1. n.failures + 1 = FailureThreshold
    BY <1>4, RecordFailureNode
  <2>2. Counted(k) = FailureThreshold
    BY <1>4, <2>1, PolicyAssumption DEF EarnedBy, Counted, Node
  <2> QED
    BY <1>2, <1>4, <2>2 DEF EarnedBy
<1>5. CASE n.state # "closed"
  <2>1. RecordFailure(n).state # "closed"
    BY <1>5, RecordFailureNode
  <2>2. Counted(k) = FailureThreshold
    BY <1>5, PolicyAssumption DEF EarnedBy, Counted
  <2> QED
    BY <1>2, <2>1, <2>2 DEF EarnedBy
<1> QED
  BY <1>3, <1>4, <1>5

\* Every step keeps FailuresEarned.
LEMMA FailuresEarnedStep ==
    TypedAndBounded /\ FailuresEarned /\ [Next]_vars => FailuresEarned'
<1> SUFFICES ASSUME TypedAndBounded, FailuresEarned, [Next]_vars
             PROVE  FailuresEarned'
  OBVIOUS
<1>a. /\ node \in Node
      /\ copy \in [Tasks -> Node]
      /\ pc \in [Tasks -> Locations]
      /\ outcome \in [Tasks -> {"success", "failure"}]
      /\ failed \in 0 .. FailureThreshold
      /\ Counted(failed) \in 0 .. FailureThreshold
      /\ BelowLimit(node)
      /\ \A t \in Tasks : BelowLimit(copy[t])
  BY CountedBound DEF TypedAndBounded, TypeOK, CountersBelowLimits
<1>b. /\ EarnedBy(node, failed)
      /\ \A t \in Tasks : Ahead(t) => EarnedBy(copy[t], Counted(failed))
      /\ \A t \in Tasks : ~Ahead(t) => EarnedBy(copy[t], failed)
      /\ \A t \in Tasks : EarnedBy(copy[t], Counted(failed))
  BY <1>a, EarnedMonotone DEF FailuresEarned
<1>c. ASSUME EarnedBy(node', failed'),
             \A t \in Tasks : Ahead(t)' => EarnedBy(copy'[t], Counted(failed)'),
             \A t \in Tasks : ~Ahead(t)' => EarnedBy(copy'[t], failed')
      PROVE  FailuresEarned'
  BY <1>c DEF FailuresEarned
<1> USE DEF Ahead, Goto, histories
<1>1. ASSUME NEW t \in Tasks, Call(t)
      PROVE  FailuresEarned'
  BY <1>1, <1>a, <1>b, <1>c DEF Call, Snapshot, Counted
<1>2. ASSUME NEW t \in Tasks, AdmitDecide(t)
      PROVE  FailuresEarned'
  <2>1. EarnedBy(Admit(copy[t]), failed)
    BY <1>2, <1>a, <1>b, EarnedAdmit DEF AdmitDecide
  <2> QED
    BY <1>2, <1>a, <1>b, <1>c, <2>1 DEF AdmitDecide, Counted
<1>3. ASSUME NEW t \in Tasks, AdmitStore(t)
      PROVE  FailuresEarned'
  <2>1. EarnedBy(copy[t], failed)
    BY <1>3, <1>b DEF AdmitStore
  <2>2. EarnedBy(InitialNode, failed)
    BY <1>a, EarnedMonotone
  <2> QED
    BY <1>3, <1>a, <1>b, <1>c, <2>1, <2>2 DEF AdmitStore, Store, Forget, Counted
<1>4. ASSUME NEW t \in Tasks, Answer(t)
      PROVE  FailuresEarned'
  BY <1>4, <1>a, <1>b, <1>c DEF Answer, Snapshot, Counted
<1>5. ASSUME NEW t \in Tasks, RecordDecide(t)
      PROVE  FailuresEarned'
  <2>1. /\ EarnedBy(RecordFailure(copy[t]), Counted(failed))
        /\ EarnedBy(RecordSuccess(copy[t]), failed)
    BY <1>5, <1>a, <1>b, EarnedRecord DEF RecordDecide
  <2>2. CASE outcome[t] = "failure"
    BY <1>5, <1>a, <1>b, <1>c, <2>1, <2>2 DEF RecordDecide, Record, Counted
  <2>3. CASE outcome[t] # "failure"
    BY <1>5, <1>a, <1>b, <1>c, <2>1, <2>3 DEF RecordDecide, Record, Counted
  <2> QED
    BY <2>2, <2>3
<1>6. ASSUME NEW t \in Tasks, RecordStore(t)
      PROVE  FailuresEarned'
  <2>1. /\ EarnedBy(InitialNode, failed)
        /\ EarnedBy(InitialNode, Counted(failed))
    BY <1>a, EarnedMonotone
  <2>2. CASE outcome[t] = "failure"
    <3>1. node' = copy[t] /\ failed' = Counted(failed) /\ Ahead(t)
      BY <1>6, <2>2 DEF RecordStore, Store, Note
    <3>2. /\ copy' = [copy EXCEPT ![t] = InitialNode]
          /\ \A u \in Tasks : copy'[u] \in Node
      BY <1>6, <1>a, NamedNodes DEF RecordStore, Forget
    <3>3. \A u \in Tasks : EarnedBy(copy'[u], failed')
      BY <3>1, <3>2, <1>a, <1>b, <2>1
    <3>4. \A u \in Tasks : EarnedBy(copy'[u], Counted(failed)')
      <4>1. Counted(failed)' = Counted(failed')
        BY DEF Counted
      <4> QED
        BY <4>1, <3>1, <3>2, <3>3, <1>a, EarnedMonotone
    <3> QED
      BY <3>1, <3>3, <3>4, <1>b, <1>c
  <2>3. CASE outcome[t] # "failure"
    <3>1. node' = copy[t] /\ failed' = failed /\ ~Ahead(t)
      BY <1>6, <2>3 DEF RecordStore, Store, Note
    <3> QED
      BY <1>6, <1>a, <1>b, <1>c, <2>1, <3>1 DEF RecordStore, Forget, Counted
  <2> QED
    BY <2>2, <2>3
<1>7. ASSUME NEW t \in Tasks, Drop(t)
      PROVE  FailuresEarned'
  BY <1>7, <1>a, <1>b, <1>c, EarnedMonotone DEF Drop, Forget, Counted
<1>8. CASE Tick
  <2>1. \A n \in Node : \A k : EarnedBy(n, k) => EarnedBy(Aged(n), k)
    BY AgedNode DEF EarnedBy
  <2> QED
    BY <1>8, <1>a, <1>b, <1>c, <2>1 DEF Tick, Counted
<1>9. CASE UNCHANGED vars
  BY <1>9, <1>b, <1>c DEF vars, Counted
<1> QED
  BY <1>1, <1>2, <1>3, <1>4, <1>5, <1>6, <1>7, <1>8, <1>9 DEF Next, Proceed

\* Initially nothing is counted.
LEMMA FailuresEarnedInit == Init => FailuresEarned
<1> SUFFICES ASSUME Init
             PROVE  FailuresEarned
  OBVIOUS
<1>1. /\ node = InitialNode
      /\ \A t \in Tasks : copy[t] = InitialNode /\ pc[t] = "idle"
      /\ failed \in 0 .. FailureThreshold
  BY PolicyAssumption DEF Init
<1> QED
  BY <1>1, EarnedMonotone DEF FailuresEarned, Ahead

-----------------------------------------------------------------------------
(***************************************************************************)
(* A snapshot that is not stale.  Until a task has decided, what it holds  *)
(* is the node.  After that it holds what the state machine made of the    *)
(* node k ticks ago, and both have grown k ticks older since.              *)
(***************************************************************************)
DecidedFrom(t, n, k) ==
    /\ node = AgedBy(n, k)
    /\ IF pc[t] = "recorded"
       THEN copy[t] = AgedBy(Record(n, outcome[t]), k)
       ELSE /\ copy[t] = AgedBy(Admit(n), k)
            /\ pc[t] = "admitted" <=> Proceeds(n)

FreshCopies ==
    \A t \in Tasks \ stale :
        /\ pc[t] \in {"admitting", "recording"} => copy[t] = node
        /\ pc[t] \in {"admitted", "denied", "recorded"} =>
               \E n \in Node, k \in 0 .. CoolDown : BelowLimit(n) /\ DecidedFrom(t, n, k)

\* The passing of several ticks.
LEMMA AgedByNode ==
    ASSUME NEW n \in Node, NEW k \in 0 .. CoolDown
    PROVE  /\ AgedBy(n, k) \in Node
           /\ AgedBy(n, k).state = n.state
           /\ AgedBy(n, k).failures = n.failures
           /\ BelowLimit(AgedBy(n, k)) <=> BelowLimit(n)
           /\ n.state # "open" => AgedBy(n, k) = n
BY PolicyAssumption DEF Node, AgedBy, BelowLimit

\* No tick at all.
LEMMA AgedByNone ==
    ASSUME NEW n \in Node
    PROVE  AgedBy(n, 0) = n
BY PolicyAssumption DEF Node, AgedBy

\* One more tick; beyond CoolDown it makes no difference.
LEMMA AgedByMore ==
    ASSUME NEW n \in Node, NEW k \in 0 .. CoolDown
    PROVE  \E j \in 0 .. CoolDown : \A m \in Node : Aged(AgedBy(m, k)) = AgedBy(m, j)
<1>1. CASE k < CoolDown
  <2>1. k + 1 \in 0 .. CoolDown
    BY <1>1, PolicyAssumption
  <2>2. ASSUME NEW m \in Node
        PROVE  Aged(AgedBy(m, k)) = AgedBy(m, k + 1)
    <3>1. CASE m.state # "open"
      BY <3>1 DEF Aged, AgedBy
    <3>2. CASE m.state = "open" /\ m.age + k < CoolDown
      <4>1. AgedBy(m, k) = [m EXCEPT !.age = m.age + k]
        BY <3>2 DEF AgedBy
      <4>2. Aged(AgedBy(m, k)) = [m EXCEPT !.age = (m.age + k) + 1]
        BY <3>2, <4>1 DEF Aged, Node
      <4>3. AgedBy(m, k + 1) = [m EXCEPT !.age = m.age + (k + 1)]
        <5>1. m.age + (k + 1) < CoolDown \/ m.age + (k + 1) = CoolDown
          BY <3>2, PolicyAssumption DEF Node
        <5> QED
          BY <3>2, <5>1 DEF AgedBy
      <4>4. (m.age + k) + 1 = m.age + (k + 1)
        BY PolicyAssumption DEF Node
      <4> QED
        BY <4>2, <4>3, <4>4
    <3>3. CASE m.state = "open" /\ ~(m.age + k < CoolDown)
      <4>1. AgedBy(m, k) = [m EXCEPT !.age = CoolDown]
        BY <3>3 DEF AgedBy
      <4>2. Aged(AgedBy(m, k)) = [m EXCEPT !.age = CoolDown]
        BY <4>1, PolicyAssumption DEF Aged, Node
      <4>3. ~(m.age + (k + 1) < CoolDown)
        BY <3>3, PolicyAssumption DEF Node
      <4> QED
        BY <3>3, <4>2, <4>3 DEF AgedBy
    <3> QED
      BY <3>1, <3>2, <3>3
  <2> QED
    BY <2>1, <2>2
<1>2. CASE k = CoolDown
  <2>1. ASSUME NEW m \in Node
        PROVE  Aged(AgedBy(m, k)) = AgedBy(m, k)
    BY <1>2, PolicyAssumption DEF Node, Aged, AgedBy
  <2> QED
    BY <2>1
<1> QED
  BY <1>1, <1>2, PolicyAssumption

\* Every step keeps FreshCopies: a store that changes the node makes the other
\* snapshots stale, and time passes for the node and for the copies alike.
LEMMA FreshCopiesStep ==
    TypedAndBounded /\ FreshCopies /\ [Next]_vars => FreshCopies'
<1> SUFFICES ASSUME TypedAndBounded, FreshCopies, [Next]_vars,
                    NEW u \in Tasks, u \notin stale'
             PROVE  /\ pc'[u] \in {"admitting", "recording"} => copy'[u] = node'
                    /\ pc'[u] \in {"admitted", "denied", "recorded"} =>
                         \E n \in Node, k \in 0 .. CoolDown :
                             BelowLimit(n) /\ DecidedFrom(u, n, k)'
  BY DEF FreshCopies
<1>a. /\ node \in Node /\ BelowLimit(node)
      /\ copy \in [Tasks -> Node]
      /\ pc \in [Tasks -> Locations]
      /\ outcome \in [Tasks -> {"success", "failure"}]
      /\ stale \subseteq Tasks
  BY DEF TypedAndBounded, TypeOK, CountersBelowLimits
<1> DEFINE Goal == /\ pc'[u] \in {"admitting", "recording"} => copy'[u] = node'
                   /\ pc'[u] \in {"admitted", "denied", "recorded"} =>
                        \E n \in Node, k \in 0 .. CoolDown :
                            BelowLimit(n) /\ DecidedFrom(u, n, k)'
\* A task that is neither moved nor overtaken.
<1>b. ASSUME u \notin stale, UNCHANGED node,
             pc'[u] = pc[u], copy'[u] = copy[u], outcome'[u] = outcome[u]
      PROVE  Goal
  BY <1>b DEF FreshCopies, DecidedFrom
\* A task that holds nothing.
<1>c. ASSUME pc'[u] \in {"idle", "calling"}
      PROVE  Goal
  BY <1>c
<1> USE DEF Goto, histories
<1> HIDE DEF Goal
<1>1. ASSUME NEW t \in Tasks, Call(t)
      PROVE  Goal
  <2>1. CASE u = t
    BY <1>1, <1>a, <1>c, <2>1 DEF Call, Snapshot, Goal
  <2>2. CASE u # t
    BY <1>1, <1>a, <1>b, <2>2 DEF Call, Snapshot
  <2> QED
    BY <2>1, <2>2
<1>2. ASSUME NEW t \in Tasks, AdmitDecide(t)
      PROVE  Goal
  <2>1. CASE u = t
    <3>1. /\ u \notin stale /\ copy[u] = node
          /\ node' = node /\ copy'[u] = Admit(node)
          /\ pc'[u] = IF Proceeds(node) THEN "admitted" ELSE "denied"
      BY <1>2, <1>a, <2>1 DEF AdmitDecide, FreshCopies
    <3>2. Admit(node) \in Node
      BY <1>a, AdmitNode
    <3>3. 0 \in 0 .. CoolDown /\ AgedBy(node, 0) = node /\ AgedBy(Admit(node), 0) = Admit(node)
      BY <1>a, <3>2, AgedByNone, PolicyAssumption
    <3>4. DecidedFrom(u, node, 0)'
      BY <3>1, <3>3 DEF DecidedFrom
    <3> QED
      BY <3>1, <3>3, <3>4, <1>a DEF Goal
  <2>2. CASE u # t
    BY <1>2, <1>a, <1>b, <2>2 DEF AdmitDecide
  <2> QED
    BY <2>1, <2>2
<1>3. ASSUME NEW t \in Tasks, AdmitStore(t) \/ RecordStore(t)
      PROVE  Goal
  <2>1. CASE u = t
    BY <1>3, <1>a, <1>c, <2>1 DEF AdmitStore, RecordStore
  <2>2. CASE u # t /\ copy[t] = node
    BY <1>3, <1>a, <1>b, <2>2 DEF AdmitStore, RecordStore, Store, Forget
  <2>3. CASE u # t /\ copy[t] # node
    <3>1. pc[u] \notin Holding /\ pc'[u] = pc[u]
      BY <1>3, <1>a, <2>3 DEF AdmitStore, RecordStore, Store
    <3> QED
      BY <3>1, <1>a, <1>c DEF Holding, Locations
  <2> QED
    BY <2>1, <2>2, <2>3
<1>4. ASSUME NEW t \in Tasks, Answer(t)
      PROVE  Goal
  <2>1. CASE u = t
    BY <1>4, <1>a, <1>c, <2>1 DEF Answer, Snapshot, Goal
  <2>2. CASE u # t
    BY <1>4, <1>a, <1>b, <2>2 DEF Answer, Snapshot
  <2> QED
    BY <2>1, <2>2
<1>5. ASSUME NEW t \in Tasks, RecordDecide(t)
      PROVE  Goal
  <2>1. CASE u = t
    <3>1. /\ u \notin stale /\ copy[u] = node
          /\ node' = node /\ copy'[u] = Record(node, outcome[u])
          /\ pc'[u] = "recorded" /\ outcome'[u] = outcome[u]
      BY <1>5, <1>a, <2>1 DEF RecordDecide, FreshCopies
    <3>2. Record(node, outcome[u]) \in Node
      BY <1>a, RecordNode
    <3>3. /\ 0 \in 0 .. CoolDown /\ AgedBy(node, 0) = node
          /\ AgedBy(Record(node, outcome[u]), 0) = Record(node, outcome[u])
      BY <1>a, <3>2, AgedByNone, PolicyAssumption
    <3>4. DecidedFrom(u, node, 0)'
      BY <3>1, <3>3 DEF DecidedFrom
    <3> QED
      BY <3>1, <3>3, <3>4, <1>a DEF Goal
  <2>2. CASE u # t
    BY <1>5, <1>a, <1>b, <2>2 DEF RecordDecide
  <2> QED
    BY <2>1, <2>2
<1>6. ASSUME NEW t \in Tasks, Drop(t)
      PROVE  Goal
  <2>1. CASE u = t
    BY <1>6, <1>a, <1>c, <2>1 DEF Drop
  <2>2. CASE u # t
    BY <1>6, <1>a, <1>b, <2>2 DEF Drop, Forget
  <2> QED
    BY <2>1, <2>2
<1>7. ASSUME Tick
      PROVE  Goal
  <2>1. /\ u \notin stale /\ pc'[u] = pc[u] /\ outcome'[u] = outcome[u]
        /\ node' = Aged(node) /\ copy'[u] = Aged(copy[u])
    BY <1>7, <1>a DEF Tick
  <2>2. pc[u] \in {"admitting", "recording"} => copy'[u] = node'
    BY <2>1 DEF FreshCopies
  <2>3. ASSUME pc[u] \in {"admitted", "denied", "recorded"}
        PROVE  \E n \in Node, k \in 0 .. CoolDown :
                   BelowLimit(n) /\ DecidedFrom(u, n, k)'
    <3>1. PICK n \in Node, k \in 0 .. CoolDown : BelowLimit(n) /\ DecidedFrom(u, n, k)
      BY <2>1, <2>3 DEF FreshCopies
    <3>2. Admit(n) \in Node /\ Record(n, outcome[u]) \in Node
      BY <3>1, AdmitNode, RecordNode
    <3>3. PICK j \in 0 .. CoolDown : \A m \in Node : Aged(AgedBy(m, k)) = AgedBy(m, j)
      BY AgedByMore
    <3>4. DecidedFrom(u, n, j)'
      BY <2>1, <3>1, <3>2, <3>3 DEF DecidedFrom
    <3> QED
      BY <3>1, <3>4
  <2> QED
    BY <2>1, <2>2, <2>3 DEF Goal
<1>8. ASSUME UNCHANGED vars
      PROVE  Goal
  BY <1>8, <1>b DEF vars
<1>9. Goal
  BY <1>1, <1>2, <1>3, <1>4, <1>5, <1>6, <1>7, <1>8 DEF Next, Proceed
<1> QED
  BY <1>9 DEF Goal

\* Initially no copy is held.
LEMMA FreshCopiesInit == Init => FreshCopies
BY DEF Init, FreshCopies

-----------------------------------------------------------------------------
(***************************************************************************)
(* Counting.  A store that is not stale does to the node what the state    *)
(* machine does to some node that differs from it in age only.             *)
(***************************************************************************)
Alike(m, n) == m.state = n.state /\ m.failures = n.failures

\* What a fresh store of admit or of record does.
LEMMA FreshStore ==
    ASSUME TypedAndBounded, FreshCopies, NEW t \in Tasks, t \notin stale
    PROVE  /\ AdmitStore(t) => \E n \in Node : /\ BelowLimit(n) /\ Alike(node, n)
                                              /\ Alike(node', Admit(n))
           /\ RecordStore(t) => \E n \in Node : /\ BelowLimit(n) /\ Alike(node, n)
                                               /\ Alike(node', Record(n, outcome[t]))
<1>1. ASSUME AdmitStore(t) \/ RecordStore(t)
      PROVE  \E n \in Node, k \in 0 .. CoolDown : BelowLimit(n) /\ DecidedFrom(t, n, k)
  BY <1>1 DEF FreshCopies, AdmitStore, RecordStore
<1>2. \A n \in Node : BelowLimit(n) => Admit(n) \in Node /\ Record(n, outcome[t]) \in Node
  BY AdmitNode, RecordNode
<1>3. ASSUME AdmitStore(t)
      PROVE  \E n \in Node : /\ BelowLimit(n) /\ Alike(node, n)
                             /\ Alike(node', Admit(n))
  <2>1. PICK n \in Node, k \in 0 .. CoolDown : BelowLimit(n) /\ DecidedFrom(t, n, k)
    BY <1>1, <1>3
  <2>2. node = AgedBy(n, k) /\ node' = AgedBy(Admit(n), k)
    BY <1>3, <2>1 DEF DecidedFrom, AdmitStore, Store
  <2> QED
    BY <2>1, <2>2, <1>2, AgedByNode DEF Alike
<1>4. ASSUME RecordStore(t)
      PROVE  \E n \in Node : /\ BelowLimit(n) /\ Alike(node, n)
                             /\ Alike(node', Record(n, outcome[t]))
  <2>1. PICK n \in Node, k \in 0 .. CoolDown : BelowLimit(n) /\ DecidedFrom(t, n, k)
    BY <1>1, <1>4
  <2>2. node = AgedBy(n, k) /\ node' = AgedBy(Record(n, outcome[t]), k)
    BY <1>4, <2>1 DEF DecidedFrom, RecordStore, Store
  <2> QED
    BY <2>1, <2>2, <1>2, AgedByNode DEF Alike
<1> QED
  BY <1>3, <1>4

\* Every step keeps the count of a closed circuit exact, or is a stale store.
LEMMA CountsConsecutiveStep ==
    TypedAndBounded /\ FreshCopies /\ CountsConsecutive /\ [Next]_vars
        => CountsConsecutive'
<1> SUFFICES ASSUME TypedAndBounded, FreshCopies, CountsConsecutive, [Next]_vars,
                    ~raced', node'.state = "closed"
             PROVE  node'.failures = streak'
  BY DEF CountsConsecutive
<1>a. node \in Node /\ streak \in 0 .. FailureThreshold
  BY DEF TypedAndBounded, TypeOK
<1>1. ASSUME NEW t \in Tasks, AdmitStore(t)
      PROVE  node'.failures = streak'
  <2>1. t \notin stale /\ ~raced /\ streak' = streak
    BY <1>1 DEF AdmitStore
  <2>2. PICK n \in Node : BelowLimit(n) /\ Alike(node, n) /\ Alike(node', Admit(n))
    BY <1>1, <2>1, FreshStore
  <2>3. Admit(n) = n
    BY <2>2, AdmitNode DEF Alike
  <2> QED
    BY <2>1, <2>2, <2>3 DEF Alike, CountsConsecutive
<1>2. ASSUME NEW t \in Tasks, RecordStore(t), outcome[t] = "failure"
      PROVE  node'.failures = streak'
  <2>1. t \notin stale /\ ~raced /\ streak' = Counted(streak)
    BY <1>2 DEF RecordStore, Note
  <2>2. PICK n \in Node : /\ BelowLimit(n) /\ Alike(node, n)
                          /\ Alike(node', RecordFailure(n))
    BY <1>2, <2>1, FreshStore DEF Record
  <2>3. /\ n.state = "closed" /\ n.failures = streak
        /\ node'.failures = n.failures + 1
    BY <2>1, <2>2, RecordFailureNode DEF Alike, CountsConsecutive
  <2>4. n.failures < FailureThreshold
    BY <2>2, <2>3 DEF BelowLimit
  <2> QED
    BY <2>1, <2>3, <2>4 DEF Counted
<1>3. ASSUME NEW t \in Tasks, RecordStore(t), outcome[t] # "failure"
      PROVE  node'.failures = streak'
  <2>1. t \notin stale /\ streak' = 0
    BY <1>3 DEF RecordStore, Note
  <2>2. PICK n \in Node : /\ BelowLimit(n) /\ Alike(node, n)
                          /\ Alike(node', RecordSuccess(n))
    BY <1>3, <2>1, FreshStore DEF Record
  <2> QED
    BY <2>1, <2>2, RecordSuccessNode DEF Alike
<1>4. CASE Tick
  BY <1>4, <1>a, AgedNode DEF Tick, histories, CountsConsecutive
<1>5. CASE UNCHANGED <<node, streak, raced>>
  BY <1>5 DEF CountsConsecutive
<1> QED
  BY <1>1, <1>2, <1>3, <1>4, <1>5
     DEF Next, Proceed, Call, Snapshot, AdmitDecide, Answer, RecordDecide, Drop, vars,
         histories

\* Initially no failure is counted.
LEMMA CountsConsecutiveInit == Init => CountsConsecutive
BY DEF Init, CountsConsecutive, InitialNode

\* For any number of tasks, the counter of a closed circuit is the number of
\* failures in a row except between a stale store and the next success that is
\* recorded from a snapshot that is not stale.
THEOREM CountIsExact == Spec => []CountsConsecutive
BY TypedAndBoundedInit, TypedAndBoundedStep, FreshCopiesInit, FreshCopiesStep,
   CountsConsecutiveInit, CountsConsecutiveStep, PTL DEF Spec

\* For any number of tasks, no interleaving of admit and record trips the
\* circuit before failure_threshold failures were recorded, and only a stale
\* store lets it trip on failures that were not in a row.
THEOREM NoEarlyTrip == Spec => NeverTripsEarly
<1>1. TypedAndBounded /\ FailuresEarned' /\ FreshCopies /\ CountsConsecutive
        /\ TypedAndBounded' /\ [Next]_vars
      => [node.state = "closed" /\ node'.state # "closed"
            => /\ failed' = FailureThreshold
               /\ ~raced' => streak' = FailureThreshold]_vars
  <2> SUFFICES ASSUME TypedAndBounded, FailuresEarned', FreshCopies,
                      CountsConsecutive, Next,
                      node.state = "closed", node'.state # "closed"
               PROVE  /\ failed' = FailureThreshold
                      /\ ~raced' => streak' = FailureThreshold
    OBVIOUS
  <2>1. failed' = FailureThreshold
    BY DEF FailuresEarned, EarnedBy
  <2>2. ASSUME NEW t \in Tasks, AdmitStore(t), ~raced'
        PROVE  FALSE
    <3>1. t \notin stale
      BY <2>2 DEF AdmitStore
    <3>2. PICK n \in Node : BelowLimit(n) /\ Alike(node, n) /\ Alike(node', Admit(n))
      BY <2>2, <3>1, FreshStore
    <3> QED
      BY <3>2, AdmitNode DEF Alike
  <2>3. ASSUME NEW t \in Tasks, RecordStore(t), ~raced', outcome[t] # "failure"
        PROVE  FALSE
    <3>1. t \notin stale
      BY <2>3 DEF RecordStore, Note
    <3>2. PICK n \in Node : /\ BelowLimit(n) /\ Alike(node, n)
                            /\ Alike(node', RecordSuccess(n))
      BY <2>3, <3>1, FreshStore DEF Record
    <3> QED
      BY <3>2, RecordSuccessNode DEF Alike
  <2>4. ASSUME NEW t \in Tasks, RecordStore(t), ~raced', outcome[t] = "failure"
        PROVE  streak' = FailureThreshold
    <3>1. t \notin stale /\ ~raced /\ streak' = Counted(streak)
      BY <2>4 DEF RecordStore, Note
    <3>2. PICK n \in Node : /\ BelowLimit(n) /\ Alike(node, n)
                            /\ Alike(node', RecordFailure(n))
      BY <2>4, <3>1, FreshStore DEF Record
    <3>3. n.failures + 1 = FailureThreshold /\ n.failures = streak
      BY <3>1, <3>2, RecordFailureNode DEF Alike, CountsConsecutive
    <3>4. n.failures \in Nat /\ streak \in Nat
      BY <3>2, PolicyAssumption DEF Node, TypedAndBounded, TypeOK
    <3> QED
      BY <3>1, <3>3, <3>4, PolicyAssumption DEF Counted
  <2>5. CASE Tick
    BY <2>5, AgedNode DEF Tick, TypedAndBounded, TypeOK
  <2>6. CASE UNCHANGED node
    BY <2>6
  <2> QED
    BY <2>1, <2>2, <2>3, <2>4, <2>5, <2>6
       DEF Next, Proceed, Call, Snapshot, AdmitDecide, Answer, RecordDecide, Drop
<1> QED
  BY <1>1, TypedAndBoundedInit, TypedAndBoundedStep, FailuresEarnedInit,
     FailuresEarnedStep, FreshCopiesInit, FreshCopiesStep, CountsConsecutiveInit,
     CountsConsecutiveStep, PTL DEF Spec, NeverTripsEarly

-----------------------------------------------------------------------------
(***************************************************************************)
(* A disabled breaker.  No task is ever in admit or in record, so nothing  *)
(* stores a node; time does not age a closed one.                          *)
(***************************************************************************)

\* A disabled breaker forwards every call, refuses none and records nothing.
THEOREM DisabledStaysInert == Spec => []DisabledIsInert
<1>1. Init => DisabledIsInert
  BY DEF Init, DisabledIsInert
<1>2. TypeOK /\ DisabledIsInert /\ [Next]_vars => DisabledIsInert'
  <2> SUFFICES ASSUME TypeOK, ~Enabled, DisabledIsInert, [Next]_vars
               PROVE  DisabledIsInert'
    BY DEF DisabledIsInert
  <2> USE DEF DisabledIsInert, TypeOK, Goto
  <2>1. ASSUME NEW t \in Tasks, Call(t)
        PROVE  DisabledIsInert'
    BY <2>1 DEF Call
  <2>2. ASSUME NEW t \in Tasks, Answer(t)
        PROVE  DisabledIsInert'
    BY <2>2 DEF Answer
  <2>3. ASSUME NEW t \in Tasks, Drop(t)
        PROVE  DisabledIsInert'
    BY <2>3 DEF Drop
  <2>4. ASSUME NEW t \in Tasks,
               AdmitDecide(t) \/ AdmitStore(t) \/ RecordDecide(t) \/ RecordStore(t)
        PROVE  FALSE
    BY <2>4 DEF AdmitDecide, AdmitStore, RecordDecide, RecordStore
  <2>5. CASE Tick
    BY <2>5 DEF Tick, Aged, InitialNode
  <2>6. CASE UNCHANGED vars
    BY <2>6 DEF vars
  <2> QED
    BY <2>1, <2>2, <2>3, <2>4, <2>5, <2>6 DEF Next, Proceed
<1> QED
  BY <1>1, <1>2, TypeCorrect, PTL DEF Spec

-----------------------------------------------------------------------------
(***************************************************************************)
(* Refinement: the initial states map to initial states and every step     *)
(* that is not a stale store to a step of AtomicBreaker or to none.        *)
(***************************************************************************)
\* Only an enabled breaker admits, and only a call that ended has an outcome
\* to record.
OutcomesInUse ==
    \A t \in Tasks :
        /\ pc[t] \in {"admitting", "admitted", "denied"} => Enabled
        /\ pc[t] \notin {"recording", "recorded"} => outcome[t] = "success"

\* Every step keeps OutcomesInUse.
LEMMA OutcomesInUseStep ==
    TypeOK /\ OutcomesInUse /\ [Next]_vars => OutcomesInUse'
<1> SUFFICES ASSUME TypeOK, OutcomesInUse, [Next]_vars
             PROVE  OutcomesInUse'
  OBVIOUS
<1> USE DEF TypeOK, OutcomesInUse, Goto
<1>1. ASSUME NEW t \in Tasks, Call(t)
      PROVE  OutcomesInUse'
  BY <1>1 DEF Call
<1>2. ASSUME NEW t \in Tasks, AdmitDecide(t) \/ RecordDecide(t)
      PROVE  OutcomesInUse'
  BY <1>2 DEF AdmitDecide, RecordDecide
<1>3. ASSUME NEW t \in Tasks, AdmitStore(t) \/ RecordStore(t) \/ Drop(t)
      PROVE  OutcomesInUse'
  BY <1>3 DEF AdmitStore, RecordStore, Drop, Forget
<1>4. ASSUME NEW t \in Tasks, Answer(t)
      PROVE  OutcomesInUse'
  BY <1>4 DEF Answer
<1>5. CASE Tick \/ UNCHANGED vars
  BY <1>5 DEF Tick, vars
<1> QED
  BY <1>1, <1>2, <1>3, <1>4, <1>5 DEF Next, Proceed

AtomicPhase == [t \in Tasks |-> Phase(pc[t])]

\* A task that moves changes its own phase only.
LEMMA PhaseMoves ==
    ASSUME TypeOK, NEW t \in Tasks, NEW l \in Locations, Goto(t, l)
    PROVE  AtomicPhase' = [AtomicPhase EXCEPT ![t] = Phase(l)]
BY DEF AtomicPhase, Goto, TypeOK

\* A move within a phase is not seen.
LEMMA PhaseStays ==
    ASSUME TypeOK, NEW t \in Tasks, NEW l \in Locations, Goto(t, l),
           Phase(l) = Phase(pc[t])
    PROVE  AtomicPhase' = AtomicPhase
BY DEF AtomicPhase, Goto, TypeOK

\* Both specifications use the same state machine.
LEMMA SameMachine ==
    ASSUME NEW n, NEW o, NEW k
    PROVE  /\ Atomic!Admit(n) = Admit(n)
           /\ Atomic!Proceeds(n) = Proceeds(n)
           /\ Atomic!Record(n, o) = Record(n, o)
           /\ Atomic!Aged(n) = Aged(n)
           /\ Atomic!AgedBy(n, k) = AgedBy(n, k)
BY DEF Atomic!Admit, Admit, Atomic!Proceeds, Proceeds, Atomic!Record, Record,
       Atomic!RecordFailure, RecordFailure, Atomic!RecordSuccess, RecordSuccess,
       Atomic!Aged, Aged, Atomic!AgedBy, AgedBy, Atomic!Probing, Probing,
       Atomic!OpenedNow, OpenedNow, Atomic!InitialNode, InitialNode

\* What the node was k ticks ago is one of the nodes AtomicBreaker looks at.
LEMMA PastNode ==
    ASSUME NEW n \in Node, NEW k \in 0 .. CoolDown, node = AgedBy(n, k)
    PROVE  n \in Atomic!Past
<1>1. CASE n.state = "open"
  <2>1. node = [n EXCEPT !.age = node.age] /\ node.state = "open"
    BY <1>1 DEF AgedBy, Node
  <2>2. n.age \in 0 .. node.age
    BY <1>1, PolicyAssumption DEF AgedBy, Node
  <2>3. n = [node EXCEPT !.age = n.age]
    BY <2>1 DEF Node
  <2> QED
    BY <2>1, <2>2, <2>3 DEF Atomic!Past
<1>2. CASE n.state # "open"
  BY <1>2 DEF AgedBy, Atomic!Past
<1> QED
  BY <1>1, <1>2

\* A step is atomic, hidden, or a stale store.
LEMMA AtomicStep ==
    TypedAndBounded /\ FreshCopies /\ OutcomesInUse /\ [Next]_vars
        => Overwrites \/ Atomic!Next \/ UNCHANGED Atomic!vars
<1> SUFFICES ASSUME TypedAndBounded, FreshCopies, OutcomesInUse, [Next]_vars
             PROVE  Overwrites \/ Atomic!Next \/ UNCHANGED Atomic!vars
  OBVIOUS
<1>a. TypeOK
  BY DEF TypedAndBounded
<1> DEFINE Goal == Overwrites \/ Atomic!Next \/ UNCHANGED Atomic!vars
<1> USE DEF Atomic!Enter
<1>1. ASSUME NEW t \in Tasks, Call(t)
      PROVE  Goal
  <2>1. CASE Enabled
    BY <1>1, <1>a, <2>1, PhaseStays
       DEF Call, Snapshot, Phase, Locations, Atomic!vars, AtomicPhase
  <2>2. CASE ~Enabled
    <3>1. Atomic!Forward(t)
      BY <1>1, <1>a, <2>2, PhaseMoves
         DEF Call, Phase, Locations, Atomic!Forward, AtomicPhase
    <3> QED
      BY <3>1 DEF Atomic!Next
  <2> QED
    BY <2>1, <2>2
<1>2. ASSUME NEW t \in Tasks, AdmitDecide(t) \/ RecordDecide(t)
      PROVE  UNCHANGED Atomic!vars
  BY <1>2, <1>a, PhaseStays
     DEF AdmitDecide, RecordDecide, Phase, Locations, Atomic!vars, AtomicPhase
<1>3. ASSUME NEW t \in Tasks, AdmitStore(t)
      PROVE  Goal
  <2>1. CASE t \in stale
    BY <1>3, <2>1 DEF Overwrites
  <2>2. CASE t \notin stale
    <3>1. Enabled /\ outcome[t] = "success"
      BY <1>3 DEF AdmitStore, OutcomesInUse
    <3>2. PICK n \in Node, k \in 0 .. CoolDown : BelowLimit(n) /\ DecidedFrom(t, n, k)
      BY <1>3, <2>2 DEF AdmitStore, FreshCopies
    <3>3. /\ node = AgedBy(n, k)
          /\ node' = AgedBy(Admit(n), k)
          /\ pc[t] = "admitted" <=> Proceeds(n)
      BY <1>3, <3>2 DEF DecidedFrom, AdmitStore, Store
    <3>4. AtomicPhase' = [AtomicPhase EXCEPT ![t] =
                             IF Proceeds(n) THEN "calling" ELSE "idle"]
      BY <1>3, <1>a, <3>3, PhaseMoves DEF AdmitStore, Phase, Locations
    <3>5. AtomicPhase[t] = "idle" /\ outcome' = outcome
      BY <1>3, <1>a, <3>1 DEF AdmitStore, AtomicPhase, Phase, Forget, TypeOK
    <3>6. n \in Atomic!Past /\ Atomic!Was(n, k)
      BY <3>3, PastNode, SameMachine DEF Atomic!Was
    <3>7. Atomic!AdmitCall(t)
      <4>1. node' = Atomic!AgedBy(Atomic!Admit(n), k)
        BY <3>3, SameMachine
      <4>2. AtomicPhase' = [AtomicPhase EXCEPT ![t] =
                               IF Atomic!Proceeds(n) THEN "calling" ELSE "idle"]
        BY <3>4, SameMachine
      <4> QED
        BY <3>1, <3>5, <3>6, <4>1, <4>2 DEF Atomic!AdmitCall, AtomicPhase
    <3> QED
      BY <3>7 DEF Atomic!Next
  <2> QED
    BY <2>1, <2>2
<1>4. ASSUME NEW t \in Tasks, Answer(t)
      PROVE  Goal
  <2>1. AtomicPhase[t] = "calling"
    BY <1>4 DEF Answer, AtomicPhase, Phase
  <2>2. CASE Enabled
    BY <1>4, <1>a, <2>1, <2>2, PhaseMoves
       DEF Answer, Snapshot, Phase, Locations, Atomic!Answer, AtomicPhase, Outcomes,
           classify_result, Atomic!Next
  <2>3. CASE ~Enabled
    BY <1>4, <1>a, <2>1, <2>3, PhaseMoves
       DEF Answer, Phase, Locations, Atomic!Answer, AtomicPhase, Atomic!Next
  <2> QED
    BY <2>2, <2>3
<1>5. ASSUME NEW t \in Tasks, RecordStore(t)
      PROVE  Goal
  <2>1. CASE t \in stale
    BY <1>5, <2>1 DEF Overwrites
  <2>2. CASE t \notin stale
    <3>1. PICK n \in Node, k \in 0 .. CoolDown : BelowLimit(n) /\ DecidedFrom(t, n, k)
      BY <1>5, <2>2 DEF RecordStore, FreshCopies
    <3>2. /\ node = AgedBy(n, k)
          /\ node' = AgedBy(Record(n, outcome[t]), k)
      BY <1>5, <3>1 DEF DecidedFrom, RecordStore, Store
    <3>3. /\ AtomicPhase[t] = "answered"
          /\ AtomicPhase' = [AtomicPhase EXCEPT ![t] = "idle"]
          /\ outcome' = [outcome EXCEPT ![t] = "success"]
      BY <1>5, <1>a, PhaseMoves DEF RecordStore, Forget, AtomicPhase, Phase, Locations
    <3>4. n \in Atomic!Past /\ Atomic!Was(n, k)
      BY <3>2, PastNode, SameMachine DEF Atomic!Was
    <3>5. Atomic!RecordCall(t)
      BY <3>2, <3>3, <3>4, SameMachine DEF Atomic!RecordCall, AtomicPhase
    <3> QED
      BY <3>5 DEF Atomic!Next
  <2> QED
    BY <2>1, <2>2
<1>6. ASSUME NEW t \in Tasks, Drop(t)
      PROVE  Goal
  <2>1. CASE pc[t] \in {"admitted", "denied"}
    <3>1. AtomicPhase' = AtomicPhase
      BY <1>6, <1>a, <2>1, PhaseStays DEF Drop, Phase, Locations
    <3>2. node' = node /\ outcome' = outcome
      BY <1>6, <1>a, <2>1 DEF Drop, Forget, OutcomesInUse, TypeOK
    <3> QED
      BY <3>1, <3>2 DEF Atomic!vars, AtomicPhase
  <2>2. CASE pc[t] \in {"calling", "recorded"}
    <3>1. AtomicPhase[t] \in {"calling", "answered"}
      BY <2>2 DEF AtomicPhase, Phase
    <3>2. Atomic!Drop(t)
      BY <1>6, <1>a, <3>1, PhaseMoves
         DEF Drop, Forget, Phase, Locations, Atomic!Drop, AtomicPhase
    <3> QED
      BY <3>2 DEF Atomic!Next
  <2> QED
    BY <1>6, <2>1, <2>2 DEF Drop
<1>7. ASSUME Tick
      PROVE  Goal
  <2>1. Atomic!Tick
    BY <1>7, SameMachine DEF Tick, Atomic!Tick
  <2> QED
    BY <2>1 DEF Atomic!Next
<1>8. ASSUME UNCHANGED vars
      PROVE  Goal
  BY <1>8 DEF vars, Atomic!vars
<1> QED
  BY <1>1, <1>2, <1>3, <1>4, <1>5, <1>6, <1>7, <1>8 DEF Next, Proceed

\* Initially.
LEMMA AtomicInit == Init => Atomic!Init /\ OutcomesInUse
BY DEF Init, Atomic!Init, Phase, InitialNode, Atomic!InitialNode, OutcomesInUse

\* For any number of tasks, the only steps that tell the breaker from the atomic
\* one are stores from a stale snapshot.
THEOREM RefinesUnlessStale == Spec => AtomicUnlessStale
<1>1. TypedAndBounded => TypeOK
  BY DEF TypedAndBounded
<1>2. TypedAndBounded /\ FreshCopies /\ OutcomesInUse /\ [Next]_vars
        => [Overwrites \/ Atomic!Next]_(Atomic!vars)
  BY AtomicStep
<1> QED
  BY <1>1, <1>2, AtomicInit, OutcomesInUseStep, TypedAndBoundedInit,
     TypedAndBoundedStep, FreshCopiesInit, FreshCopiesStep, PTL
     DEF Spec, AtomicUnlessStale

-----------------------------------------------------------------------------
(***************************************************************************)
(* Calls that do not overlap.  With one task a snapshot is never stale.    *)
(***************************************************************************)
NeverStale == stale = {} /\ ~raced

\* A single task overtakes nobody.
LEMMA NeverStaleStep ==
    ASSUME Serial
    PROVE  NeverStale /\ [Next]_vars => NeverStale'
<1> SUFFICES ASSUME NeverStale, [Next]_vars
             PROVE  NeverStale'
  OBVIOUS
<1>1. ASSUME NEW t \in Tasks, AdmitStore(t) \/ RecordStore(t)
      PROVE  NeverStale'
  BY <1>1 DEF AdmitStore, RecordStore, Store, Note, NeverStale, Serial
<1>2. CASE stale' \subseteq stale /\ raced' = raced
  BY <1>2 DEF NeverStale
<1> QED
  BY <1>1, <1>2
     DEF Next, Proceed, Call, AdmitDecide, Answer, RecordDecide, Drop, Tick, vars,
         histories

\* Initially.
LEMMA NeverStaleInit == Init => NeverStale
BY DEF Init, NeverStale

\* When calls do not overlap, every behaviour of the breaker is one of the
\* atomic breaker: admit and record look like single steps.
THEOREM SerialRefinesAtomic == ASSUME Serial PROVE Spec => IsAtomic
<1>1. TypedAndBounded => TypeOK
  BY DEF TypedAndBounded
<1>2. TypedAndBounded /\ FreshCopies /\ OutcomesInUse /\ NeverStale /\ [Next]_vars
        => [Atomic!Next]_(Atomic!vars)
  BY AtomicStep DEF NeverStale, Overwrites
<1> QED
  BY <1>1, <1>2, AtomicInit, OutcomesInUseStep, TypedAndBoundedInit,
     TypedAndBoundedStep, FreshCopiesInit, FreshCopiesStep, NeverStaleInit,
     NeverStaleStep, PTL
     DEF Spec, IsAtomic, Atomic!Spec

\* When calls do not overlap, no step takes the circuit out of Open before it
\* has cooled down.
THEOREM SerialStaysOpen == ASSUME Serial PROVE Spec => StaysOpen
<1>1. TypedAndBounded /\ FreshCopies /\ NeverStale /\ [Next]_vars
        => [node.state = "open" /\ node.age < CoolDown => node'.state = "open"]_vars
  <2> SUFFICES ASSUME TypedAndBounded, FreshCopies, NeverStale, Next,
                      node.state = "open", node.age < CoolDown
               PROVE  node'.state = "open"
    OBVIOUS
  <2>1. ASSUME NEW t \in Tasks, AdmitStore(t) \/ RecordStore(t)
        PROVE  node'.state = "open"
    <3>1. PICK n \in Node, k \in 0 .. CoolDown : BelowLimit(n) /\ DecidedFrom(t, n, k)
      BY <2>1 DEF AdmitStore, RecordStore, FreshCopies, NeverStale
    <3>2. n.state = "open" /\ n.age < CoolDown
      BY <3>1, PolicyAssumption DEF DecidedFrom, AgedBy, Node
    <3>3. Admit(n) = n /\ Record(n, outcome[t]) = n
      BY <3>2, PolicyAssumption
         DEF Admit, Proceeds, Record, RecordFailure, RecordSuccess, Node
    <3>4. node' = AgedBy(n, k)
      BY <2>1, <3>1, <3>3 DEF DecidedFrom, AdmitStore, RecordStore, Store
    <3> QED
      BY <3>2, <3>4, AgedByNode
  <2>2. CASE Tick
    BY <2>2, AgedNode DEF Tick, TypedAndBounded, TypeOK
  <2>3. CASE UNCHANGED node
    BY <2>3
  <2> QED
    BY <2>1, <2>2, <2>3
       DEF Next, Proceed, Call, Snapshot, AdmitDecide, Answer, RecordDecide, Drop
<1> QED
  BY <1>1, TypedAndBoundedInit, TypedAndBoundedStep, FreshCopiesInit,
     FreshCopiesStep, NeverStaleInit, NeverStaleStep, PTL
     DEF Spec, StaysOpen

\* When calls do not overlap, a closed circuit has counted every consecutive
\* failure, so it opens with the one that reaches failure_threshold.
THEOREM SerialTrips == ASSUME Serial PROVE Spec => []TripsAtThreshold
<1>1. TypedAndBounded /\ NeverStale /\ CountsConsecutive => TripsAtThreshold
  BY DEF TypedAndBounded, CountersBelowLimits, BelowLimit, NeverStale,
         CountsConsecutive, TripsAtThreshold
<1> QED
  BY <1>1, TypedAndBoundedInit, TypedAndBoundedStep, NeverStaleInit, NeverStaleStep,
     CountIsExact, PTL
     DEF Spec
=============================================================================
