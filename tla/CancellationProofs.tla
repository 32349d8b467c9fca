------------------------- MODULE CancellationProofs -------------------------
(***************************************************************************)
(* Proofs about Cancellation and the Endpoints under it, for any callers,  *)
(* any of them bound to the signal, any backends and any errors.           *)
(***************************************************************************)
EXTENDS Cancellation, FiniteSetTheorems, TLAPS

(***************************************************************************)
(* The inductive invariant of the endpoints.  SoundIsServed needs to know  *)
(* that an answer on its way could have come from the backend it is        *)
(* reported for; FaultsBounded that the pool avoids exactly the backends   *)
(* with a failure on record, so that none of them is picked.               *)
(***************************************************************************)
AnswersFit == \A c \in Callers : pc[c] = "ready" => answer[c] \in ResultsOf(pick[c])

FaultsOnRecord ==
    \A b \in Backends : faults[b] > 0 <=> (balancing # "none" /\ b \in avoided)

PoolInv ==
    /\ EndpointsTypeOK
    /\ AnswersFit
    /\ avoided \cap sound = {}
    /\ FaultsOnRecord

\* All that a step of a view shows to the endpoints.
shared == <<setup, avoided, pc, pick, answer, faults>>

-----------------------------------------------------------------------------
\* What a caller can be given.
LEMMA GivenResults ==
    /\ {NoResult, Dropped, Cancelled, Answered} \subseteq Given
    /\ {Cancelled, Answered, refuse("Unavailable")} \subseteq CallResults
    /\ CallResults \subseteq Given
    /\ NoResult \notin CallResults /\ Dropped \notin CallResults
BY DEF Given, NoResult, Dropped, Cancelled, refuse, CallResults, CallError, Answered,
       Status, Transport, Codec, StatusCode

\* A set of backends that is not empty has a first one.
LEMMA FirstIsIn ==
    ASSUME NEW S \in SUBSET Backends, S # {}
    PROVE  FirstOf(S) \in S
BY EndpointsAssumption DEF FirstOf

\* A pick is a backend, and a pool picks none that it avoids.
LEMMA PicksAreBackends ==
    ASSUME EndpointsTypeOK
    PROVE  /\ Picks \subseteq Backends
           /\ balancing # "none" => Picks \subseteq Healthy
           /\ balancing = "none" \/ Healthy # {} => Picks # {}
<1>1. Backends # {} /\ Healthy \subseteq Backends
  BY EndpointsAssumption DEF Healthy
<1>2. FirstOf(Backends) \in Backends
  BY <1>1, FirstIsIn
<1>3. Healthy # {} => FirstOf(Healthy) \in Healthy
  BY <1>1, FirstIsIn
<1> QED
  BY <1>1, <1>2, <1>3 DEF Picks, Select

\* The engine's errors are errors, and those of a lost call are its own.
LEMMA FatesDiffer ==
    /\ Errors \subseteq CallError
    /\ LostErrors \cap ({Answered} \cup PeerErrors \cup LocalErrors) = {}
BY EngineAssumption DEF Errors, CallError, Status, Transport, Codec, Answered

\* judge_outcome finds a backend at fault exactly when the call was lost with it.
LEMMA JudgedByFate ==
    ASSUME NEW r \in {Answered} \cup Errors
    PROVE  judge_outcome(r) = IF r \in LostErrors THEN "failure" ELSE "success"
<1>1. CASE r \in LostErrors
  BY <1>1, EngineAssumption DEF judge_outcome, Status, Transport
<1>2. CASE r \in PeerErrors
  BY <1>2, EngineAssumption, FatesDiffer DEF judge_outcome, Status
<1>3. CASE r \in LocalErrors
  BY <1>3, EngineAssumption, FatesDiffer DEF judge_outcome, Codec, Transport
<1>4. CASE r = Answered
  BY <1>4, FatesDiffer DEF judge_outcome, Answered
<1> QED
  BY <1>1, <1>2, <1>3, <1>4 DEF Errors

\* Zero is no backend.
LEMMA NoPickIsNone == NoPick \notin Backends
BY EndpointsAssumption DEF NoPick

\* Initially.
LEMMA PoolInvInit == EndpointsInit => PoolInv
<1> SUFFICES ASSUME EndpointsInit
             PROVE  PoolInv
  OBVIOUS
<1>1. EndpointsTypeOK
  BY GivenResults DEF EndpointsInit, EndpointsTypeOK, InFlight
<1>2. AnswersFit /\ FaultsOnRecord /\ avoided \cap sound = {}
  BY DEF EndpointsInit, AnswersFit, FaultsOnRecord
<1> QED
  BY <1>1, <1>2 DEF PoolInv

\* A call begins.
LEMMA PickStep ==
    ASSUME PoolInv, NEW c \in Callers, Pick(c)
    PROVE  PoolInv'
<1>a. EndpointsTypeOK /\ AnswersFit /\ FaultsOnRecord /\ avoided \cap sound = {}
  BY DEF PoolInv
<1>1. PICK b \in Backends : pick' = [pick EXCEPT ![c] = b]
  BY <1>a, PicksAreBackends DEF Pick
<1>2. EndpointsTypeOK'
  BY <1>a, <1>1, NoPickIsNone, GivenResults DEF Pick, EndpointsTypeOK, InFlight, setup
<1>3. AnswersFit'
  BY <1>a, <1>1 DEF Pick, AnswersFit, ResultsOf, EndpointsTypeOK, setup
<1>4. FaultsOnRecord' /\ (avoided \cap sound)' = {}
  BY <1>a DEF Pick, FaultsOnRecord, setup
<1> QED
  BY <1>2, <1>3, <1>4 DEF PoolInv

\* The result of a call comes in.
LEMMA ArriveStep ==
    ASSUME PoolInv, NEW c \in Callers, NEW r \in CallResults, Arrive(c, r)
    PROVE  PoolInv'
<1>a. EndpointsTypeOK /\ AnswersFit /\ FaultsOnRecord /\ avoided \cap sound = {}
  BY DEF PoolInv
<1>1. EndpointsTypeOK'
  BY <1>a, GivenResults DEF Arrive, EndpointsTypeOK, InFlight, setup
<1>2. AnswersFit'
  BY <1>a DEF Arrive, AnswersFit, ResultsOf, EndpointsTypeOK, setup
<1>3. FaultsOnRecord' /\ (avoided \cap sound)' = {}
  BY <1>a DEF Arrive, FaultsOnRecord, setup
<1> QED
  BY <1>1, <1>2, <1>3 DEF PoolInv

\* A call is left, whatever for.
LEMMA LeaveTyped ==
    ASSUME EndpointsTypeOK, AnswersFit, NEW c \in Callers, NEW given \in Given,
           Leave(c, given), (avoided \in SUBSET Backends /\ faults \in [Backends -> Nat])'
    PROVE  EndpointsTypeOK' /\ AnswersFit'
<1>1. EndpointsTypeOK'
  BY NoPickIsNone DEF Leave, EndpointsTypeOK, InFlight, setup
<1>2. AnswersFit'
  BY DEF Leave, AnswersFit, ResultsOf, EndpointsTypeOK, setup
<1> QED
  BY <1>1, <1>2

\* A call is dropped or cancelled.
LEMMA AbandonStep ==
    ASSUME PoolInv, NEW c \in Callers, NEW given \in Given, Abandon(c, given)
    PROVE  PoolInv'
<1>1. EndpointsTypeOK' /\ AnswersFit'
  BY LeaveTyped DEF PoolInv, Abandon, EndpointsTypeOK
<1>2. FaultsOnRecord' /\ (avoided \cap sound)' = {}
  BY DEF PoolInv, Abandon, Leave, FaultsOnRecord, setup
<1> QED
  BY <1>1, <1>2 DEF PoolInv

\* A call returns and its backend is reported.  A failure is held against the
\* backend exactly when the backend is gone or late, which a sound one is not.
LEMMA ReturnStep ==
    ASSUME PoolInv, NEW c \in Callers, Return(c)
    PROVE  PoolInv'
<1>a. EndpointsTypeOK /\ AnswersFit /\ FaultsOnRecord /\ avoided \cap sound = {}
  BY DEF PoolInv
<1>b. /\ pick[c] \in Backends /\ answer[c] \in CallResults
      /\ answer[c] \in ResultsOf(pick[c])
      /\ faults \in [Backends -> Nat]
  BY <1>a DEF Return, EndpointsTypeOK, AnswersFit, InFlight
<1>c. judge_outcome(answer[c]) = IF answer[c] \in LostErrors THEN "failure" ELSE "success"
  BY <1>b, JudgedByFate DEF ResultsOf, Errors
<1>d. pick[c] \in sound => answer[c] \notin LostErrors
  BY <1>b, FatesDiffer DEF ResultsOf
<1>e. UNCHANGED setup
  BY DEF Return, Leave
<1>1. CASE balancing = "none"
  <2>1. UNCHANGED <<avoided, faults>>
    BY <1>1 DEF Return, report
  <2>2. EndpointsTypeOK' /\ AnswersFit'
    BY <1>a, <1>b, <2>1, LeaveTyped, GivenResults DEF Return, EndpointsTypeOK
  <2>3. FaultsOnRecord' /\ (avoided \cap sound)' = {}
    BY <1>a, <1>e, <2>1 DEF FaultsOnRecord, setup
  <2> QED
    BY <2>2, <2>3 DEF PoolInv
<1>2. CASE balancing # "none"
  <2>1. /\ avoided' = IF answer[c] \in LostErrors THEN avoided \cup {pick[c]} ELSE avoided \ {pick[c]}
        /\ faults' = [faults EXCEPT ![pick[c]] = IF answer[c] \in LostErrors THEN @ + 1 ELSE 0]
    BY <1>2, <1>c DEF Return, report, report_outcome
  <2>2. avoided' \in SUBSET Backends /\ faults' \in [Backends -> Nat]
    BY <1>a, <1>b, <2>1 DEF EndpointsTypeOK
  <2>3. EndpointsTypeOK' /\ AnswersFit'
    BY <1>a, <1>b, <2>2, LeaveTyped, GivenResults DEF Return
  <2>4. (avoided \cap sound)' = {}
    BY <1>a, <1>d, <1>e, <2>1 DEF setup
  <2>5. FaultsOnRecord'
    BY <1>a, <1>b, <1>e, <1>2, <2>1 DEF FaultsOnRecord, setup
  <2> QED
    BY <2>3, <2>4, <2>5 DEF PoolInv
<1> QED
  BY <1>1, <1>2

\* A call is refused, or only what callers were given changes.
LEMMA GivenStep ==
    ASSUME PoolInv, UNCHANGED shared, last' \in [Callers -> Given]
    PROVE  PoolInv'
<1>1. EndpointsTypeOK'
  BY DEF PoolInv, EndpointsTypeOK, InFlight, shared, setup
<1>2. AnswersFit' /\ FaultsOnRecord' /\ (avoided \cap sound)' = {}
  BY DEF PoolInv, AnswersFit, FaultsOnRecord, ResultsOf, shared, setup
<1> QED
  BY <1>1, <1>2 DEF PoolInv

\* Every step of the endpoints, or of a view over them.
LEMMA PoolInvStep ==
    ASSUME PoolInv, EndpointsNext \/ (UNCHANGED shared /\ last' \in [Callers -> Given])
    PROVE  PoolInv'
<1>1. ASSUME NEW c \in Callers, Refuse(c)
      PROVE  PoolInv'
  <2>1. last' \in [Callers -> Given] /\ UNCHANGED shared
    BY <1>1, GivenResults DEF Refuse, PoolInv, EndpointsTypeOK, shared
  <2> QED
    BY <2>1, GivenStep
<1> QED
  BY <1>1, PickStep, ArriveStep, AbandonStep, ReturnStep, GivenStep DEF EndpointsNext

-----------------------------------------------------------------------------
(***************************************************************************)
(* The views: every step of theirs is a step of the endpoints, or changes  *)
(* nothing of the endpoints but what a caller was given.                   *)
(***************************************************************************)
LEMMA ViewStep ==
    ASSUME EndpointsTypeOK, [Next]_vars
    PROVE  EndpointsNext \/ (UNCHANGED shared /\ last' \in [Callers -> Given])
<1>a. last \in [Callers -> Given]
  BY DEF EndpointsTypeOK
<1>1. CASE UNCHANGED vars \/ Fire
  BY <1>1, <1>a DEF vars, Fire, endpointVars, shared
<1>2. ASSUME NEW c \in Callers,
             \/ Begin(c) \/ (\E r \in CallResults : Deliver(c, r))
             \/ Finish(c) \/ FinishCancelled(c) \/ DropCall(c)
      PROVE  EndpointsNext
  BY <1>2, GivenResults
     DEF Begin, Deliver, Finish, FinishCancelled, DropCall, EndpointsNext
<1>3. ASSUME NEW c \in Callers,
             BeginCancelled(c) \/ BeginRead(c) \/ ReadCancelled(c)
      PROVE  UNCHANGED shared /\ last' \in [Callers -> Given]
  BY <1>3, <1>a, GivenResults DEF BeginCancelled, BeginRead, ReadCancelled, NoCall, shared
<1>4. ASSUME NEW c \in Callers, FinishRead(c)
      PROVE  UNCHANGED shared /\ last' \in [Callers -> Given]
  <2>1. {Answered} \cup Errors \subseteq Given
    BY GivenResults, FatesDiffer DEF CallResults
  <2> QED
    BY <1>4, <1>a, <2>1 DEF FinishRead, NoCall, shared
<1>5. ASSUME NEW c \in Callers, DeliverRead(c) \/ DropRead(c) \/ DropStream(c)
      PROVE  UNCHANGED shared /\ last' \in [Callers -> Given]
  BY <1>5, <1>a DEF DeliverRead, DropRead, DropStream, endpointVars, shared
<1> QED
  BY <1>1, <1>2, <1>3, <1>4, <1>5 DEF Next

\* The variables of the views keep their types.
LEMMA ViewTyped ==
    ASSUME TypeOK, [Next]_vars, EndpointsTypeOK'
    PROVE  TypeOK'
<1>1. CASE UNCHANGED vars
  BY <1>1 DEF vars, TypeOK
<1>2. CASE Fire
  BY <1>2, Zenon DEF Fire, TypeOK
<1>3. ASSUME NEW c \in Callers,
             \/ Begin(c) \/ (\E r \in CallResults : Deliver(c, r))
             \/ DropCall(c) \/ Finish(c) \/ BeginRead(c) \/ DeliverRead(c)
             \/ FinishRead(c) \/ DropRead(c) \/ DropStream(c)
      PROVE  TypeOK'
  BY <1>3 DEF Begin, Deliver, DropCall, Finish, BeginRead, DeliverRead, FinishRead,
              DropRead, DropStream, TypeOK
<1>4. ASSUME NEW c \in Callers,
             BeginCancelled(c) \/ FinishCancelled(c) \/ ReadCancelled(c)
      PROVE  TypeOK'
  BY <1>4 DEF BeginCancelled, FinishCancelled, ReadCancelled, Stops, TypeOK
<1> QED
  BY <1>1, <1>2, <1>3, <1>4 DEF Next

CallsInv == TypeOK /\ PoolInv

LEMMA CallsInvInit == Init => CallsInv
BY PoolInvInit DEF Init, CallsInv, TypeOK, PoolInv

LEMMA CallsInvStep == CallsInv /\ [Next]_vars => CallsInv'
<1> SUFFICES ASSUME CallsInv, [Next]_vars
             PROVE  CallsInv'
  OBVIOUS
<1>1. PoolInv'
  BY ViewStep, PoolInvStep DEF CallsInv, TypeOK
<1>2. TypeOK'
  BY <1>1, ViewTyped DEF CallsInv, PoolInv
<1> QED
  BY <1>1, <1>2 DEF CallsInv

LEMMA CallsInvHolds == Spec => []CallsInv
BY CallsInvInit, CallsInvStep, PTL DEF Spec

\* The variables of the endpoints and of the views over them keep their types:
\* in particular a caller has a backend exactly while its call is out.
THEOREM CallsTypeCorrect == Spec => []TypeOK
<1>1. CallsInv => TypeOK
  BY DEF CallsInv
<1> QED
  BY <1>1, CallsInvHolds, PTL

\* A backend that is reachable and in time is never put aside by the pool of
\* EndpointTransport, whatever callers, cancelled calls and its neighbours do.
THEOREM CallsSoundIsServed == Spec => []SoundIsServed
<1>1. CallsInv => SoundIsServed
  <2> SUFFICES ASSUME CallsInv
               PROVE  SoundIsServed
    OBVIOUS
  <2>1. avoided \cap sound = {} /\ sound \subseteq Backends /\ EndpointsTypeOK
    BY DEF CallsInv, PoolInv, EndpointsTypeOK
  <2>2. sound # {} => Healthy # {}
    BY <2>1 DEF Healthy
  <2> QED
    BY <2>1, <2>2, PicksAreBackends DEF SoundIsServed
<1> QED
  BY <1>1, CallsInvHolds, PTL

\* For the pool, a view only drops calls: what CancellableTransport does to
\* its calls is what EndpointTransport allows any caller to do.
THEOREM CallsEndpointRules == Spec => EndpointRules
<1>1. Init => EndpointsInit
  BY DEF Init
<1>2. CallsInv /\ [Next]_vars => [EndpointsNext]_shared
  BY ViewStep DEF CallsInv, TypeOK
<1>3. shared = <<setup, avoided, pc, pick, answer, faults>>
  BY DEF shared
<1> QED
  BY <1>1, <1>2, <1>3, CallsInvHolds, PTL DEF Spec, EndpointRules, shared

\* Once a caller was told of the signal, every caller bound to it gets
\* Cancelled from whatever ends later: a signal that has fired stays fired, and
\* the biased select! asks it before the call and before the read.
THEOREM CallsCancelledIsFinal == Spec => CancelledIsFinal
<1> DEFINE Final == told => \A c \in Bound :
                        last'[c] # last[c] => last'[c] \in {Cancelled, Dropped}
<1>1. ASSUME CallsInv, [Next]_vars, told, NEW b \in Bound, last'[b] # last[b]
      PROVE  last'[b] \in {Cancelled, Dropped}
  <2>a. fired /\ last \in [Callers -> Given] /\ b \in Callers /\ Stops(b)
    BY <1>1, CancellationAssumption DEF CallsInv, TypeOK, EndpointsTypeOK, Stops
  <2>1. CASE UNCHANGED vars \/ Fire
    BY <1>1, <2>1 DEF vars, Fire, endpointVars
  <2>2. ASSUME NEW c \in Callers,
               Begin(c) \/ Finish(c) \/ BeginRead(c) \/ FinishRead(c)
        PROVE  FALSE
    <3>1. c # b
      BY <2>2, <2>a DEF Begin, Finish, BeginRead, FinishRead, GoesOn
    <3>2. last'[b] = last[b]
      BY <2>2, <2>a, <3>1 DEF Begin, Pick, Refuse, Finish, Return, Leave, BeginRead, FinishRead
    <3> QED
      BY <1>1, <3>2
  <2>3. ASSUME NEW c \in Callers,
               BeginCancelled(c) \/ FinishCancelled(c) \/ ReadCancelled(c) \/ DropCall(c)
        PROVE  last'[b] \in {Cancelled, Dropped}
    BY <1>1, <2>3, <2>a
       DEF BeginCancelled, FinishCancelled, ReadCancelled, DropCall, Abandon, Leave
  <2>4. ASSUME NEW c \in Callers,
               \/ (\E r \in CallResults : Deliver(c, r))
               \/ DeliverRead(c) \/ DropRead(c) \/ DropStream(c)
        PROVE  FALSE
    BY <1>1, <2>4 DEF Deliver, Arrive, DeliverRead, DropRead, DropStream, endpointVars
  <2> QED
    BY <1>1, <2>1, <2>2, <2>3, <2>4 DEF Next
<1>2. CallsInv /\ [Next]_vars => [Final]_vars
  BY <1>1
<1> QED
  BY <1>2, CallsInvHolds, PTL DEF Spec, CancelledIsFinal

-----------------------------------------------------------------------------
(***************************************************************************)
(* A backend that is gone costs each caller one call at most.              *)
(***************************************************************************)
Out(b) == {c \in Callers : pick[c] = b}

\* The calls that are out to a backend are finitely many, and no more than the
\* callers.
LEMMA OutIsBounded ==
    ASSUME NEW S \in SUBSET Callers
    PROVE  /\ IsFiniteSet(S) /\ IsFiniteSet(Callers)
           /\ Cardinality(S) \in Nat /\ Cardinality(Callers) \in Nat
           /\ Cardinality(S) <= Cardinality(Callers)
BY EndpointsAssumption, FS_Subset, FS_CardinalityType

Within(b) ==
    faults[b] > 0 => faults[b] + Cardinality(Out(b)) <= Cardinality(Callers)

\* Every step keeps the bound, for each backend.
LEMMA WithinStep ==
    ASSUME PoolInv, NEW b \in Backends, Within(b),
           EndpointsNext \/ UNCHANGED shared
    PROVE  Within(b)'
<1>a. EndpointsTypeOK /\ FaultsOnRecord /\ faults \in [Backends -> Nat]
  BY DEF PoolInv, EndpointsTypeOK
<1>b. NoPick # b /\ pick \in [Callers -> Backends \cup {NoPick}]
  BY <1>a, NoPickIsNone DEF EndpointsTypeOK
<1>c. Out(b) \in SUBSET Callers /\ Out(b)' \in SUBSET Callers
  BY DEF Out
<1>d. /\ Cardinality(Out(b)) \in Nat /\ Cardinality(Out(b)') \in Nat
      /\ Cardinality(Callers) \in Nat /\ Cardinality(Out(b)) <= Cardinality(Callers)
      /\ IsFiniteSet(Out(b))
  BY <1>c, OutIsBounded
<1>1. CASE UNCHANGED shared
  BY <1>1 DEF shared, Within, Out
<1>2. ASSUME NEW c \in Callers, Pick(c)
      PROVE  Within(b)'
  <2>1. PICK p \in Picks : pick' = [pick EXCEPT ![c] = p]
    BY <1>2 DEF Pick
  <2>2. UNCHANGED faults
    BY <1>2 DEF Pick
  <2>3. CASE p = b
    <3>1. faults[b] = 0
      BY <1>a, <2>1, <2>3, PicksAreBackends DEF FaultsOnRecord, Healthy
    <3> QED
      BY <2>2, <3>1 DEF Within
  <2>4. CASE p # b
    <3>1. Out(b)' \subseteq Out(b)
      BY <1>b, <2>1, <2>4 DEF Out
    <3>2. Cardinality(Out(b)') <= Cardinality(Out(b))
      BY <1>d, <3>1, FS_Subset
    <3> QED
      BY <1>a, <1>d, <2>2, <3>2 DEF Within
  <2> QED
    BY <2>3, <2>4
<1>3. ASSUME NEW c \in Callers, Refuse(c) \/ \E r \in CallResults : Arrive(c, r)
      PROVE  Within(b)'
  BY <1>3 DEF Refuse, Arrive, Within, Out
<1>4. ASSUME NEW c \in Callers, NEW given \in Given, Leave(c, given)
      PROVE  /\ Out(b)' = Out(b) \ {c}
             /\ Cardinality(Out(b)') =
                   IF pick[c] = b THEN Cardinality(Out(b)) - 1 ELSE Cardinality(Out(b))
  <2>1. Out(b)' = Out(b) \ {c}
    BY <1>b, <1>4 DEF Leave, Out
  <2>2. c \in Out(b) <=> pick[c] = b
    BY DEF Out
  <2> QED
    BY <1>d, <2>1, <2>2, FS_RemoveElement
<1>5. ASSUME NEW c \in Callers, NEW given \in Given, Abandon(c, given)
      PROVE  Within(b)'
  <2>1. Cardinality(Out(b)') <= Cardinality(Out(b)) /\ UNCHANGED faults
    BY <1>4, <1>5, <1>d DEF Abandon
  <2> QED
    BY <1>a, <1>d, <2>1 DEF Within
<1>6. ASSUME NEW c \in Callers, Return(c)
      PROVE  Within(b)'
  <2>1. answer[c] \in Given /\ pick[c] \in Backends
    BY <1>6, <1>a, GivenResults DEF Return, EndpointsTypeOK, InFlight
  <2>2. Cardinality(Out(b)') =
            IF pick[c] = b THEN Cardinality(Out(b)) - 1 ELSE Cardinality(Out(b))
    BY <1>4, <1>6, <2>1 DEF Return
  <2>3. faults'[b] \in {faults[b], 0} \/ (pick[c] = b /\ faults'[b] = faults[b] + 1)
    BY <1>6, <1>a, <2>1 DEF Return
  <2>4. faults[b] = 0 \/ faults[b] + Cardinality(Out(b)) <= Cardinality(Callers)
    BY <1>a DEF Within
  <2> QED
    BY <1>a, <1>d, <2>2, <2>3, <2>4 DEF Within
<1> QED
  BY <1>1, <1>2, <1>3, <1>5, <1>6 DEF EndpointsNext

\* A backend that is gone fails one call of each caller at most before the
\* pool leaves it alone, in whatever order the calls end.
THEOREM CallsFaultsBounded == Spec => []FaultsBounded
<1> DEFINE AllWithin == \A b \in Backends : Within(b)
<1>1. Init => AllWithin
  BY DEF Init, EndpointsInit, Within
<1>2. CallsInv /\ AllWithin /\ [Next]_vars => AllWithin'
  <2> SUFFICES ASSUME CallsInv, AllWithin, [Next]_vars, NEW b \in Backends
               PROVE  Within(b)'
    OBVIOUS
  <2> QED
    BY ViewStep, WithinStep DEF CallsInv, TypeOK
<1>3. AllWithin => FaultsBounded
  BY DEF Within, Out, FaultsBounded
<1> HIDE DEF AllWithin
<1> QED
  BY <1>1, <1>2, <1>3, CallsInvHolds, PTL DEF Spec
=============================================================================
