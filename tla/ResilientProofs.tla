--------------------------- MODULE ResilientProofs ---------------------------
(***************************************************************************)
(* Proofs about the policies of a Resilient client, for any settings in    *)
(* any number, from every source.                                          *)
(***************************************************************************)
EXTENDS Resilient, TLAPS

(***************************************************************************)
(* The inductive invariant: a config passed the rules of both policies and *)
(* of the provider, whichever way it came, and still says what was         *)
(* written.                                                                *)
(***************************************************************************)
\* v and w say the same.
SameFields(v, w) == \A f \in Fields : v[f] = w[f]

PolicyInv ==
    /\ stage = "config" =>
          SameFields(config, draft) /\ retry_try_new(config) /\ breaker_try_new(config)
    /\ SettingsReachClients
    /\ ObtainableBuilds

-----------------------------------------------------------------------------
\* What the conversions of the provider keep.
LEMMA PartsKeep ==
    ASSUME NEW v
    PROVE  /\ \A f \in RetryFields : to_retry_config(v)[f] = v[f]
           /\ to_breaker_config(v).enabled = v.breaker_enabled
           /\ \A f \in BreakerFields \ {"breaker_enabled"} : to_breaker_config(v)[f] = v[f]
BY DEF to_retry_config, to_breaker_config, RetryFields, BreakerFields

\* A config that is split into two policies and put together says the same.
LEMMA SplitAndJoined ==
    ASSUME NEW v
    PROVE  SameFields(from_policies(to_retry_config(v), to_breaker_config(v)), v)
BY DEF SameFields, from_policies, to_retry_config, to_breaker_config, Fields, RetryFields,
       BreakerFields

\* The rules read nothing but the fields of their own policy.
LEMMA RulesOfParts ==
    ASSUME NEW v
    PROVE  /\ retry_try_new(to_retry_config(v)) <=> retry_try_new(v)
           /\ breaker_try_new(to_breaker_config(v)) <=> breaker_try_new(v)
           /\ breaker_validate(to_breaker_config(v)) <=> breaker_try_new(v)
BY DEF retry_try_new, breaker_try_new, breaker_validate, to_retry_config, to_breaker_config

\* And they read them alike.
LEMMA RulesOfSame ==
    ASSUME NEW v, NEW w, SameFields(v, w)
    PROVE  /\ retry_try_new(v) <=> retry_try_new(w)
           /\ breaker_try_new(v) <=> breaker_try_new(w)
           /\ validate(v) <=> validate(w)
BY DEF SameFields, Fields, RetryFields, BreakerFields, retry_try_new, breaker_try_new, validate

\* What both policies accept, the provider of a ResilienceConfig accepts.
LEMMA ProviderIsNoStricter ==
    ASSUME NEW v, retry_try_new(v), breaker_try_new(v)
    PROVE  validate(v)
BY DEF retry_try_new, breaker_try_new, validate

\* The providers of the two policies repeat the rules of try_new.
LEMMA ProvidersRepeat ==
    ASSUME NEW v
    PROVE  /\ retry_validate(v) <=> retry_try_new(v)
           /\ breaker_validate(v) <=> breaker_try_new(v)
BY DEF retry_validate, retry_try_new, breaker_validate, breaker_try_new

\* Initially.
LEMMA PolicyInvInit == ResilientInit => PolicyInv
BY DEF ResilientInit, PolicyInit, PolicyInv, SettingsReachClients, ObtainableBuilds

\* A field is written.
LEMMA WriteStep ==
    ASSUME PolicyInv, NEW f, NEW v, Write(f, v)
    PROVE  PolicyInv'
BY DEF Write, PolicyInv, SettingsReachClients, ObtainableBuilds

\* The settings are loaded or refused.
LEMMA LoadStep ==
    ASSUME PolicyInv, Load
    PROVE  PolicyInv'
<1> DEFINE made == from_policies(to_retry_config(draft), to_breaker_config(draft))
<1>1. SameFields(made, draft)
  BY SplitAndJoined
<1>2. /\ stage' \in {"config", "refused"}
      /\ stage' = "config" => config' = made /\ Accepts(source)
      /\ UNCHANGED <<draft, retry, breaker>>
  BY DEF Load, RetryPart, BreakerPart
<1>3. Accepts(source) => retry_try_new(draft) /\ breaker_try_new(draft)
  BY RulesOfParts
     DEF Accepts, ResilienceLoads, RetryLoads, BreakerLoads, RetryPart, BreakerPart
<1>4. stage' = "config" =>
          SameFields(config', draft') /\ retry_try_new(config') /\ breaker_try_new(config')
  <2> HIDE DEF made
  <2> QED
    BY <1>1, <1>2, <1>3, RulesOfSame
<1> QED
  BY <1>2, <1>4 DEF PolicyInv, SettingsReachClients, ObtainableBuilds

\* The factory builds the client.
LEMMA BuildStep ==
    ASSUME PolicyInv, Build
    PROVE  PolicyInv'
<1>1. /\ stage = "config" /\ SameFields(config, draft)
      /\ retry_try_new(config) /\ breaker_try_new(config)
  BY DEF Build, PolicyInv
<1>2. /\ validate(config) /\ retry_try_new(to_retry_config(config))
      /\ breaker_try_new(to_breaker_config(config))
      /\ breaker_validate(to_breaker_config(config))
  BY <1>1, ProviderIsNoStricter, RulesOfParts
<1>3. /\ stage' = "built" /\ draft' = draft
      /\ retry' = to_retry_config(config) /\ breaker' = to_breaker_config(config)
  BY <1>1, <1>2 DEF Build
<1>4. SettingsReachClients'
  <2>1. \A f \in RetryFields : retry'[f] = draft'[f]
    BY <1>1, <1>3, PartsKeep DEF SameFields, Fields
  <2>2. breaker'.enabled = draft'.breaker_enabled
    BY <1>1, <1>3, PartsKeep DEF SameFields, Fields, BreakerFields
  <2>3. \A f \in BreakerFields \ {"breaker_enabled"} : breaker'[f] = draft'[f]
    BY <1>1, <1>3, PartsKeep DEF SameFields, Fields
  <2> QED
    BY <2>1, <2>2, <2>3 DEF SettingsReachClients
<1> QED
  BY <1>1, <1>3, <1>4 DEF PolicyInv, ObtainableBuilds

\* Every step keeps the invariant.
LEMMA PolicyInvStep == PolicyInv /\ [ResilientNext]_resilientVars => PolicyInv'
<1> SUFFICES ASSUME PolicyInv, [ResilientNext]_resilientVars
             PROVE  PolicyInv'
  OBVIOUS
<1>1. CASE UNCHANGED policyVars
  BY <1>1 DEF policyVars, PolicyInv, SettingsReachClients, ObtainableBuilds
<1>2. CASE ConfigureClient
  BY <1>2, WriteStep, LoadStep, BuildStep DEF ConfigureClient, Configure
<1>3. CASE TakeIntoUse
  BY <1>3 DEF TakeIntoUse, PolicyInv, SettingsReachClients, ObtainableBuilds
<1> QED
  BY <1>1, <1>2, <1>3
     DEF ResilientNext, resilientVars, Begin, Reject, Attempt, Finish, Tick, Unused

LEMMA PolicyInvHolds == ResilientSpec => []PolicyInv
BY PolicyInvInit, PolicyInvStep, PTL DEF ResilientSpec

\* A ResilienceConfig that can be obtained builds: StdGrpcResilientFactory
\* refuses nothing that the providers and the builder let through.
THEOREM ResilientObtainableBuilds == ResilientSpec => []ObtainableBuilds
<1>1. PolicyInv => ObtainableBuilds
  BY DEF PolicyInv
<1> QED
  BY <1>1, PolicyInvHolds, PTL

\* What was written reaches the two decorators, field by field, through
\* TryFrom, from_policies, to_retry_config and to_breaker_config.
THEOREM ResilientSettingsReachClients == ResilientSpec => []SettingsReachClients
<1>1. PolicyInv => SettingsReachClients
  BY DEF PolicyInv
<1> QED
  BY <1>1, PolicyInvHolds, PTL

\* A policy is accepted or refused for what it says, not for where it comes
\* from: the rules written in the constructors, in the providers of the two
\* policies and in the provider of a ResilienceConfig accept the same settings.
THEOREM ResilientSourcesAgree == ResilientSpec => []SourcesAgree
<1>1. SourcesAgree
  <2>1. SameFields(from_policies(to_retry_config(draft), to_breaker_config(draft)), draft)
    BY SplitAndJoined
  <2>2. ResilienceLoads <=> retry_try_new(draft) /\ breaker_try_new(draft)
    BY <2>1, RulesOfParts, RulesOfSame, ProviderIsNoStricter
       DEF ResilienceLoads, RetryPart, BreakerPart
  <2>3. RetryLoads /\ BreakerLoads <=> retry_try_new(draft) /\ breaker_try_new(draft)
    BY RulesOfParts, ProvidersRepeat DEF RetryLoads, BreakerLoads, RetryPart, BreakerPart
  <2> QED
    BY <2>2, <2>3 DEF SourcesAgree, Accepts
<1> QED
  BY <1>1, PTL

-----------------------------------------------------------------------------
(***************************************************************************)
(* The circuit around the retry loop.  Its count is a history of calls,    *)
(* and it is untouched before the client is in use.                        *)
(***************************************************************************)
NodeShape ==
    node \in [state : {"closed", "open", "half_open"}, failures : Nat, successes : Nat,
              age : Nat]

CircuitInv ==
    /\ NodeShape
    /\ streak \in Nat
    /\ CountsCalls
    /\ HarmlessNeverTrips
    /\ stage # "in use" => node = ClosedNode /\ streak = 0 /\ ~calling

\* The classifier counts a result or does not, and counts no harmless one: not
\* what the documentation lists, nor what the retry loop makes up itself when
\* the budget is spent or the message cannot be encoded.
LEMMA ClassifierSplits ==
    ASSUME NEW r
    PROVE  /\ classify_result(r) \in {"failure", "success"}
           /\ r \in Harmless => classify_result(r) = "success"
<1>1. classify_result(r) \in {"failure", "success"}
  BY DEF classify_result
<1>2. ASSUME r \in Harmless
      PROVE  classify_result(r) = "success"
  BY <1>2 DEF Harmless, classify_result, Answered
<1> QED
  BY <1>1, <1>2

\* Being asked, and growing older, leave a closed circuit alone and close none.
LEMMA AskedOrOlder ==
    ASSUME NodeShape
    PROVE  /\ node.state = "closed" => Admitted = node /\ Older = node
           /\ ~Proceeds => Admitted = node
           /\ Admitted.state = "closed" => Admitted = node
           /\ Older.state = "closed" => Older = node
           /\ Admitted \in [state : {"closed", "open", "half_open"}, failures : Nat,
                            successes : Nat, age : Nat]
           /\ Older \in [state : {"closed", "open", "half_open"}, failures : Nat,
                         successes : Nat, age : Nat]
BY DEF NodeShape, Admitted, Older, Proceeds, Circuit!Admit, Circuit!Aged, Circuit!Proceeds,
       Circuit!Probing, Circuit!InitialNode

\* A call that ended is recorded.
LEMMA CallRecorded ==
    ASSUME NodeShape, NEW r
    PROVE  /\ record(r) \in [state : {"closed", "open", "half_open"}, failures : Nat,
                             successes : Nat, age : Nat]
           /\ classify_result(r) = "failure" /\ record(r).state = "closed" =>
                 node.state = "closed" /\ record(r).failures = node.failures + 1
           /\ classify_result(r) # "failure" /\ record(r).state = "closed" =>
                 record(r).failures = 0
           /\ classify_result(r) # "failure" /\ node = ClosedNode => record(r) = ClosedNode
<1>1. CASE classify_result(r) = "failure"
  BY <1>1
     DEF NodeShape, record, Recorded, Circuit!Record, Circuit!RecordFailure,
         Circuit!OpenedNow, Circuit!InitialNode
<1>2. CASE classify_result(r) = "success"
  BY <1>2
     DEF NodeShape, record, Recorded, Circuit!Record, Circuit!RecordSuccess,
         Circuit!InitialNode, ClosedNode
<1> QED
  BY <1>1, <1>2, ClassifierSplits

\* The circuit is asked or grows older, in use.
LEMMA MovesOn ==
    ASSUME CircuitInv, stage = "in use", node' \in {node, Admitted, Older},
           UNCHANGED <<stage, breaker, streak, harmless>>
    PROVE  CircuitInv'
<1>a. NodeShape /\ streak \in Nat /\ CountsCalls /\ HarmlessNeverTrips
  BY DEF CircuitInv
<1>1. NodeShape' /\ streak' \in Nat
  BY <1>a, AskedOrOlder DEF NodeShape
<1>2. /\ node.state = "closed" => node' = node
      /\ node'.state = "closed" => node' = node
  BY <1>a, AskedOrOlder
<1>3. CountsCalls'
  BY <1>a, <1>2 DEF CountsCalls
<1>4. node = ClosedNode => node' = ClosedNode
  <2>1. ClosedNode.state = "closed"
    BY DEF ClosedNode
  <2> QED
    BY <1>2, <2>1, Zenon
<1>5. HarmlessNeverTrips'
  BY <1>a, <1>4, Zenon DEF HarmlessNeverTrips, ClosedNode
<1> QED
  BY <1>1, <1>3, <1>5 DEF CircuitInv

\* Every step keeps the invariant of the circuit.
LEMMA CircuitInvStep == CircuitInv /\ [ResilientNext]_resilientVars => CircuitInv'
<1> SUFFICES ASSUME CircuitInv, [ResilientNext]_resilientVars
             PROVE  CircuitInv'
  OBVIOUS
<1>a. NodeShape /\ streak \in Nat /\ CountsCalls /\ HarmlessNeverTrips
  BY DEF CircuitInv
<1>1. CASE UNCHANGED <<stage, breaker, circuitVars>>
  BY <1>1 DEF circuitVars, CircuitInv, NodeShape, CountsCalls, HarmlessNeverTrips, ClosedNode
<1>2. CASE ConfigureClient \/ TakeIntoUse
  <2>1. node = ClosedNode /\ streak = 0 /\ ~calling
    BY <1>2 DEF CircuitInv, ConfigureClient, Configure, Write, Load, Build, TakeIntoUse
  <2>2. UNCHANGED circuitVars
    BY <1>2 DEF ConfigureClient, TakeIntoUse
  <2> QED
    BY <1>a, <2>1, <2>2
       DEF circuitVars, CircuitInv, NodeShape, CountsCalls, HarmlessNeverTrips, ClosedNode
<1>3. ASSUME NEW s, NEW b, Begin(s, b)
      PROVE  CircuitInv'
  BY <1>3, MovesOn DEF Begin, Idle, policyVars
<1>4. CASE Reject \/ Tick
  BY <1>4, MovesOn DEF Reject, Tick, Idle, policyVars
<1>5. CASE Finish
  <2>1. /\ UNCHANGED <<stage, breaker>> /\ stage = "in use"
        /\ node' = IF breaker.enabled THEN record(result) ELSE node
        /\ streak' = IF /\ breaker.enabled
                        /\ classify_result(result) = "failure"
                        /\ node'.state = "closed"
                     THEN streak + 1 ELSE 0
        /\ harmless' = (harmless /\ result \in Harmless)
    BY <1>5 DEF Finish, policyVars, CircuitInv
  <2>2. NodeShape'
    BY <1>a, <2>1, CallRecorded DEF NodeShape
  <2>3. streak' \in Nat
    <3>1. streak' = streak + 1 \/ streak' = 0
      BY <2>1, Zenon
    <3> QED
      BY <1>a, <3>1
  <2>4. CountsCalls'
    BY <1>a, <2>1, CallRecorded DEF CountsCalls
  <2>5. HarmlessNeverTrips'
    <3> SUFFICES ASSUME harmless'
                 PROVE  node' = ClosedNode
      BY DEF HarmlessNeverTrips, ClosedNode
    <3>1. harmless /\ result \in Harmless
      BY <2>1
    <3>2. node = ClosedNode /\ classify_result(result) # "failure"
      BY <1>a, <3>1, ClassifierSplits DEF HarmlessNeverTrips
    <3> QED
      BY <1>a, <2>1, <3>2, CallRecorded
  <2> QED
    BY <2>1, <2>2, <2>3, <2>4, <2>5 DEF CircuitInv
<1> QED
  BY <1>1, <1>2, <1>3, <1>4, <1>5
     DEF ResilientNext, resilientVars, circuitVars, policyVars, Attempt, Unused

LEMMA CircuitInvHolds == ResilientSpec => []CircuitInv
<1>1. ResilientInit => CircuitInv
  <2> SUFFICES ASSUME ResilientInit
               PROVE  CircuitInv
    OBVIOUS
  <2>1. node = ClosedNode /\ streak = 0 /\ ~calling
    BY DEF ResilientInit
  <2> QED
    BY <2>1 DEF CircuitInv, NodeShape, CountsCalls, HarmlessNeverTrips, ClosedNode
<1> QED
  BY <1>1, CircuitInvStep, PTL DEF ResilientSpec

\* Under every policy the closed circuit's count is the number of calls on end
\* that ended in trouble, however many attempts of the retry decorator each of
\* them took.
THEOREM ResilientCountsCalls == ResilientSpec => []CountsCalls
<1>1. CircuitInv => CountsCalls
  BY DEF CircuitInv
<1> QED
  BY <1>1, CircuitInvHolds, PTL

\* Under every policy the circuit is as it was built while every call ended in
\* a result that is not to count: rate limits, quotas, wrong credentials, spent
\* budgets and retries that helped leave no trace in it.
THEOREM ResilientHarmlessNeverTrips == ResilientSpec => []HarmlessNeverTrips
<1>1. CircuitInv => HarmlessNeverTrips
  BY DEF CircuitInv
<1> QED
  BY <1>1, CircuitInvHolds, PTL
=============================================================================
