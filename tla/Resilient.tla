------------------------------ MODULE Resilient ------------------------------
(***************************************************************************)
(* StdGrpcResilientFactory's client: a circuit breaker around the retry    *)
(* decorator around a client, under one policy.  The policy is written,    *)
(* loaded and built (ResiliencePolicy), then calls are made one after      *)
(* another: each is admitted by the circuit, runs the whole retry loop     *)
(* (Retry), and is recorded once.  What concurrent calls do to the circuit *)
(* is Breaker's subject.                                                   *)
(*                                                                         *)
(* The circuit's clock stands still during a call: it runs only for an     *)
(* open circuit, and no call is out while a serial client's is open.       *)
(***************************************************************************)
EXTENDS Retry, ResiliencePolicy, FailureClassifier

CONSTANT Circuits  \* the breaker policies of the clients that are used

VARIABLES
    calling,   \* a call is between guard's admit and its record
    node,      \* the circuit
    streak,    \* history: calls on end, since the circuit closed, that failed
    harmless   \* history: no call said anything against the peer

resilientVars == <<vars, policyVars, calling, node, streak, harmless>>

circuitVars == <<calling, node, streak, harmless>>

\* DefaultBreakerTransition under the policy of the client.
Circuit(ft, cd, hp) ==
    INSTANCE BreakerNode WITH FailureThreshold <- ft, CoolDown <- cd,
                              HalfOpenProbeCount <- hp

Proceeds == Circuit(breaker.failure_threshold, breaker.cool_down_seconds,
                    breaker.half_open_probe_count)!Proceeds(node)
Admitted == Circuit(breaker.failure_threshold, breaker.cool_down_seconds,
                    breaker.half_open_probe_count)!Admit(node)
Recorded(n, o) == Circuit(breaker.failure_threshold, breaker.cool_down_seconds,
                    breaker.half_open_probe_count)!Record(n, o)
Older == Circuit(breaker.failure_threshold, breaker.cool_down_seconds,
                    breaker.half_open_probe_count)!Aged(node)

ClosedNode == [state |-> "closed", failures |-> 0, successes |-> 0, age |-> 0]

-----------------------------------------------------------------------------
\* No call runs the retry loop.
LoopAtRest ==
    [policy |-> CHOOSE p \in Policies : TRUE, shape |-> "raw", budget |-> NoBudget]

ResilientInit ==
    /\ PolicyInit
    /\ policy = LoopAtRest.policy /\ shape = LoopAtRest.shape /\ budget = LoopAtRest.budget
    /\ pc = "start"
    /\ elapsed = 0
    /\ attempt_index = 0 /\ standard_attempt = 0 /\ rate_lim_attempt = 0
    /\ last_error = Nothing
    /\ wake = 0
    /\ result = Nothing
    /\ seen = <<>>
    /\ calling = FALSE
    /\ node = ClosedNode
    /\ streak = 0
    /\ harmless = TRUE

ConfigureClient == Configure /\ UNCHANGED <<vars, circuitVars>>

\* What the retry loop reads of its policy besides the lengths of pauses, which
\* Retry leaves open.
Limits == [max_attempts |-> retry.max_attempts,
           rate_limit_max |-> retry.rate_limit_max_attempts]

Used == Limits \in Policies /\ breaker \in Circuits

\* The application keeps the client and forgets the settings.  The lengths of
\* its pauses are forgotten too.
TakeIntoUse ==
    /\ stage = "built"
    /\ Used
    /\ stage' = "in use"
    /\ draft' = DefaultResilience
    /\ named' = {}
    /\ edits' = 0
    /\ source' = "resilience file"
    /\ config' = DefaultResilience
    /\ retry' = [DefaultRetry EXCEPT
                    !.max_attempts = retry.max_attempts,
                    !.rate_limit_max_attempts = retry.rate_limit_max_attempts]
    /\ UNCHANGED <<breaker, vars, circuitVars>>

\* The variables of the retry loop when a call enters it, or has left it.
LoopStarts(p, s, b) ==
    /\ policy' = p
    /\ shape' = s
    /\ budget' = b
    /\ pc' = "start"
    /\ elapsed' = 0
    /\ attempt_index' = 0 /\ standard_attempt' = 0 /\ rate_lim_attempt' = 0
    /\ last_error' = Nothing
    /\ wake' = 0
    /\ result' = Nothing
    /\ seen' = <<>>

Idle == stage = "in use" /\ ~calling

\* guard, up to the call: the circuit admits it, or is not asked.
Begin(s, b) ==
    /\ Idle
    /\ breaker.enabled => Proceeds
    /\ calling' = TRUE
    /\ node' = IF breaker.enabled THEN Admitted ELSE node
    /\ LoopStarts(Limits, s, b)
    /\ UNCHANGED <<policyVars, streak, harmless>>

\* guard: the circuit refuses, and the retry loop is not entered.
Reject ==
    /\ Idle
    /\ breaker.enabled /\ ~Proceeds
    /\ node' = Admitted
    /\ UNCHANGED <<policyVars, vars, calling, streak, harmless>>

\* The call: a step of the retry loop.
Attempt ==
    /\ calling
    /\ Advance
    /\ UNCHANGED <<policyVars, circuitVars>>

\* Slip: the breaker inside the retry loop, which counts every attempt.
RecordAttempts(r) ==
    LET Fold[i \in 0 .. Len(seen)] ==
            IF i = 0 THEN node ELSE Recorded(Fold[i - 1], classify_result(seen[i]))
    IN  Fold[Len(seen)]

\* guard, after the call: how it ended is recorded, once.
record(r) == Recorded(node, classify_result(r))

\* The results that say nothing against the peer: an answer, and the errors the
\* breaker's documentation lists as not counted.
Harmless ==
    {r \in CallResults :
        \/ r = Answered
        \/ r.kind = "status" /\ r.code \in {"ResourceExhausted", "Unauthenticated",
              "PermissionDenied", "NotFound", "InvalidArgument", "FailedPrecondition",
              "DeadlineExceeded"}
        \/ r.kind = "transport" /\ r.code \in {"DeadlineExceeded", "Cancelled",
              "InvalidArgument"}
        \/ r.kind = "encode"}

Finish ==
    /\ calling
    /\ pc = "done"
    /\ calling' = FALSE
    /\ node' = IF breaker.enabled THEN record(result) ELSE node
    /\ streak' = IF /\ breaker.enabled
                    /\ classify_result(result) = "failure"
                    /\ node'.state = "closed"
                 THEN streak + 1 ELSE 0
    /\ harmless' = (harmless /\ result \in Harmless)
    /\ LoopStarts(LoopAtRest.policy, LoopAtRest.shape, LoopAtRest.budget)
    /\ UNCHANGED policyVars

\* A second goes by between calls.
Tick ==
    /\ Idle
    /\ node' = Older
    /\ UNCHANGED <<policyVars, vars, calling, streak, harmless>>

\* The settings were refused, or the client is not used.
Unused ==
    /\ stage = "refused" \/ (stage = "built" /\ ~Used)
    /\ UNCHANGED resilientVars

ResilientNext ==
    \/ ConfigureClient
    \/ TakeIntoUse
    \/ \E s \in {"typed", "raw", "stream"}, b \in Budgets \cup {NoBudget} : Begin(s, b)
    \/ Reject
    \/ Attempt
    \/ Finish
    \/ Tick
    \/ Unused

ResilientSpec == ResilientInit /\ [][ResilientNext]_resilientVars

-----------------------------------------------------------------------------
(***************************************************************************)
(* Properties.                                                             *)
(***************************************************************************)
\* The circuit counts calls, not attempts: while it is closed its count is the
\* number of calls on end whose last word was a failure, however many attempts
\* each took and whatever its earlier attempts saw.
CountsCalls ==
    breaker.enabled /\ node.state = "closed" => node.failures = streak

\* Full quotas, rate limits, wrong credentials, spent budgets, mistakes of the
\* caller and the retries that were needed on the way to an answer never bring
\* the circuit nearer to opening: while every call ended in a result that the
\* breaker's documentation does not count, the circuit is as it was built.
HarmlessNeverTrips == harmless => node = ClosedNode
=============================================================================
