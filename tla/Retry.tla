-------------------------------- MODULE Retry --------------------------------
(***************************************************************************)
(* GrpcRetryClient: one call through the retry decorator, from the moment  *)
(* it is made to the moment its result is returned.  A call keeps all its  *)
(* state to itself, so one call under every policy, budget and sequence of *)
(* answers is the whole of the component.                                  *)
(*                                                                         *)
(* Time is the time since the call started.  An attempt may take any time, *)
(* its timeout included or not, and a pause may end late: the wrapped      *)
(* client and the timer are not trusted with the budget, the loop is.      *)
(* Beyond Horizon, later than every budget, instants are not told apart.   *)
(***************************************************************************)
EXTENDS Integers, Sequences, CallResult

CONSTANTS
    Policies,  \* the retry policies: records with max_attempts, rate_limit_max
    Budgets,   \* the timeouts a call may be given
    NoBudget,  \* the call has no timeout
    Answers,   \* what an attempt may end in
    Delays,    \* how long an attempt or a pause may take
    Horizon    \* later than every budget

\* GrpcRetryConfig::try_new refuses a policy with a zero in it.
ASSUME RetryAssumption ==
    /\ Policies \subseteq [max_attempts : Nat \ {0}, rate_limit_max : Nat \ {0}]
    /\ Horizon \in Nat
    /\ Budgets \subseteq 0 .. Horizon
    /\ NoBudget \notin Int
    /\ Answers \subseteq CallResults
    /\ Delays \subseteq Nat

VARIABLES
    policy,            \* the policy of the client
    shape,             \* "typed" and "raw" are unary; "stream" opens a stream
    budget,            \* total_budget
    pc,                \* where the call is
    elapsed,           \* started.elapsed()
    attempt_index,     \* the variable of the for loop
    standard_attempt,
    rate_lim_attempt,
    last_error,
    wake,              \* when the pause is due to end
    result,            \* what the caller gets
    seen               \* history: what each attempt ended in

vars == <<policy, shape, budget, pc, elapsed, attempt_index, standard_attempt,
          rate_lim_attempt, last_error, wake, result, seen>>

given == <<policy, shape, budget>>
counters == <<attempt_index, standard_attempt, rate_lim_attempt>>

-----------------------------------------------------------------------------
\* An Option that is None.
Nothing == [kind |-> "none", code |-> "Ok", words |-> {}]

\* The failures the decorator makes itself.
DeadlineExhausted == [kind |-> "transport", code |-> "DeadlineExceeded", words |-> {}]
NoRecordedError   == [kind |-> "transport", code |-> "Internal", words |-> {}]
EncodeFailure     == [kind |-> "encode", code |-> "Internal", words |-> {}]
DecodeFailure     == [kind |-> "decode", code |-> "Internal", words |-> {}]

\* Slip: the rate is looked for first.
classify_rate_first(words) ==
    IF "rate" \in words THEN "RateLimit"
    ELSE IF "quota" \in words THEN "HardQuota" ELSE "Capacity"

\* StdRetryClassifier::classify_resource_exhausted, in the order it looks.
classify_resource_exhausted(words) ==
    IF "quota" \in words THEN "HardQuota"
    ELSE IF "rate" \in words THEN "RateLimit" ELSE "Capacity"

\* StdRetryClassifier::classify_status.
classify_status(code, words) ==
    LET exhausted == classify_resource_exhausted(words)
    IN  CASE code = "Unavailable" -> "Retry"
          [] code = "ResourceExhausted" /\ exhausted = "Capacity" -> "Retry"
          [] code = "ResourceExhausted" /\ exhausted = "RateLimit" -> "RetryRateLimit"
          [] OTHER -> "Terminal"

\* StdRetryClassifier::classify.
classify(r) ==
    CASE r.kind = "ok" -> "Success"
      [] r.kind = "status" -> classify_status(r.code, r.words)
      [] r.kind = "transport" /\ r.code \in {"Unavailable", "Unknown"} -> "Retry"
      [] OTHER -> "Terminal"

\* d later.
Later(d) == IF elapsed + d < Horizon THEN elapsed + d ELSE Horizon

\* Slip: a budget of which zero is left still counts as time left.
ExhaustedLate == budget # NoBudget /\ elapsed > budget

\* The budget has run out: checked_sub leaves nothing or zero.
Exhausted == budget # NoBudget /\ elapsed >= budget

\* Slip: no fallback for a missing error.
LastErrorOnly(error) == last_error

\* last_error.unwrap_or_else(error).
LastErrorOr(error) == IF last_error = Nothing THEN error ELSE last_error

Return(r) == pc' = "done" /\ result' = r

-----------------------------------------------------------------------------
Init ==
    /\ policy \in Policies
    /\ shape \in {"typed", "raw", "stream"}
    /\ budget \in Budgets \cup {NoBudget}
    /\ pc = "start"
    /\ elapsed = 0
    /\ attempt_index = 0
    /\ standard_attempt = 0
    /\ rate_lim_attempt = 0
    /\ last_error = Nothing
    /\ wake = 0
    /\ result = Nothing
    /\ seen = <<>>

\* A stream is opened once, and so is a typed call that has one attempt: the
\* request goes to the wrapped client as it came.
Forwarded == shape = "stream" \/ (shape = "typed" /\ policy.max_attempts <= 1)

Forward ==
    /\ pc = "start"
    /\ Forwarded
    /\ \E r \in Answers : Return(r) /\ seen' = <<r>>
    /\ UNCHANGED <<given, counters, elapsed, last_error, wake>>

\* A typed message is encoded before the first attempt; a message that cannot
\* be encoded ends the call.
EncodeFails ==
    /\ pc = "start"
    /\ shape = "typed" /\ ~Forwarded
    /\ Return(EncodeFailure)
    /\ UNCHANGED <<given, counters, elapsed, last_error, wake, seen>>

Start ==
    /\ pc = "start"
    /\ ~Forwarded
    /\ pc' = "loop"
    /\ UNCHANGED <<given, counters, elapsed, last_error, wake, result, seen>>

\* The head of the loop: no attempt is left.
LoopEnds ==
    /\ pc = "loop"
    /\ attempt_index >= policy.max_attempts
    /\ Return(LastErrorOr(NoRecordedError))
    /\ UNCHANGED <<given, counters, elapsed, last_error, wake, seen>>

\* The head of the loop: no time is left.
DeadlinePassed ==
    /\ pc = "loop"
    /\ attempt_index < policy.max_attempts
    /\ Exhausted
    /\ Return(LastErrorOr(DeadlineExhausted))
    /\ UNCHANGED <<given, counters, elapsed, last_error, wake, seen>>

\* The head of the loop: an attempt begins.
BeginAttempt ==
    /\ pc = "loop"
    /\ attempt_index < policy.max_attempts
    /\ ~Exhausted
    /\ pc' = "attempt"
    /\ UNCHANGED <<given, counters, elapsed, last_error, wake, result, seen>>

\* What an attempt may end in.  A typed attempt after the first decodes its
\* message again, and need not get as far as the wrapped client.
AttemptResults ==
    Answers \cup (IF shape = "typed" /\ attempt_index > 0 THEN {DecodeFailure} ELSE {})

\* budget_allows_sleep: the pause ends before the budget does.
budget_allows_sleep(now, pause) == budget # NoBudget => now + pause < budget

\* An attempt ended, after d, in a result that is an answer or final.
AttemptReturns(r, d) ==
    /\ pc = "attempt"
    /\ classify(r) \in {"Success", "Terminal"}
    /\ elapsed' = Later(d)
    /\ seen' = Append(seen, r)
    /\ Return(r)
    /\ UNCHANGED <<given, counters, last_error, wake>>

\* An attempt ended, after d, in a failure worth another attempt, but there is
\* no room for the pause before it: the loop is left with this failure.
GiveUp(r, d) ==
    /\ elapsed' = Later(d)
    /\ seen' = Append(seen, r)
    /\ last_error' = r
    /\ Return(r)
    /\ UNCHANGED <<given, attempt_index, wake>>

\* Slip: the first error is remembered, not the last.
PauseKeepsFirst(r, d, pause) ==
    /\ elapsed' = Later(d)
    /\ seen' = Append(seen, r)
    /\ last_error' = LastErrorOr(r)
    /\ pc' = "pause"
    /\ wake' = Later(d) + pause
    /\ UNCHANGED <<given, attempt_index, result>>

\* The pause begins.
Pause(r, d, pause) ==
    /\ elapsed' = Later(d)
    /\ seen' = Append(seen, r)
    /\ last_error' = r
    /\ pc' = "pause"
    /\ wake' = Later(d) + pause
    /\ UNCHANGED <<given, attempt_index, result>>

\* Slip: the attempt is not counted.
StandardUncounted(r, d, pause) ==
    /\ pc = "attempt"
    /\ classify(r) = "Retry"
    /\ UNCHANGED <<standard_attempt, rate_lim_attempt>>
    /\ IF standard_attempt + 1 < policy.max_attempts /\ budget_allows_sleep(Later(d), pause)
       THEN Pause(r, d, pause)
       ELSE GiveUp(r, d)

\* RetryDecision::Retry.
StandardRetry(r, d, pause) ==
    /\ pc = "attempt"
    /\ classify(r) = "Retry"
    /\ UNCHANGED rate_lim_attempt
    /\ \/ /\ standard_attempt + 1 >= policy.max_attempts
          /\ UNCHANGED standard_attempt
          /\ GiveUp(r, d)
       \/ /\ standard_attempt + 1 < policy.max_attempts
          /\ standard_attempt' = standard_attempt + 1
          /\ IF budget_allows_sleep(Later(d), pause)
             THEN Pause(r, d, pause)
             ELSE GiveUp(r, d)

\* Slip: the retries made, not the next one, are held against the limit.
RateLimitOneMore(r, d, pause) ==
    /\ pc = "attempt"
    /\ classify(r) = "RetryRateLimit"
    /\ UNCHANGED standard_attempt
    /\ \/ /\ rate_lim_attempt > policy.rate_limit_max
          /\ UNCHANGED rate_lim_attempt
          /\ GiveUp(r, d)
       \/ /\ rate_lim_attempt <= policy.rate_limit_max
          /\ rate_lim_attempt' = rate_lim_attempt + 1
          /\ IF budget_allows_sleep(Later(d), pause)
             THEN Pause(r, d, pause)
             ELSE GiveUp(r, d)

\* RetryDecision::RetryRateLimit.  The length of the pause is the peer's hint
\* or the policy's.
RateLimitRetry(r, d, pause) ==
    /\ pc = "attempt"
    /\ classify(r) = "RetryRateLimit"
    /\ UNCHANGED standard_attempt
    /\ \/ /\ rate_lim_attempt + 1 > policy.rate_limit_max
          /\ UNCHANGED rate_lim_attempt
          /\ GiveUp(r, d)
       \/ /\ rate_lim_attempt + 1 <= policy.rate_limit_max
          /\ rate_lim_attempt' = rate_lim_attempt + 1
          /\ IF budget_allows_sleep(Later(d), pause)
             THEN Pause(r, d, pause)
             ELSE GiveUp(r, d)

\* The pause is over, late by some time.
PauseEnds(late) ==
    /\ pc = "pause"
    /\ elapsed' = IF wake + late < Horizon THEN wake + late ELSE Horizon
    /\ attempt_index' = attempt_index + 1
    /\ wake' = 0
    /\ pc' = "loop"
    /\ UNCHANGED <<given, standard_attempt, rate_lim_attempt, last_error, result, seen>>

\* The caller has its result.
Done == pc = "done" /\ UNCHANGED vars

\* A step of a call that is under way.
Advance ==
    \/ Forward
    \/ EncodeFails
    \/ Start
    \/ LoopEnds
    \/ DeadlinePassed
    \/ BeginAttempt
    \/ \E r \in AttemptResults, d \in Delays :
          \/ AttemptReturns(r, d)
          \/ \E pause \in Delays : StandardRetry(r, d, pause) \/ RateLimitRetry(r, d, pause)
    \/ \E late \in Delays : PauseEnds(late)

Next == Advance \/ Done

Spec == Init /\ [][Next]_vars

-----------------------------------------------------------------------------
(***************************************************************************)
(* Properties.                                                             *)
(***************************************************************************)
TypeOK ==
    /\ policy \in Policies
    /\ shape \in {"typed", "raw", "stream"}
    /\ budget \in Budgets \cup {NoBudget}
    /\ pc \in {"start", "loop", "attempt", "pause", "done"}
    /\ elapsed \in 0 .. Horizon
    /\ attempt_index \in Nat
    /\ standard_attempt \in Nat
    /\ rate_lim_attempt \in Nat
    /\ last_error \in CallResults \cup {Nothing}
    /\ wake \in Nat
    /\ result \in IF pc = "done" THEN CallResults ELSE {Nothing}
    /\ seen \in Seq(CallResults)

\* The peer is asked max_attempts times at most, a stream once, and the two
\* tracks of the loop stay within their own limits however a call alternates
\* between them.
AttemptsBounded ==
    /\ Len(seen) <= IF shape = "stream" THEN 1 ELSE policy.max_attempts
    /\ standard_attempt < policy.max_attempts
    /\ rate_lim_attempt <= policy.rate_limit_max

\* The failures that must not be retried, as the classifier's documentation
\* names them.
MustNotRetry ==
    {r \in Status :
        \/ r.code \in {"Unauthenticated", "PermissionDenied", "DeadlineExceeded",
                       "Internal"}
        \/ r.code = "ResourceExhausted" /\ "quota" \in r.words}

\* No attempt follows an answer, or a failure that must not be retried: a
\* billing cap is not retried even when its message also speaks of a rate.
FinalIsFinal ==
    \A i \in 1 .. Len(seen) - 1 : seen[i] # Answered /\ seen[i] \notin MustNotRetry

\* The caller gets what the last attempt ended in, never an error of an
\* earlier attempt and never the decorator's own "no recorded error"; it gets
\* an error of the decorator's own making only when nothing was attempted.
SurfacesLastAttempt ==
    pc = "done" =>
        IF seen = <<>>
        THEN result \in {EncodeFailure, DeadlineExhausted}
        ELSE result = seen[Len(seen)]

\* run_with_retry begins no attempt once the budget is spent, however late a
\* pause ended, and begins no pause that would outlive the budget.
WithinBudget ==
    budget # NoBudget =>
        /\ pc = "attempt" => elapsed < budget
        /\ pc = "pause" => wake < budget

\* "Set `rate_limit_max_attempts = 1` (no rate-limit retries)": a call under
\* that policy makes no attempt after a rate-limited one.
NoRateLimitRetries ==
    policy.rate_limit_max = 1 =>
        \A i \in 1 .. Len(seen) - 1 : classify(seen[i]) # "RetryRateLimit"

\* A call that met no rate limit never sleeps for nothing: each of its pauses
\* is followed by an attempt.  Only a rate limit, whose retries are not held
\* against max_attempts, can have the loop pause after its last attempt.
PausesLeadOn ==
    pc = "pause" /\ (\A i \in 1 .. Len(seen) : classify(seen[i]) # "RetryRateLimit")
        => attempt_index + 1 < policy.max_attempts

=============================================================================
