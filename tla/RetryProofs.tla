----------------------------- MODULE RetryProofs -----------------------------
(***************************************************************************)
(* Proofs about Retry, for any policies, budgets, answers and delays.      *)
(***************************************************************************)
EXTENDS Retry, TLAPS

(***************************************************************************)
(* The inductive invariant: what the loop of run_with_retry knows at each  *)
(* of its points.  The number of attempts is tied to attempt_index and the *)
(* remembered error to the last attempt; both are needed to see that the   *)
(* loop never ends without an error to return.                             *)
(***************************************************************************)
LastSeen == seen[Len(seen)]

Unused ==
    /\ seen = <<>>
    /\ attempt_index = 0 /\ standard_attempt = 0 /\ rate_lim_attempt = 0
    /\ last_error = Nothing

LoopInv ==
    /\ pc = "start" => Unused
    /\ pc \in {"loop", "attempt", "pause"} => ~Forwarded
    /\ pc \in {"loop", "attempt"} =>
          /\ Len(seen) = attempt_index
          /\ last_error = IF attempt_index = 0 THEN Nothing ELSE LastSeen
    /\ pc = "loop" => attempt_index <= policy.max_attempts
    /\ pc = "attempt" => attempt_index < policy.max_attempts
    /\ pc = "pause" =>
          /\ Len(seen) = attempt_index + 1
          /\ attempt_index < policy.max_attempts
          /\ last_error = LastSeen

RetryInv ==
    TypeOK /\ LoopInv /\ AttemptsBounded /\ SurfacesLastAttempt /\ WithinBudget

-----------------------------------------------------------------------------
\* The failures of the decorator's own making are results; None is not.
LEMMA OwnResults ==
    /\ {DeadlineExhausted, NoRecordedError, EncodeFailure, DecodeFailure} \subseteq CallResults
    /\ Nothing \notin CallResults
BY DEF DeadlineExhausted, NoRecordedError, EncodeFailure, DecodeFailure, Nothing,
       CallResults, CallError, Answered, Status, Transport, Codec, StatusCode

\* What is seen after one more attempt.
LEMMA OneMore ==
    ASSUME NEW q \in Seq(CallResults), NEW r \in CallResults
    PROVE  /\ Append(q, r) \in Seq(CallResults)
           /\ Append(q, r) # <<>>
           /\ Len(Append(q, r)) = Len(q) + 1
           /\ Append(q, r)[Len(q) + 1] = r
OBVIOUS

\* A later instant is an instant.
LEMMA LaterIsInstant ==
    ASSUME elapsed \in 0 .. Horizon, NEW d \in Delays
    PROVE  Later(d) \in 0 .. Horizon
BY RetryAssumption DEF Later

\* A policy has at least one attempt.
LEMMA PolicyFields ==
    ASSUME TypeOK
    PROVE  /\ policy.max_attempts \in Nat \ {0}
           /\ policy.rate_limit_max \in Nat \ {0}
BY RetryAssumption DEF TypeOK

\* Initially.
LEMMA RetryInvInit == Init => RetryInv
<1> SUFFICES ASSUME Init
             PROVE  RetryInv
  OBVIOUS
<1>1. TypeOK
  BY RetryAssumption DEF Init, TypeOK
<1>2. LoopInv
  BY DEF Init, LoopInv, Unused
<1>3. AttemptsBounded
  BY <1>1, PolicyFields DEF Init, AttemptsBounded
<1>4. SurfacesLastAttempt /\ WithinBudget
  BY DEF Init, SurfacesLastAttempt, WithinBudget
<1> QED
  BY <1>1, <1>2, <1>3, <1>4 DEF RetryInv

\* The steps outside an attempt.
LEMMA ControlSteps ==
    ASSUME RetryInv,
           Forward \/ EncodeFails \/ Start \/ LoopEnds \/ DeadlinePassed \/ BeginAttempt
    PROVE  RetryInv'
<1>a. TypeOK /\ LoopInv /\ AttemptsBounded /\ SurfacesLastAttempt /\ WithinBudget
  BY DEF RetryInv
<1>b. policy.max_attempts \in Nat \ {0}
  BY <1>a, PolicyFields
<1> USE <1>a, <1>b
<1>1. CASE Forward
  <2>1. PICK r \in Answers : Return(r) /\ seen' = <<r>>
    BY <1>1 DEF Forward
  <2>2. r \in CallResults
    BY RetryAssumption
  <2>3. UNCHANGED <<given, counters, elapsed, last_error, wake>>
    BY <1>1 DEF Forward
  <2> QED
    BY <2>1, <2>2, <2>3
       DEF RetryInv, TypeOK, LoopInv, AttemptsBounded, SurfacesLastAttempt,
           WithinBudget, Return, given, counters
<1>2. CASE EncodeFails
  BY <1>2, OwnResults
     DEF EncodeFails, RetryInv, TypeOK, LoopInv, AttemptsBounded, Unused,
         SurfacesLastAttempt, WithinBudget, Return, given, counters
<1>3. CASE Start
  BY <1>3
     DEF Start, RetryInv, TypeOK, LoopInv, AttemptsBounded, Unused, Forwarded,
         SurfacesLastAttempt, WithinBudget, given, counters
<1>4. CASE LoopEnds
  <2>1. attempt_index > 0 /\ last_error = LastSeen /\ seen # <<>>
    BY <1>4 DEF LoopEnds, LoopInv
  <2>2. last_error \in CallResults /\ LastErrorOr(NoRecordedError) = LastSeen
    BY <2>1, OwnResults DEF TypeOK, LastErrorOr, LastSeen
  <2> QED
    BY <1>4, <2>1, <2>2
       DEF LoopEnds, RetryInv, TypeOK, LoopInv, AttemptsBounded, LastSeen,
           SurfacesLastAttempt, WithinBudget, Return, given, counters
<1>5. CASE DeadlinePassed
  <2>1. CASE attempt_index = 0
    <3>1. seen = <<>> /\ LastErrorOr(DeadlineExhausted) = DeadlineExhausted
      BY <1>5, <2>1 DEF DeadlinePassed, LoopInv, LastErrorOr, TypeOK
    <3> QED
      BY <1>5, <3>1, OwnResults
         DEF DeadlinePassed, RetryInv, TypeOK, LoopInv, AttemptsBounded,
             SurfacesLastAttempt, WithinBudget, Return, given, counters
  <2>2. CASE attempt_index # 0
    <3>1. seen # <<>> /\ last_error = LastSeen
      BY <1>5, <2>2 DEF DeadlinePassed, LoopInv
    <3>2. last_error \in CallResults /\ LastErrorOr(DeadlineExhausted) = LastSeen
      BY <3>1, OwnResults DEF TypeOK, LastErrorOr, LastSeen
    <3> QED
      BY <1>5, <3>1, <3>2
         DEF DeadlinePassed, RetryInv, TypeOK, LoopInv, AttemptsBounded, LastSeen,
             SurfacesLastAttempt, WithinBudget, Return, given, counters
  <2> QED
    BY <2>1, <2>2
<1>6. CASE BeginAttempt
  BY <1>6, RetryAssumption
     DEF BeginAttempt, RetryInv, TypeOK, LoopInv, AttemptsBounded, LastSeen, Forwarded,
         SurfacesLastAttempt, WithinBudget, Exhausted, given, counters
<1> QED
  BY <1>1, <1>2, <1>3, <1>4, <1>5, <1>6

\* A pause ends, however late.
LEMMA PauseStep ==
    ASSUME RetryInv, NEW late \in Delays, PauseEnds(late)
    PROVE  RetryInv'
<1>a. TypeOK /\ LoopInv /\ AttemptsBounded /\ SurfacesLastAttempt /\ WithinBudget
  BY DEF RetryInv
<1>b. policy.max_attempts \in Nat \ {0} /\ late \in Nat /\ Horizon \in Nat
  BY <1>a, PolicyFields, RetryAssumption
<1>1. TypeOK'
  BY <1>a, <1>b DEF PauseEnds, TypeOK, given
<1>2. LoopInv'
  BY <1>a, <1>b DEF PauseEnds, TypeOK, LoopInv, LastSeen, Forwarded, given
<1>3. AttemptsBounded' /\ SurfacesLastAttempt' /\ WithinBudget'
  BY <1>a DEF PauseEnds, AttemptsBounded, SurfacesLastAttempt, WithinBudget, given
<1> QED
  BY <1>1, <1>2, <1>3 DEF RetryInv
\* What an attempt may end in is a result.
LEMMA AttemptResultsTyped == AttemptResults \subseteq CallResults
BY RetryAssumption, OwnResults DEF AttemptResults

\* An attempt that is the last one: it leaves the loop with its own result.
LEMMA LastAttemptStep ==
    ASSUME RetryInv, pc = "attempt", NEW r \in CallResults, NEW d \in Delays,
           elapsed' = Later(d), seen' = Append(seen, r), Return(r),
           last_error' \in {last_error, r},
           UNCHANGED <<given, attempt_index, wake>>,
           standard_attempt' \in Nat, standard_attempt' < policy.max_attempts,
           rate_lim_attempt' \in Nat, rate_lim_attempt' <= policy.rate_limit_max
    PROVE  RetryInv'
<1>a. TypeOK /\ LoopInv /\ AttemptsBounded
  BY DEF RetryInv
<1>b. policy.max_attempts \in Nat \ {0} /\ Later(d) \in 0 .. Horizon
  BY <1>a, PolicyFields, LaterIsInstant DEF TypeOK
<1>c. /\ seen' \in Seq(CallResults) /\ seen' # <<>>
      /\ Len(seen') = Len(seen) + 1 /\ seen'[Len(seen')] = r
  BY <1>a, OneMore DEF TypeOK
<1>1. TypeOK'
  BY <1>a, <1>b, <1>c DEF TypeOK, Return, given
<1>2. LoopInv'
  BY DEF LoopInv, Return
<1>3. AttemptsBounded'
  BY <1>a, <1>b, <1>c DEF AttemptsBounded, LoopInv, Forwarded, TypeOK, given
<1>4. SurfacesLastAttempt' /\ WithinBudget'
  BY <1>c DEF SurfacesLastAttempt, WithinBudget, Return
<1> QED
  BY <1>1, <1>2, <1>3, <1>4 DEF RetryInv

\* An attempt followed by a pause that fits in the budget.
LEMMA PauseBegins ==
    ASSUME RetryInv, pc = "attempt", NEW r \in CallResults, NEW d \in Delays,
           NEW pause \in Delays, Pause(r, d, pause),
           budget_allows_sleep(Later(d), pause),
           standard_attempt' \in Nat, standard_attempt' < policy.max_attempts,
           rate_lim_attempt' \in Nat, rate_lim_attempt' <= policy.rate_limit_max
    PROVE  RetryInv'
<1>a. TypeOK /\ LoopInv /\ AttemptsBounded
  BY DEF RetryInv
<1>b. /\ policy.max_attempts \in Nat \ {0}
      /\ Later(d) \in 0 .. Horizon /\ Horizon \in Nat /\ pause \in Nat
  BY <1>a, PolicyFields, LaterIsInstant, RetryAssumption DEF TypeOK
<1>c. /\ seen' \in Seq(CallResults) /\ seen' # <<>>
      /\ Len(seen') = Len(seen) + 1 /\ seen'[Len(seen')] = r
  BY <1>a, OneMore DEF TypeOK, Pause
<1>1. TypeOK'
  BY <1>a, <1>b, <1>c DEF TypeOK, Pause, given
<1>2. LoopInv'
  BY <1>a, <1>b, <1>c DEF LoopInv, Pause, Forwarded, LastSeen, given
<1>3. AttemptsBounded'
  BY <1>a, <1>b, <1>c DEF AttemptsBounded, LoopInv, Forwarded, Pause, TypeOK, given
<1>4. SurfacesLastAttempt' /\ WithinBudget'
  BY <1>a DEF SurfacesLastAttempt, WithinBudget, Pause, budget_allows_sleep, given
<1> QED
  BY <1>1, <1>2, <1>3, <1>4 DEF RetryInv

\* Every way an attempt may end.
LEMMA AttemptSteps ==
    ASSUME RetryInv, NEW r \in AttemptResults, NEW d \in Delays, NEW pause \in Delays,
           AttemptReturns(r, d) \/ StandardRetry(r, d, pause) \/ RateLimitRetry(r, d, pause)
    PROVE  RetryInv'
<1>a. TypeOK /\ AttemptsBounded /\ r \in CallResults
  BY AttemptResultsTyped DEF RetryInv
<1>b. /\ policy.max_attempts \in Nat \ {0} /\ policy.rate_limit_max \in Nat \ {0}
      /\ standard_attempt \in Nat /\ standard_attempt < policy.max_attempts
      /\ rate_lim_attempt \in Nat /\ rate_lim_attempt <= policy.rate_limit_max
  BY <1>a, PolicyFields DEF TypeOK, AttemptsBounded
<1>1. CASE AttemptReturns(r, d)
  BY <1>1, <1>a, <1>b, LastAttemptStep DEF AttemptReturns, counters
<1>2. CASE StandardRetry(r, d, pause)
  <2>1. /\ pc = "attempt"
        /\ standard_attempt' \in Nat /\ standard_attempt' < policy.max_attempts
        /\ rate_lim_attempt' = rate_lim_attempt
        /\ \/ GiveUp(r, d)
           \/ Pause(r, d, pause) /\ budget_allows_sleep(Later(d), pause)
    BY <1>2, <1>b DEF StandardRetry
  <2> QED
    BY <2>1, <1>a, <1>b, LastAttemptStep, PauseBegins DEF GiveUp
<1>3. CASE RateLimitRetry(r, d, pause)
  <2>1. /\ pc = "attempt"
        /\ rate_lim_attempt' \in Nat /\ rate_lim_attempt' <= policy.rate_limit_max
        /\ standard_attempt' = standard_attempt
        /\ \/ GiveUp(r, d)
           \/ Pause(r, d, pause) /\ budget_allows_sleep(Later(d), pause)
    BY <1>3, <1>b DEF RateLimitRetry
  <2> QED
    BY <2>1, <1>a, <1>b, LastAttemptStep, PauseBegins DEF GiveUp
<1> QED
  BY <1>1, <1>2, <1>3

\* Every step keeps the invariant.
LEMMA RetryInvStep == RetryInv /\ [Next]_vars => RetryInv'
<1> SUFFICES ASSUME RetryInv, [Next]_vars
             PROVE  RetryInv'
  OBVIOUS
<1>1. CASE UNCHANGED vars
  BY <1>1
     DEF vars, RetryInv, TypeOK, LoopInv, Unused, LastSeen, Forwarded,
         AttemptsBounded, SurfacesLastAttempt, WithinBudget
<1>2. ASSUME NEW r \in AttemptResults, NEW d \in Delays, AttemptReturns(r, d)
      PROVE  RetryInv'
  BY <1>2, AttemptSteps
<1> QED
  BY <1>1, <1>2, ControlSteps, PauseStep, AttemptSteps DEF Next, Advance, Done

\* The variables of a retried call keep their types.
THEOREM RetryTypeCorrect == Spec => []TypeOK
<1>1. RetryInv => TypeOK
  BY DEF RetryInv
<1> QED
  BY <1>1, RetryInvInit, RetryInvStep, PTL DEF Spec

\* Under every policy the peer is asked max_attempts times at most and each
\* track of run_with_retry stays within its limit.
THEOREM RetryAttemptsBounded == Spec => []AttemptsBounded
<1>1. RetryInv => AttemptsBounded
  BY DEF RetryInv
<1> QED
  BY <1>1, RetryInvInit, RetryInvStep, PTL DEF Spec

\* The caller always gets the result of the last attempt; the error that stands
\* for "no recorded error" is never returned.
THEOREM RetrySurfacesLastAttempt == Spec => []SurfacesLastAttempt
<1>1. RetryInv => SurfacesLastAttempt
  BY DEF RetryInv
<1> QED
  BY <1>1, RetryInvInit, RetryInvStep, PTL DEF Spec

\* No attempt begins after the budget is spent and no pause outlives it,
\* whatever attempts and pauses take.
THEOREM RetryWithinBudget == Spec => []WithinBudget
<1>1. RetryInv => WithinBudget
  BY DEF RetryInv
<1> QED
  BY <1>1, RetryInvInit, RetryInvStep, PTL DEF Spec

-----------------------------------------------------------------------------
(***************************************************************************)
(* No attempt after a final result.  While the loop goes on, every result  *)
(* seen so far was classified as worth another attempt.                    *)
(***************************************************************************)
WorthRetrying(r) == r # Answered /\ r \notin MustNotRetry

AllWorthRetrying ==
    /\ \A i \in 1 .. Len(seen) - 1 : WorthRetrying(seen[i])
    /\ pc # "done" => \A i \in 1 .. Len(seen) : WorthRetrying(seen[i])

\* The classifier retries neither an answer nor what must not be retried.
LEMMA ClassifierIsSafe ==
    ASSUME NEW r, classify(r) \in {"Retry", "RetryRateLimit"}
    PROVE  WorthRetrying(r)
<1>1. r # Answered
  BY DEF classify, Answered
<1>2. ASSUME r \in MustNotRetry
      PROVE  FALSE
  <2>1. /\ r.kind = "status"
        /\ \/ r.code \in {"Unauthenticated", "PermissionDenied", "DeadlineExceeded",
                          "Internal"}
           \/ r.code = "ResourceExhausted" /\ "quota" \in r.words
    BY <1>2 DEF MustNotRetry, Status
  <2>2. classify(r) = classify_status(r.code, r.words)
    BY <2>1 DEF classify
  <2>3. classify_status(r.code, r.words) = "Terminal"
    BY <2>1 DEF classify_status, classify_resource_exhausted
  <2> QED
    BY <2>2, <2>3
<1> QED
  BY <1>1, <1>2 DEF WorthRetrying

\* One more result keeps the earlier ones.
LEMMA EarlierKept ==
    ASSUME NEW q \in Seq(CallResults), NEW r \in CallResults
    PROVE  \A i \in 1 .. Len(q) : Append(q, r)[i] = q[i]
OBVIOUS

\* Every step keeps AllWorthRetrying.
LEMMA AllWorthRetryingStep ==
    TypeOK /\ AllWorthRetrying /\ [Next]_vars => AllWorthRetrying'
<1> SUFFICES ASSUME TypeOK, AllWorthRetrying, [Next]_vars
             PROVE  AllWorthRetrying'
  OBVIOUS
<1>1. ASSUME NEW r \in AttemptResults, seen' = Append(seen, r), pc = "attempt",
             pc' # "done" => classify(r) \in {"Retry", "RetryRateLimit"}
      PROVE  AllWorthRetrying'
  <2>1. r \in CallResults /\ seen \in Seq(CallResults)
    BY AttemptResultsTyped DEF TypeOK
  <2>2. /\ Len(seen') = Len(seen) + 1 /\ seen'[Len(seen) + 1] = r
        /\ \A i \in 1 .. Len(seen) : seen'[i] = seen[i]
    BY <1>1, <2>1, OneMore, EarlierKept
  <2>3. \A i \in 1 .. Len(seen) : WorthRetrying(seen'[i])
    BY <1>1, <2>2 DEF AllWorthRetrying
  <2>4. pc' # "done" => WorthRetrying(seen'[Len(seen) + 1])
    BY <1>1, <2>2, ClassifierIsSafe
  <2> QED
    BY <2>1, <2>2, <2>3, <2>4 DEF AllWorthRetrying
<1>2. ASSUME NEW r \in AttemptResults, NEW d \in Delays, AttemptReturns(r, d)
      PROVE  AllWorthRetrying'
  BY <1>1, <1>2 DEF AttemptReturns, Return
<1>3. ASSUME NEW r \in AttemptResults, NEW d \in Delays, NEW pause \in Delays,
             StandardRetry(r, d, pause) \/ RateLimitRetry(r, d, pause)
      PROVE  AllWorthRetrying'
  BY <1>1, <1>3 DEF StandardRetry, RateLimitRetry, GiveUp, Pause
<1>4. CASE Forward
  BY <1>4 DEF Forward, Return, AllWorthRetrying
<1>5. CASE UNCHANGED seen /\ pc # "done"
  BY <1>5 DEF AllWorthRetrying
<1>6. CASE UNCHANGED vars
  BY <1>6 DEF vars, AllWorthRetrying
<1> QED
  BY <1>2, <1>3, <1>4, <1>5, <1>6
     DEF Next, Advance, EncodeFails, Start, LoopEnds, DeadlinePassed, BeginAttempt, PauseEnds,
         Done

\* No attempt follows an answer or a failure that must not be retried.
THEOREM RetryFinalIsFinal == Spec => []FinalIsFinal
<1>1. Init => AllWorthRetrying
  BY DEF Init, AllWorthRetrying
<1>2. AllWorthRetrying => FinalIsFinal
  BY DEF AllWorthRetrying, FinalIsFinal, WorthRetrying
<1> QED
  BY <1>1, <1>2, AllWorthRetryingStep, RetryTypeCorrect, PTL DEF Spec

-----------------------------------------------------------------------------
(***************************************************************************)
(* No pause for nothing.  Until a rate limit is met the standard track     *)
(* counts every turn of the loop, so its limit is the limit of the loop.   *)
(***************************************************************************)
NoRateLimitMet == \A i \in 1 .. Len(seen) : classify(seen[i]) # "RetryRateLimit"

TracksInStep ==
    NoRateLimitMet =>
        /\ pc \in {"start", "loop", "attempt"} => standard_attempt = attempt_index
        /\ pc = "pause" => standard_attempt = attempt_index + 1

\* Every step keeps TracksInStep.
LEMMA TracksInStepStep ==
    TypeOK /\ TracksInStep /\ [Next]_vars => TracksInStep'
<1> SUFFICES ASSUME TypeOK, TracksInStep, [Next]_vars, NoRateLimitMet'
             PROVE  /\ pc' \in {"start", "loop", "attempt"} => standard_attempt' = attempt_index'
                    /\ pc' = "pause" => standard_attempt' = attempt_index' + 1
  BY DEF TracksInStep
<1>1. ASSUME NEW r \in AttemptResults, seen' = Append(seen, r)
      PROVE  NoRateLimitMet /\ classify(r) # "RetryRateLimit"
  <2>1. r \in CallResults /\ seen \in Seq(CallResults)
    BY AttemptResultsTyped DEF TypeOK
  <2>2. /\ Len(seen') = Len(seen) + 1 /\ seen'[Len(seen) + 1] = r
        /\ \A i \in 1 .. Len(seen) : seen'[i] = seen[i]
    BY <1>1, <2>1, OneMore, EarlierKept
  <2>3. \A i \in 1 .. Len(seen) + 1 : classify(seen'[i]) # "RetryRateLimit"
    BY <2>2 DEF NoRateLimitMet
  <2> QED
    BY <2>1, <2>2, <2>3 DEF NoRateLimitMet
<1>2. CASE Forward \/ EncodeFails \/ LoopEnds \/ DeadlinePassed
  BY <1>2 DEF Forward, EncodeFails, LoopEnds, DeadlinePassed, Return
<1>3. CASE Start \/ BeginAttempt
  BY <1>3 DEF Start, BeginAttempt, TracksInStep, NoRateLimitMet, counters
<1>4. ASSUME NEW late \in Delays, PauseEnds(late)
      PROVE  pc' = "loop" /\ standard_attempt' = attempt_index'
  BY <1>4 DEF PauseEnds, TracksInStep, NoRateLimitMet
<1>5. ASSUME NEW r \in AttemptResults, NEW d \in Delays, AttemptReturns(r, d)
      PROVE  pc' = "done"
  BY <1>5 DEF AttemptReturns, Return
<1>6. ASSUME NEW r \in AttemptResults, NEW d \in Delays, NEW pause \in Delays,
             RateLimitRetry(r, d, pause)
      PROVE  pc' = "done"
  BY <1>1, <1>6 DEF RateLimitRetry, GiveUp, Pause, Return
<1>7. ASSUME NEW r \in AttemptResults, NEW d \in Delays, NEW pause \in Delays,
             StandardRetry(r, d, pause)
      PROVE  pc' = "done" \/ (pc' = "pause" /\ standard_attempt' = attempt_index' + 1)
  <2>1. CASE GiveUp(r, d)
    BY <2>1 DEF GiveUp, Return
  <2>2. CASE Pause(r, d, pause) /\ standard_attempt' = standard_attempt + 1
    <3>1. NoRateLimitMet /\ pc = "attempt"
      BY <1>1, <1>7, <2>2 DEF Pause, StandardRetry
    <3> QED
      BY <2>2, <3>1 DEF Pause, TracksInStep
  <2> QED
    BY <1>7, <2>1, <2>2 DEF StandardRetry
<1>8. CASE UNCHANGED vars
  BY <1>8 DEF vars, TracksInStep, NoRateLimitMet
<1> QED
  BY <1>2, <1>3, <1>4, <1>5, <1>6, <1>7, <1>8 DEF Next, Advance, Done

\* A call that met no rate limit pauses only before another attempt of
\* run_with_retry, under every policy.
THEOREM RetryPausesLeadOn == Spec => []PausesLeadOn
<1>1. Init => TracksInStep
  BY DEF Init, TracksInStep
<1>2. TypeOK /\ AttemptsBounded /\ TracksInStep => PausesLeadOn
  BY PolicyFields DEF TypeOK, AttemptsBounded, TracksInStep, NoRateLimitMet, PausesLeadOn
<1> QED
  BY <1>1, <1>2, TracksInStepStep, RetryTypeCorrect, RetryAttemptsBounded, PTL DEF Spec
=============================================================================
