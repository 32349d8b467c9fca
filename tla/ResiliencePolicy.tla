-------------------------- MODULE ResiliencePolicy --------------------------
(***************************************************************************)
(* From the settings an application writes to the policies its retry and   *)
(* breaker decorators follow: GrpcRetryConfig, GrpcBreakerConfig and       *)
(* ResilienceConfig, their providers and builder, and the factories.  The  *)
(* same rules are written down in five places of three crates; the model   *)
(* keeps each of them.                                                     *)
(*                                                                         *)
(* A policy is a record.  Of a floating-point setting only the class       *)
(* matters: the code compares it with 0 and 1 and asks if it is finite.    *)
(***************************************************************************)
EXTENDS Naturals, FiniteSets

CONSTANTS
    Settable,  \* Settable[f]: the values field f may be given
    MaxEdits   \* fields an application changes, at most

VARIABLES
    source,   \* what the application writes
    named,    \* the fields it has written
    draft,    \* the values as they stand
    edits,    \* how many it has changed
    stage,    \* where the policy is
    config,   \* the ResilienceConfig
    retry,    \* the policy of the retry decorator
    breaker   \* the policy of the breaker decorator

policyVars == <<source, named, draft, edits, stage, config, retry, breaker>>

-----------------------------------------------------------------------------
RetryFields ==
    {"max_attempts", "initial_backoff_ms", "backoff_multiplier", "jitter_factor",
     "max_backoff_ms", "rate_limit_max_attempts",
     "rate_limit_initial_backoff_ms", "rate_limit_max_backoff_ms"}

BreakerFields ==
    {"breaker_enabled", "failure_threshold", "cool_down_seconds",
     "half_open_probe_count"}

Fields == RetryFields \cup BreakerFields

\* The fields that are unsigned integers.
CountFields ==
    {"max_attempts", "initial_backoff_ms", "max_backoff_ms", "rate_limit_max_attempts",
     "rate_limit_initial_backoff_ms", "rate_limit_max_backoff_ms",
     "failure_threshold", "cool_down_seconds", "half_open_probe_count"}

ASSUME ResiliencePolicyAssumption ==
    /\ MaxEdits \in Nat
    /\ \A f \in CountFields : Settable[f] \subseteq Nat

\* GrpcRetryConfig::default and GrpcBreakerConfig::default, and with the same
\* values ResilienceConfig::default.
DefaultRetry ==
    [max_attempts |-> 5, initial_backoff_ms |-> 100,
     backoff_multiplier |-> "positive", jitter_factor |-> "within",
     max_backoff_ms |-> 5000, rate_limit_max_attempts |-> 2,
     rate_limit_initial_backoff_ms |-> 1000, rate_limit_max_backoff_ms |-> 10000]

DefaultBreaker ==
    [enabled |-> TRUE, failure_threshold |-> 5, cool_down_seconds |-> 30,
     half_open_probe_count |-> 1]

DefaultResilience ==
    [max_attempts |-> 5, initial_backoff_ms |-> 100,
     backoff_multiplier |-> "positive", jitter_factor |-> "within",
     max_backoff_ms |-> 5000, rate_limit_max_attempts |-> 2,
     rate_limit_initial_backoff_ms |-> 1000, rate_limit_max_backoff_ms |-> 10000,
     breaker_enabled |-> TRUE, failure_threshold |-> 5, cool_down_seconds |-> 30,
     half_open_probe_count |-> 1]

-----------------------------------------------------------------------------
(***************************************************************************)
(* The rules, where they are written.                                      *)
(***************************************************************************)

\* GrpcRetryConfig::try_new accepts the values.
retry_try_new(v) ==
    /\ v.max_attempts # 0
    /\ v.rate_limit_max_attempts # 0
    /\ v.backoff_multiplier = "positive"
    /\ v.jitter_factor = "within"
    /\ v.max_backoff_ms >= v.initial_backoff_ms
    /\ v.rate_limit_max_backoff_ms >= v.rate_limit_initial_backoff_ms

\* Slip: the provider wants the rate-limit pauses to grow.
retry_validate_strictly(v) ==
    /\ v.max_attempts # 0
    /\ v.backoff_multiplier = "positive"
    /\ v.jitter_factor = "within"
    /\ v.max_backoff_ms >= v.initial_backoff_ms
    /\ v.rate_limit_max_attempts # 0
    /\ v.rate_limit_max_backoff_ms > v.rate_limit_initial_backoff_ms

\* StdGrpcRetryConfigProvider::validate.
retry_validate(v) ==
    /\ v.max_attempts # 0
    /\ v.backoff_multiplier = "positive"
    /\ v.jitter_factor = "within"
    /\ v.max_backoff_ms >= v.initial_backoff_ms
    /\ v.rate_limit_max_attempts # 0
    /\ v.rate_limit_max_backoff_ms >= v.rate_limit_initial_backoff_ms

\* GrpcBreakerConfig::try_new accepts the values.
breaker_try_new(v) == v.failure_threshold # 0 /\ v.half_open_probe_count # 0

\* StdGrpcBreakerConfigProvider::validate.
breaker_validate(v) == v.failure_threshold # 0 /\ v.half_open_probe_count # 0

\* Slip: the two rate-limit pauses may not be equal.
validate_strictly(v) ==
    /\ v.max_attempts # 0
    /\ v.rate_limit_max_attempts # 0
    /\ v.jitter_factor \notin {"negative", "above"}
    /\ v.half_open_probe_count # 0
    /\ v.rate_limit_max_backoff_ms > v.rate_limit_initial_backoff_ms

\* StdResilienceConfigProvider::validate.
validate(v) ==
    /\ v.max_attempts # 0
    /\ v.rate_limit_max_attempts # 0
    /\ v.jitter_factor \notin {"negative", "above"}
    /\ v.half_open_probe_count # 0
    /\ v.rate_limit_max_backoff_ms >= v.rate_limit_initial_backoff_ms

\* Slip: the longest pauses of the two tracks are crossed.
from_policies_crossed(r, b) ==
    [max_attempts |-> r.max_attempts,
     initial_backoff_ms |-> r.initial_backoff_ms,
     backoff_multiplier |-> r.backoff_multiplier,
     jitter_factor |-> r.jitter_factor,
     max_backoff_ms |-> r.rate_limit_max_backoff_ms,
     rate_limit_max_attempts |-> r.rate_limit_max_attempts,
     rate_limit_initial_backoff_ms |-> r.rate_limit_initial_backoff_ms,
     rate_limit_max_backoff_ms |-> r.max_backoff_ms,
     breaker_enabled |-> b.enabled,
     failure_threshold |-> b.failure_threshold,
     cool_down_seconds |-> b.cool_down_seconds,
     half_open_probe_count |-> b.half_open_probe_count]

\* ResilienceConfig::from_policies.
from_policies(r, b) ==
    [max_attempts |-> r.max_attempts,
     initial_backoff_ms |-> r.initial_backoff_ms,
     backoff_multiplier |-> r.backoff_multiplier,
     jitter_factor |-> r.jitter_factor,
     max_backoff_ms |-> r.max_backoff_ms,
     rate_limit_max_attempts |-> r.rate_limit_max_attempts,
     rate_limit_initial_backoff_ms |-> r.rate_limit_initial_backoff_ms,
     rate_limit_max_backoff_ms |-> r.rate_limit_max_backoff_ms,
     breaker_enabled |-> b.enabled,
     failure_threshold |-> b.failure_threshold,
     cool_down_seconds |-> b.cool_down_seconds,
     half_open_probe_count |-> b.half_open_probe_count]

\* to_retry_config: what it hands to GrpcRetryConfig::try_new.
to_retry_config(c) ==
    [max_attempts |-> c.max_attempts,
     initial_backoff_ms |-> c.initial_backoff_ms,
     backoff_multiplier |-> c.backoff_multiplier,
     jitter_factor |-> c.jitter_factor,
     max_backoff_ms |-> c.max_backoff_ms,
     rate_limit_max_attempts |-> c.rate_limit_max_attempts,
     rate_limit_initial_backoff_ms |-> c.rate_limit_initial_backoff_ms,
     rate_limit_max_backoff_ms |-> c.rate_limit_max_backoff_ms]

\* to_breaker_config: what it hands to GrpcBreakerConfig::try_new.
to_breaker_config(c) ==
    [enabled |-> c.breaker_enabled,
     failure_threshold |-> c.failure_threshold,
     cool_down_seconds |-> c.cool_down_seconds,
     half_open_probe_count |-> c.half_open_probe_count]

\* The settings of one policy among those that are written: the request that
\* TryFrom<ResilienceConfigData>, the data of a file of its own, or the builder
\* hands to try_new.  TryFrom copies the same fields as to_retry_config and
\* to_breaker_config do.
RetryPart(v)   == to_retry_config(v)
BreakerPart(v) == to_breaker_config(v)

-----------------------------------------------------------------------------
(***************************************************************************)
(* The settings.                                                           *)
(***************************************************************************)
Sources ==
    {"resilience file",    \* one file, ResilienceConfigProvider::parse_config
     "separate files",     \* one file for each policy, then from_policies
     "retry builder"}      \* the builder and a breaker file, then from_policies

PolicyInit ==
    /\ source \in Sources
    /\ named \in IF source = "separate files" THEN {{}, RetryFields} ELSE {{}}
    /\ draft = IF source = "resilience file"
               THEN DefaultResilience
               ELSE from_policies(DefaultRetry, DefaultBreaker)
    /\ edits = 0
    /\ stage = "draft"
    /\ config = DefaultResilience
    /\ retry = DefaultRetry
    /\ breaker = DefaultBreaker

\* A field is written: a key of a file, or a method of the builder.
Write(f, v) ==
    /\ stage = "draft"
    /\ edits < MaxEdits
    /\ edits' = edits + 1
    /\ named' = named \cup {f}
    /\ draft' = [draft EXCEPT ![f] = v]
    /\ UNCHANGED <<source, stage, config, retry, breaker>>

\* What the provider or the builder of the retry policy accepts.
RetryLoads == retry_try_new(RetryPart(draft)) /\ retry_validate(RetryPart(draft))

BreakerLoads == breaker_try_new(BreakerPart(draft)) /\ breaker_validate(BreakerPart(draft))

\* What ResilienceConfig's TryFrom and then the provider accept.
ResilienceLoads ==
    /\ retry_try_new(RetryPart(draft))
    /\ breaker_try_new(BreakerPart(draft))
    /\ validate(from_policies(RetryPart(draft), BreakerPart(draft)))

\* A retry file must name every key; every other setting has a default.
Complete == source = "separate files" => RetryFields \subseteq named

\* The settings pass the rules of source s.
Accepts(s) == IF s = "resilience file" THEN ResilienceLoads ELSE RetryLoads /\ BreakerLoads

\* The settings become a ResilienceConfig, or are refused.
Load ==
    /\ stage = "draft"
    /\ LET accepted == Complete /\ Accepts(source)
       IN  /\ stage' = IF accepted THEN "config" ELSE "refused"
           /\ config' = IF accepted
                        THEN from_policies(RetryPart(draft), BreakerPart(draft))
                        ELSE config
    /\ UNCHANGED <<source, named, draft, edits, retry, breaker>>

\* StdGrpcResilientFactory::build, with the two factories it uses.
Build ==
    /\ stage = "config"
    /\ LET r == to_retry_config(config)
           b == to_breaker_config(config)
           accepted == /\ validate(config)
                       /\ retry_try_new(r)
                       /\ breaker_try_new(b)
                       /\ breaker_validate(b)
       IN  /\ stage' = IF accepted THEN "built" ELSE "unbuildable"
           /\ retry' = IF accepted THEN r ELSE retry
           /\ breaker' = IF accepted THEN b ELSE breaker
    /\ UNCHANGED <<source, named, draft, edits, config>>

Configure ==
    \/ \E f \in Fields : \E v \in Settable[f] : Write(f, v)
    \/ Load
    \/ Build

-----------------------------------------------------------------------------
(***************************************************************************)
(* Properties.                                                             *)
(***************************************************************************)

\* A ResilienceConfig that an application can hold builds a client: no rule of
\* the factories is stricter than the rules its settings passed, whichever way
\* they came (validate, try_new of both policies).
ObtainableBuilds == stage # "unbuildable"

\* The decorators follow the values that were written, and the defaults for
\* the rest: no value is lost or crossed between the two tracks on its way
\* through the three conversions (TryFrom, from_policies, to_retry_config and
\* to_breaker_config), each of which names its fields one by one.
SettingsReachClients ==
    stage = "built" =>
        /\ \A f \in RetryFields : retry[f] = draft[f]
        /\ breaker.enabled = draft.breaker_enabled
        /\ \A f \in BreakerFields \ {"breaker_enabled"} : breaker[f] = draft[f]

\* It does not matter where settings come from: what one source accepts, the
\* others accept, though the rules of GrpcRetryConfig::try_new, the retry and
\* breaker providers and the provider of a ResilienceConfig are written apart
\* and are not the same.
SourcesAgree == \A s, t \in Sources : Accepts(s) <=> Accepts(t)
=============================================================================
