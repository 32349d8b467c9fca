----------------------------- MODULE MCResilient -----------------------------
(***************************************************************************)
(* Resilient for TLC.                                                      *)
(***************************************************************************)
EXTENDS Resilient

StatusOf(code, words) == [kind |-> "status", code |-> code, words |-> words]

\* An answer, and one failure for each arm of the two classifiers that behaves
\* on its own.
AnswerSample ==
    {Answered,
     StatusOf("Unavailable", {}),
     StatusOf("Internal", {}),
     StatusOf("ResourceExhausted", {}),
     StatusOf("ResourceExhausted", {"rate"}),
     StatusOf("ResourceExhausted", {"quota", "rate"}),
     StatusOf("PermissionDenied", {}),
     [kind |-> "transport", code |-> "Unknown", words |-> {}],
     [kind |-> "decode", code |-> "Internal", words |-> {}]}

\* The limits the loop is run under.
UsedLimits == [max_attempts : 1 .. 3, rate_limit_max : 1 .. 3]

\* The circuits around it: none, one that two calls open and one probe closes,
\* one that two probes close.
UsedCircuits ==
    {[DefaultBreaker EXCEPT !.enabled = FALSE],
     [DefaultBreaker EXCEPT !.failure_threshold = 2],
     [DefaultBreaker EXCEPT !.failure_threshold = 1, !.half_open_probe_count = 2]}

\* The edges of every rule, around the defaults.
EdgeValues ==
    [max_attempts |-> {0, 1, 2, 3}, initial_backoff_ms |-> {0, 5000, 5001},
     backoff_multiplier |-> {"negative", "zero", "positive", "infinite", "nan"},
     jitter_factor |-> {"negative", "within", "above", "nan"},
     max_backoff_ms |-> {0, 99, 100}, rate_limit_max_attempts |-> {0, 1, 2, 3},
     rate_limit_initial_backoff_ms |-> {0, 10000, 10001},
     rate_limit_max_backoff_ms |-> {0, 999, 1000},
     breaker_enabled |-> BOOLEAN, failure_threshold |-> {0, 1, 2},
     cool_down_seconds |-> {0, 2}, half_open_probe_count |-> {0, 1, 2}]
=============================================================================
