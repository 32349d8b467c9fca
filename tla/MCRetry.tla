------------------------------- MODULE MCRetry -------------------------------
(***************************************************************************)
(* Retry for TLC.                                                          *)
(***************************************************************************)
EXTENDS Retry

StatusOf(code, words) == [kind |-> "status", code |-> code, words |-> words]

\* One answer for each arm of the classifier that behaves on its own.
MCAnswers ==
    {Answered,
     StatusOf("Unavailable", {}),
     StatusOf("Internal", {}),
     StatusOf("ResourceExhausted", {}),
     StatusOf("ResourceExhausted", {"rate"}),
     StatusOf("ResourceExhausted", {"quota", "rate"}),
     [kind |-> "transport", code |-> "Unknown", words |-> {}]}

\* The policy the documentation recommends: one attempt on the rate-limit track.
OneRateLimit == [max_attempts : {3}, rate_limit_max : {1}]
=============================================================================
