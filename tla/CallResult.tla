----------------------------- MODULE CallResult -----------------------------
(***************************************************************************)
(* What a call through the client ends in: an answer or a CallError, as    *)
(* far as any layer of the client tells two of them apart.  CallError and  *)
(* StatusCode are types of the proto-pattern contract, which is not in     *)
(* this repository; they are modelled from the arms of the two classifiers *)
(* that match on them.                                                     *)
(*                                                                         *)
(* A status message is the set of the word groups found in it.  Only       *)
(* classify_resource_exhausted reads a message, and it looks for one word  *)
(* group before the other, so a message with both must be representable.   *)
(***************************************************************************)

\* Every arm of classify_status, RetryClassifier.
StatusCode ==
    {"Ok", "Cancelled", "Unknown", "InvalidArgument", "DeadlineExceeded",
     "NotFound", "AlreadyExists", "PermissionDenied", "ResourceExhausted",
     "FailedPrecondition", "Aborted", "OutOfRange", "Unimplemented",
     "Internal", "Unavailable", "DataLoss", "Unauthenticated"}

\* "quota" stands for quota | billing | plan limit, "rate" for
\* rate | too many requests | throttl.
MessageWords == {"quota", "rate"}

\* A call that was answered.
Answered == [kind |-> "ok", code |-> "Ok", words |-> {}]

\* CallError::Status: the peer answered with a status.
Status == [kind : {"status"}, code : StatusCode, words : SUBSET MessageWords]

\* CallError::Transport: the call did not get an answer from the peer.
Transport == [kind : {"transport"}, code : StatusCode, words : {{}}]

\* CallError::Encode and CallError::Decode.
Codec == [kind : {"encode", "decode"}, code : {"Internal"}, words : {{}}]

CallError == Status \cup Transport \cup Codec

CallResults == {Answered} \cup CallError
=============================================================================
