--------------------------- MODULE MCCancellation ---------------------------
(***************************************************************************)
(* Cancellation, and the endpoints under it, for TLC.                      *)
(***************************************************************************)
EXTENDS Cancellation

CONSTANTS c1, c2

TwoCallers  == {c1, c2}
OneBound    == {c1}
TwoBackends == {1, 2}

\* Not reached, late; answered with an error; failed on this side.
LostSample ==
    {[kind |-> "transport", code |-> "Unavailable", words |-> {}],
     [kind |-> "status", code |-> "DeadlineExceeded", words |-> {}]}
PeerSample  == {[kind |-> "status", code |-> "NotFound", words |-> {}]}
LocalSample == {[kind |-> "encode", code |-> "Internal", words |-> {}]}
=============================================================================
