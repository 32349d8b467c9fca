---------------------------- MODULE Cancellation ----------------------------
(***************************************************************************)
(* CancellableTransport and CancellableResponseStream: views of a client   *)
(* whose calls and reads end when a signal fires, over the endpoints of    *)
(* that client.  The callers in Bound call through a view of one signal;   *)
(* the others use the client as it is, and share its pool with them.       *)
(*                                                                         *)
(* A race is polled signal first.  What a poll does when the signal has    *)
(* not fired is one of the endpoint's steps, or a step of the stream it    *)
(* opened; a race lost to the signal drops the call or the read.           *)
(***************************************************************************)
EXTENDS Endpoints

CONSTANT Bound  \* the callers that call through a view of the signal

ASSUME CancellationAssumption == Bound \subseteq Callers

VARIABLES
    fired,   \* wait_cancelled has resolved
    stream,  \* the stream a caller holds, and the read it awaits
    told     \* history: somebody was told that the signal fired

vars == <<endpointVars, fired, stream, told>>

Cancelled == [kind |-> "transport", code |-> "Cancelled", words |-> {}]

TypeOK ==
    /\ EndpointsTypeOK
    /\ fired \in BOOLEAN
    /\ stream \in [Callers -> {"none", "open", "reading", "readable"}]
    /\ told \in BOOLEAN
    /\ told => fired

Init ==
    /\ EndpointsInit
    /\ fired = FALSE
    /\ stream = [c \in Callers |-> "none"]
    /\ told = FALSE

-----------------------------------------------------------------------------
\* Slip: select! without biased, which may poll the call first.
GoesOnUnbiased(c) == TRUE

\* race, and the select! of the reads: the signal is asked first.
Stops(c)  == c \in Bound /\ fired
GoesOn(c) == ~Stops(c)

\* The signal fires.  Once it has resolved, it resolves at once.
Fire ==
    /\ ~fired
    /\ fired' = TRUE
    /\ UNCHANGED <<endpointVars, stream, told>>

\* The first poll of a call: pick, in the endpoint.
Begin(c) ==
    /\ stream[c] = "none"
    /\ GoesOn(c)
    /\ Pick(c) \/ Refuse(c)
    /\ UNCHANGED <<fired, stream, told>>

\* The first poll of a call finds the signal: the client is not asked.
BeginCancelled(c) ==
    /\ stream[c] = "none"
    /\ pc[c] = "idle"
    /\ Stops(c)
    /\ last' = [last EXCEPT ![c] = Cancelled]
    /\ told' = TRUE
    /\ UNCHANGED <<setup, avoided, pc, pick, answer, faults, fired, stream>>

\* The client's result comes in, from outside.
Deliver(c, r) == Arrive(c, r) /\ UNCHANGED <<fired, stream, told>>

\* A later poll of a call finds the result.  An answer to a call that opens a
\* stream is the stream.
Finish(c) ==
    /\ GoesOn(c)
    /\ Return(c)
    /\ \/ UNCHANGED stream
       \/ /\ answer[c] = Answered
          /\ stream' = [stream EXCEPT ![c] = "open"]
    /\ UNCHANGED <<fired, told>>

\* Slip: the signal is asked only when the call begins.
FinishCancelledNever(c) == FALSE

\* Slip: a cancelled call is reported like one that got no answer.
FinishCancelledBlames(c) ==
    /\ Stops(c)
    /\ InFlight(c)
    /\ avoided' = avoided \cup {pick[c]}
    /\ Leave(c, Cancelled)
    /\ told' = TRUE
    /\ UNCHANGED <<faults, fired, stream>>

\* A later poll of a call finds the signal, whether or not the result is there.
FinishCancelled(c) ==
    /\ Stops(c)
    /\ Abandon(c, Cancelled)
    /\ told' = TRUE
    /\ UNCHANGED <<fired, stream>>

\* The caller drops the call.
DropCall(c) == Abandon(c, Dropped) /\ UNCHANGED <<fired, stream, told>>

-----------------------------------------------------------------------------
(***************************************************************************)
(* CancellableResponseStream.                                              *)
(***************************************************************************)
NoCall == <<setup, avoided, pc, pick, answer, faults>>

\* read_message and read_trailers, their first poll.
BeginRead(c) ==
    /\ stream[c] = "open"
    /\ GoesOn(c)
    /\ stream' = [stream EXCEPT ![c] = "reading"]
    /\ last' = [last EXCEPT ![c] = NoResult]
    /\ UNCHANGED <<NoCall, fired, told>>

\* A message, the trailers or an error of the stream comes in, from outside.
DeliverRead(c) ==
    /\ stream[c] = "reading"
    /\ stream' = [stream EXCEPT ![c] = "readable"]
    /\ UNCHANGED <<endpointVars, fired, told>>

\* A later poll of a read finds it.  The pool does not hear of it.
FinishRead(c) ==
    /\ stream[c] = "readable"
    /\ GoesOn(c)
    /\ \E r \in {Answered} \cup Errors : last' = [last EXCEPT ![c] = r]
    /\ stream' = [stream EXCEPT ![c] = "open"]
    /\ UNCHANGED <<NoCall, fired, told>>

\* Any poll of a read finds the signal; the read is dropped, the stream kept.
ReadCancelled(c) ==
    /\ stream[c] # "none"
    /\ Stops(c)
    /\ stream' = [stream EXCEPT ![c] = "open"]
    /\ last' = [last EXCEPT ![c] = Cancelled]
    /\ told' = TRUE
    /\ UNCHANGED <<NoCall, fired>>

\* The caller drops a read, or the stream.
DropRead(c) ==
    /\ stream[c] \in {"reading", "readable"}
    /\ stream' = [stream EXCEPT ![c] = "open"]
    /\ UNCHANGED <<endpointVars, fired, told>>

DropStream(c) ==
    /\ stream[c] = "open"
    /\ stream' = [stream EXCEPT ![c] = "none"]
    /\ UNCHANGED <<endpointVars, fired, told>>

Next ==
    \/ Fire
    \/ \E c \in Callers :
          \/ Begin(c)
          \/ BeginCancelled(c)
          \/ \E r \in CallResults : Deliver(c, r)
          \/ Finish(c)
          \/ FinishCancelled(c)
          \/ DropCall(c)
          \/ BeginRead(c)
          \/ DeliverRead(c)
          \/ FinishRead(c)
          \/ ReadCancelled(c)
          \/ DropRead(c)
          \/ DropStream(c)

\* A task that waits for a call or a read, and has been woken, is polled.
Polls(c) == Finish(c) \/ FinishCancelled(c) \/ FinishRead(c) \/ ReadCancelled(c)

\* The executor polls a woken task; nothing outside (answers, messages, the
\* signal, the callers' decisions) has to happen.
Fairness == \A c \in Callers : WF_vars(Polls(c))

Spec == Init /\ [][Next]_vars /\ Fairness

-----------------------------------------------------------------------------
(***************************************************************************)
(* Properties.                                                             *)
(***************************************************************************)
Waits(c) == InFlight(c) \/ stream[c] \in {"reading", "readable"}

\* Once one caller was told that the signal fired, every caller bound to it
\* gets Cancelled from whatever call or read ends later: no answer or message
\* that was ready at that moment, and no refusal by the pool, slips out after
\* it (the biased select! of race, read_message and read_trailers).
CancelledIsFinal ==
    [][ told => \A c \in Bound :
            last'[c] # last[c] => last'[c] \in {Cancelled, Dropped} ]_vars

\* The signal ends every call and read that waits on it, though the peer never
\* answers: no caller bound to it is left waiting for good.
SignalEndsWaits == \A c \in Bound : fired /\ Waits(c) ~> ~Waits(c)

\* For the endpoints, a cancelled call is one that its caller dropped: the
\* views add no step to their pool, and the calls of the callers that are not
\* bound go on by the endpoints' own rules.
EndpointRules == EndpointsInit /\ [][EndpointsNext]_<<setup, avoided, pc, pick, answer, faults>>
=============================================================================
