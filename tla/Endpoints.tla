------------------------------ MODULE Endpoints ------------------------------
(***************************************************************************)
(* EndpointTransport: calls of several callers over one endpoint, or over  *)
(* the backends of a pool that learns from how the calls end.              *)
(*                                                                         *)
(* The pool (swe-edge-loadbalancer) and the client of a backend are        *)
(* external.  The pool avoids a backend from a reported failure to a       *)
(* reported success and has nothing to select when it avoids them all; it  *)
(* is told of nothing but those reports.  The builder makes one client per *)
(* backend (ClientBuilder), so a pick always finds its client.             *)
(*                                                                         *)
(* What happened to a call is told apart from how its error is judged: a   *)
(* call is lost with its backend, is failed by a backend that answers, or  *)
(* fails on this side and never gets there.                                *)
(***************************************************************************)
EXTENDS Naturals, FiniteSets, CallResult

CONSTANTS
    Callers,      \* tasks that share the client, one call each at a time
    Backends,     \* the backends, in the order of the settings
    LostErrors,   \* what a call to a backend that is gone, or late, ends in
    PeerErrors,   \* what a backend that is there answers with
    LocalErrors   \* what a call that fails on this side ends in

ASSUME EndpointsAssumption ==
    /\ Backends \in SUBSET (Nat \ {0}) /\ Backends # {}
    /\ \A S \in SUBSET Backends :
          S # {} => \E first \in S : \A b \in S : first <= b
    /\ IsFiniteSet(Callers)

\* The client of a backend is the engine's (external).  It has Transport with
\* Unavailable or Unknown for a peer that it cannot reach, reports a passed
\* deadline as a status "whoever noticed it", hands on what the peer answers as
\* a status, and has its own codes for what it does not send.
ASSUME EngineAssumption ==
    /\ LostErrors \subseteq {e \in Transport : e.code \in {"Unavailable", "Unknown"}}
                          \cup {e \in Status : e.code = "DeadlineExceeded"}
    /\ PeerErrors \subseteq {e \in Status : e.code # "DeadlineExceeded"}
    /\ LocalErrors \subseteq Codec \cup
                   {e \in Transport : e.code \in {"InvalidArgument", "Cancelled"}}

Errors == LostErrors \cup PeerErrors \cup LocalErrors

VARIABLES
    sound,      \* backends that stay reachable and within every deadline
    balancing,  \* the strategy of the pool, "none" without a pool
    avoided,    \* the pool: backends whose last report is a failure
    pc,         \* where each caller is
    pick,       \* Pick: the backend whose client has the caller's call
    answer,     \* what the client of the pick came back with
    last,       \* what each caller was last given
    faults      \* history: calls each backend failed since one it did not

setup == <<sound, balancing>>

endpointVars == <<setup, avoided, pc, pick, answer, last, faults>>

-----------------------------------------------------------------------------
NoPick   == 0
NoResult == [kind |-> "none", code |-> "Ok", words |-> {}]
Dropped  == [kind |-> "dropped", code |-> "Ok", words |-> {}]

Strategies == {"round-robin", "weighted", "least-connections"}

\* What a caller can be given.
Given == {NoResult, Dropped} \cup CallResults

InFlight(c) == pc[c] \in {"waiting", "ready"}

EndpointsTypeOK ==
    /\ sound \in SUBSET Backends
    /\ balancing \in Strategies \cup {"none"}
    /\ avoided \in SUBSET Backends
    /\ pc \in [Callers -> {"idle", "waiting", "ready"}]
    /\ pick \in [Callers -> Backends \cup {NoPick}]
    /\ answer \in [Callers -> CallResults \cup {NoResult}]
    /\ last \in [Callers -> Given]
    /\ faults \in [Backends -> Nat]
    /\ \A c \in Callers : /\ InFlight(c) <=> pick[c] # NoPick
                          /\ pc[c] = "ready" <=> answer[c] # NoResult

EndpointsInit ==
    /\ sound \in SUBSET Backends
    /\ balancing \in Strategies \cup {"none"}
    /\ avoided = {}
    /\ pc = [c \in Callers |-> "idle"]
    /\ pick = [c \in Callers |-> NoPick]
    /\ answer = [c \in Callers |-> NoResult]
    /\ last = [c \in Callers |-> NoResult]
    /\ faults = [b \in Backends |-> 0]

-----------------------------------------------------------------------------
(***************************************************************************)
(* The pool.                                                               *)
(***************************************************************************)
Healthy == Backends \ avoided

FirstOf(S) == CHOOSE b \in S : \A other \in S : b <= other

\* LoadbalancerSvc::select: the backends it may return.  Turns and weights are
\* the pool's own; connections it does not count, so the least connected
\* backend is the first.
Select ==
    IF balancing = "least-connections" /\ Healthy # {}
    THEN {FirstOf(Healthy)}
    ELSE Healthy

\* LoadbalancerSvc::report_outcome.
report_outcome(b, outcome) ==
    avoided' = IF outcome = "failure" THEN avoided \cup {b} ELSE avoided \ {b}

-----------------------------------------------------------------------------
(***************************************************************************)
(* The endpoint.                                                           *)
(***************************************************************************)

\* Slip: every error is held against the backend.
JudgeAnyError(r) == IF r.kind = "ok" THEN "success" ELSE "failure"

\* judge_outcome.
judge_outcome(r) ==
    IF \/ r.kind = "transport" /\ r.code \in {"Unavailable", "Unknown"}
       \/ r.kind = "status" /\ r.code = "DeadlineExceeded"
    THEN "failure"
    ELSE "success"

\* What the client of a backend may come back with.  A call can fail on this
\* side whichever backend it was meant for.
ResultsOf(b) ==
    {Answered} \cup PeerErrors \cup LocalErrors \cup (IF b \in sound THEN {} ELSE LostErrors)

\* refuse.
refuse(code) == [kind |-> "transport", code |-> code, words |-> {}]

\* Slip: the pool is not told how the call went.
ReportNothing(c) == UNCHANGED avoided

\* report: only a call that a pool picked the backend of is reported.
report(c) ==
    IF balancing = "none"
    THEN UNCHANGED avoided
    ELSE report_outcome(pick[c], judge_outcome(answer[c]))

\* pick: the backends a call may go to.
Picks == IF balancing = "none" THEN {FirstOf(Backends)} ELSE Select

\* A call of any shape, up to the await: pick finds a client ...
Pick(c) ==
    /\ pc[c] = "idle"
    /\ \E b \in Picks : pick' = [pick EXCEPT ![c] = b]
    /\ pc' = [pc EXCEPT ![c] = "waiting"]
    /\ last' = [last EXCEPT ![c] = NoResult]
    /\ UNCHANGED <<setup, avoided, answer, faults>>

\* ... or the pool has no backend to select.
Refuse(c) ==
    /\ pc[c] = "idle"
    /\ Picks = {}
    /\ last' = [last EXCEPT ![c] = refuse("Unavailable")]
    /\ UNCHANGED <<setup, avoided, pc, pick, answer, faults>>

\* The client of the pick has its result; the caller has yet to be polled.
Arrive(c, r) ==
    /\ pc[c] = "waiting"
    /\ r \in ResultsOf(pick[c])
    /\ answer' = [answer EXCEPT ![c] = r]
    /\ pc' = [pc EXCEPT ![c] = "ready"]
    /\ UNCHANGED <<setup, avoided, pick, last, faults>>

\* The call is over for the caller.
Leave(c, given) ==
    /\ pc' = [pc EXCEPT ![c] = "idle"]
    /\ pick' = [pick EXCEPT ![c] = NoPick]
    /\ answer' = [answer EXCEPT ![c] = NoResult]
    /\ last' = [last EXCEPT ![c] = given]
    /\ UNCHANGED setup

\* A call of any shape, from the await on.  A stream is reported when it is
\* there, and never again.
Return(c) ==
    /\ pc[c] = "ready"
    /\ report(c)
    /\ Leave(c, answer[c])
    /\ faults' = IF balancing = "none" THEN faults
                 ELSE [faults EXCEPT ![pick[c]] = IF answer[c] \in LostErrors THEN @ + 1 ELSE 0]

\* The caller drops the call while it waits, its answer ready or not: what
\* comes after the await is not run.
Abandon(c, given) ==
    /\ InFlight(c)
    /\ Leave(c, given)
    /\ UNCHANGED <<avoided, faults>>

EndpointsNext ==
    \E c \in Callers :
        \/ Pick(c)
        \/ Refuse(c)
        \/ \E r \in CallResults : Arrive(c, r)
        \/ Return(c)
        \/ \E given \in Given : Abandon(c, given)

EndpointsSpec == EndpointsInit /\ [][EndpointsNext]_endpointVars

-----------------------------------------------------------------------------
(***************************************************************************)
(* Properties.                                                             *)
(***************************************************************************)

\* A backend that is reachable and in time is never avoided, so a client with
\* one is never refused by its own pool: neither the errors that backend
\* answers with, nor calls that fail on this side or are dropped half way, nor
\* the failures of its neighbours put it aside (judge_outcome, report).
SoundIsServed == avoided \cap sound = {} /\ (sound # {} => Picks # {})

\* A backend that is gone costs each caller one call at most before it is left
\* alone: the calls it has failed, and those that are still out to it, are
\* never more than the callers (pick, report).
FaultsBounded ==
    \A b \in Backends :
        LET waiting == {c \in Callers : pick[c] = b}
        IN  faults[b] > 0 => faults[b] + Cardinality(waiting) <= Cardinality(Callers)

\* "A backend that fails a call is avoided until a call to it succeeds again":
\* the pool takes a backend back only when the backend has answered a call, be
\* it with an error (report, judge_outcome).
AvoidedUntilAnswer ==
    [][ \A b \in avoided \ avoided' :
            \E c \in Callers : pick[c] = b /\ answer[c] \in {Answered} \cup PeerErrors
      ]_endpointVars
=============================================================================
