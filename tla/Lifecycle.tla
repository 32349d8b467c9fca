------------------------------ MODULE Lifecycle ------------------------------
(***************************************************************************)
(* InterceptedTransport and PatternResponseStream: one call through the    *)
(* chain of interceptors, and what the chain is told about it.             *)
(*                                                                         *)
(* The hooks and the events are synchronous; the call, a read of a message *)
(* and a read of the trailers are awaited, and the caller may drop any of  *)
(* the three while it waits.  Dropping a read leaves the stream as it was. *)
(* The reads borrow the stream for themselves; get_headers does not, so    *)
(* several observers may be in it at once, between two reads.              *)
(*                                                                         *)
(* The wrapped client and its stream are external: a read may give a       *)
(* message, the end or an error whatever came before it, and metadata may  *)
(* hold an entry that cannot be copied.                                    *)
(***************************************************************************)
EXTENDS Naturals, Sequences

CONSTANTS
    Observers,  \* who may ask a stream for its headers
    MaxEvents   \* no read begins after this many events

ASSUME LifecycleAssumption == MaxEvents \in Nat

VARIABLES
    kind,        \* "reply": unary, client stream; "stream": server, bidi
    watched,     \* the chain is not empty
    pc,          \* where the call is
    result,      \* what the caller got from the call
    opened,      \* PatternResponseStream::opened
    terminal,    \* PatternResponseStream::terminal
    observer,    \* where each observer is in get_headers
    events,      \* history: what the chain was told
    suppressed   \* history: the end was not told, its trailers are unreadable

vars == <<kind, watched, pc, result, opened, terminal, observer, events, suppressed>>

stream == <<opened, terminal, observer>>

-----------------------------------------------------------------------------
TerminalEvents == {"Completed", "Failed", "Cancelled"}
Events == {"Started", "Opened", "MessageRead"} \cup TerminalEvents

Results ==
    {"none",
     "ok",          \* the reply, or the stream
     "refused",     \* by an interceptor's before_call
     "failed",      \* by the wrapped client
     "unreadable",  \* the reply's metadata cannot be copied
     "rejected",    \* by an interceptor's after_call
     "dropped"}     \* the caller dropped the call

TypeOK ==
    /\ kind \in {"reply", "stream"}
    /\ watched \in BOOLEAN
    /\ pc \in {"start", "calling", "open", "reading", "closing", "gone"}
    /\ result \in Results
    /\ opened \in BOOLEAN
    /\ terminal \in BOOLEAN
    /\ observer \in [Observers -> {"out", "opening"}]
    /\ \A o \in Observers : observer[o] = "opening" => pc = "open"
    /\ events \in Seq(Events)
    /\ suppressed \in BOOLEAN

Init ==
    /\ kind \in {"reply", "stream"}
    /\ watched \in BOOLEAN
    /\ pc = "start"
    /\ result = "none"
    /\ opened = FALSE
    /\ terminal = FALSE
    /\ observer = [o \in Observers |-> "out"]
    /\ events = <<>>
    /\ suppressed = FALSE

\* on_event: the chain is told, unless the metadata of the event cannot be
\* copied.
Tell(event, readable) ==
    events' = IF watched /\ readable THEN Append(events, event) ELSE events

Return(r) == pc' = "gone" /\ result' = r

\* The stream is not borrowed.
Free == pc = "open" /\ \A o \in Observers : observer[o] = "out"

-----------------------------------------------------------------------------
(***************************************************************************)
(* The call.                                                               *)
(***************************************************************************)

\* run_before: an interceptor refuses the call.
Refuse ==
    /\ pc = "start"
    /\ watched
    /\ Return("refused")
    /\ UNCHANGED <<kind, watched, stream, events, suppressed>>

\* run_before: every interceptor lets the call go.
Start ==
    /\ pc = "start"
    /\ Tell("Started", TRUE)
    /\ pc' = "calling"
    /\ UNCHANGED <<kind, watched, result, stream, suppressed>>

\* The wrapped client fails the call.
CallFails ==
    /\ pc = "calling"
    /\ Tell("Failed", TRUE)
    /\ Return("failed")
    /\ UNCHANGED <<kind, watched, stream, suppressed>>

\* The caller drops the call while it waits for it.
CallDropped ==
    /\ pc = "calling"
    /\ Return("dropped")
    /\ UNCHANGED <<kind, watched, stream, events, suppressed>>

\* Slip: the reply is announced before the after hooks have seen it.
AnnounceThenAsk(readable, accepted) ==
    IF watched /\ ~(readable /\ accepted)
    THEN /\ events' = events \o <<"Completed", "Failed">>
         /\ Return(IF readable THEN "rejected" ELSE "unreadable")
    ELSE Tell("Completed", readable) /\ Return("ok")

\* run_after: the metadata is copied for the after hooks, which may reject the
\* reply; with no interceptor there is neither copy nor hook.
run_after(readable, accepted) ==
    IF watched /\ ~(readable /\ accepted)
    THEN /\ Tell("Failed", TRUE)
         /\ Return(IF readable THEN "rejected" ELSE "unreadable")
    ELSE Tell("Completed", readable) /\ Return("ok")

Reply(readable, accepted) ==
    /\ pc = "calling"
    /\ kind = "reply"
    /\ run_after(readable, accepted)
    /\ UNCHANGED <<kind, watched, stream, suppressed>>

\* The stream is there; notify_opened tells of its headers if they are there
\* too.
StreamOpens(available, readable) ==
    /\ pc = "calling"
    /\ kind = "stream"
    /\ pc' = "open"
    /\ result' = "ok"
    /\ opened' = available
    /\ Tell("Opened", available /\ readable)
    /\ UNCHANGED <<kind, watched, terminal, observer, suppressed>>

-----------------------------------------------------------------------------
(***************************************************************************)
(* The stream.                                                             *)
(***************************************************************************)

\* Slip: opened is read and written in two steps.
ObserveUnswapped(o) ==
    /\ pc = "open"
    /\ observer[o] = "out"
    /\ ~opened
    /\ UNCHANGED opened
    /\ observer' = [observer EXCEPT ![o] = "opening"]
    /\ UNCHANGED <<kind, watched, pc, result, terminal, events, suppressed>>

\* get_headers, the headers being there: the observer that finds opened unset
\* sets it, and has yet to tell.  For every other observer nothing changes.
Observe(o) ==
    /\ pc = "open"
    /\ observer[o] = "out"
    /\ ~opened
    /\ opened' = TRUE
    /\ observer' = [observer EXCEPT ![o] = "opening"]
    /\ UNCHANGED <<kind, watched, pc, result, terminal, events, suppressed>>

TellOpened(o, readable) ==
    /\ observer[o] = "opening"
    /\ Tell("Opened", readable)
    /\ observer' = [observer EXCEPT ![o] = "out"]
    /\ UNCHANGED <<kind, watched, pc, result, opened, terminal, suppressed>>

\* read_message and read_trailers, up to the await.
BeginRead(read) ==
    /\ Free
    /\ Len(events) <= MaxEvents
    /\ pc' = read
    /\ UNCHANGED <<kind, watched, result, stream, events, suppressed>>

\* read_message: a message.
MessageRead ==
    /\ pc = "reading"
    /\ Tell("MessageRead", TRUE)
    /\ pc' = "open"
    /\ UNCHANGED <<kind, watched, result, stream, suppressed>>

\* read_message found the end of the stream, or the caller dropped a read.
ReadLeft ==
    /\ pc \in {"reading", "closing"}
    /\ pc' = "open"
    /\ UNCHANGED <<kind, watched, result, stream, events, suppressed>>

\* Slip: the stream is not marked as ended.
ReadFailsUnmarked ==
    /\ pc \in {"reading", "closing"}
    /\ Tell("Failed", TRUE)
    /\ pc' = "open"
    /\ UNCHANGED <<kind, watched, result, stream, suppressed>>

\* read_message, read_trailers: an error.
ReadFails ==
    /\ pc \in {"reading", "closing"}
    /\ terminal' = TRUE
    /\ Tell("Failed", TRUE)
    /\ pc' = "open"
    /\ UNCHANGED <<kind, watched, result, opened, observer, suppressed>>

\* read_trailers: the trailers.
TrailersRead(readable) ==
    /\ pc = "closing"
    /\ Tell("Completed", readable)
    /\ terminal' = TRUE
    /\ suppressed' = (suppressed \/ ~readable)
    /\ pc' = "open"
    /\ UNCHANGED <<kind, watched, result, opened, observer>>

\* Slip: a stream that is dropped is not reported.
DropSilently ==
    /\ Free
    /\ pc' = "gone"
    /\ UNCHANGED <<kind, watched, result, stream, events, suppressed>>

\* Drop for PatternResponseStream.
DropStream ==
    /\ Free
    /\ IF terminal THEN UNCHANGED events ELSE Tell("Cancelled", TRUE)
    /\ pc' = "gone"
    /\ UNCHANGED <<kind, watched, result, stream, suppressed>>

\* The call, and the stream if there was one, is over.
Gone == pc = "gone" /\ UNCHANGED vars

Next ==
    \/ Refuse
    \/ Start
    \/ CallFails
    \/ CallDropped
    \/ \E readable, accepted \in BOOLEAN : Reply(readable, accepted)
    \/ \E available, readable \in BOOLEAN : StreamOpens(available, readable)
    \/ \E o \in Observers :
          \/ Observe(o)
          \/ \E readable \in BOOLEAN : TellOpened(o, readable)
    \/ \E read \in {"reading", "closing"} : BeginRead(read)
    \/ MessageRead
    \/ ReadLeft
    \/ ReadFails
    \/ \E readable \in BOOLEAN : TrailersRead(readable)
    \/ DropStream
    \/ Gone

Spec == Init /\ [][Next]_vars

-----------------------------------------------------------------------------
(***************************************************************************)
(* Properties.                                                             *)
(***************************************************************************)
Told(event) == \E i \in 1 .. Len(events) : events[i] = event

\* The chain is never told otherwise than the caller: Completed only of a reply
\* the caller has, Failed only of a call that failed for the caller, so never
\* both; a call that failed at the wrapped client or was rejected by an after
\* hook is told as Failed, and of a call that a before hook refused nothing is
\* told (run_before, run_after, on_error).  Whether the chain hears of the end
\* of a dropped call, and whether metadata that cannot be copied may fail a
\* reply, is left open: there the documents and the code disagree.
RepliesToldTruly ==
    kind = "reply" /\ watched /\ pc = "gone" =>
        /\ Told("Completed") <=> result = "ok"
        /\ Told("Failed") => result \in {"failed", "unreadable", "rejected"}
        /\ result \in {"failed", "rejected"} => Told("Failed")
        /\ result = "refused" => events = <<>>

\* The headers of a stream are announced once, whether notify_opened or any of
\* several observers in get_headers finds them first, and the announcement
\* never comes after the stream was dropped.
OpenedOnce ==
    \A i, j \in 1 .. Len(events) :
        events[i] = "Opened" =>
            /\ events[j] = "Opened" => i = j
            /\ events[j] = "Cancelled" => i < j

\* Cancelled is said only of a stream whose end nobody saw (Drop): it is the
\* last event and no other end was told before it.
CancelledOnlyIfUnended ==
    \A i \in 1 .. Len(events) :
        events[i] = "Cancelled" =>
            /\ i = Len(events)
            /\ \A j \in 1 .. i - 1 : events[j] \notin TerminalEvents

\* Once a stream is gone the chain was told of its end, whatever the caller did
\* with it; only trailers that cannot be copied keep it from the chain.
StreamEndIsTold ==
    watched /\ kind = "stream" /\ pc = "gone" /\ result \in {"ok", "failed"} =>
        suppressed \/ \E e \in TerminalEvents : Told(e)

\* The adapter emits "one terminal `Completed`/`Failed`/`Cancelled`".
OneTerminalEvent ==
    \A i, j \in 1 .. Len(events) :
        events[i] \in TerminalEvents /\ events[j] \in TerminalEvents => i = j
=============================================================================
