--------------------------- MODULE LifecycleProofs ---------------------------
(***************************************************************************)
(* Proofs about Lifecycle, for any number of observers and events.         *)
(***************************************************************************)
EXTENDS Lifecycle, SequenceTheorems, TLAPS

\* What one more event does to a history.
LEMMA OneMoreEvent ==
    ASSUME NEW h \in Seq(Events), NEW e \in Events
    PROVE  /\ Append(h, e) \in Seq(Events)
           /\ Len(Append(h, e)) = Len(h) + 1
           /\ \A i \in 1 .. Len(h) : Append(h, e)[i] = h[i]
           /\ Append(h, e)[Len(h) + 1] = e
OBVIOUS

\* Telling the chain of an event adds that event or nothing.
LEMMA TellAdds ==
    ASSUME TypeOK, NEW e \in Events, NEW readable, Tell(e, readable)
    PROVE  /\ events' \in Seq(Events)
           /\ events' = events \/ events' = Append(events, e)
BY OneMoreEvent DEF TypeOK, Tell

-----------------------------------------------------------------------------
(***************************************************************************)
(* Type correctness.                                                       *)
(***************************************************************************)
LEMMA TypeOKStep == TypeOK /\ [Next]_vars => TypeOK'
<1> SUFFICES ASSUME TypeOK, [Next]_vars PROVE TypeOK'
    OBVIOUS
<1> USE DEF TypeOK, stream
<1>1. CASE UNCHANGED vars
    BY <1>1 DEF vars
<1>2. CASE Refuse
    BY <1>2 DEF Refuse, Return, Results
<1>3. CASE Start
    BY <1>3, TellAdds DEF Start, Events
<1>4. CASE CallFails
    BY <1>4, TellAdds DEF CallFails, Return, Results, Events, TerminalEvents
<1>5. CASE CallDropped
    BY <1>5 DEF CallDropped, Return, Results
<1>6. ASSUME NEW readable \in BOOLEAN, NEW accepted \in BOOLEAN, Reply(readable, accepted)
      PROVE  TypeOK'
    BY <1>6, TellAdds DEF Reply, run_after, Return, Results, Events, TerminalEvents
<1>7. ASSUME NEW available \in BOOLEAN, NEW readable \in BOOLEAN,
             StreamOpens(available, readable)
      PROVE  TypeOK'
    BY <1>7, TellAdds DEF StreamOpens, Results, Events
<1>8. ASSUME NEW o \in Observers, Observe(o)
      PROVE  TypeOK'
    BY <1>8 DEF Observe
<1>9. ASSUME NEW o \in Observers, NEW readable \in BOOLEAN, TellOpened(o, readable)
      PROVE  TypeOK'
    BY <1>9, TellAdds DEF TellOpened, Events
<1>10. ASSUME NEW read \in {"reading", "closing"}, BeginRead(read)
       PROVE  TypeOK'
    BY <1>10 DEF BeginRead, Free
<1>11. CASE MessageRead
    BY <1>11, TellAdds DEF MessageRead, Events
<1>12. CASE ReadLeft
    BY <1>12 DEF ReadLeft
<1>13. CASE ReadFails
    BY <1>13, TellAdds DEF ReadFails, Events, TerminalEvents
<1>14. ASSUME NEW readable \in BOOLEAN, TrailersRead(readable)
       PROVE  TypeOK'
    BY <1>14, TellAdds DEF TrailersRead, Events, TerminalEvents
<1>15. CASE DropStream
    BY <1>15, TellAdds DEF DropStream, Free, Events, TerminalEvents
<1>16. CASE Gone
    BY <1>16 DEF Gone, vars
<1> QED
    BY <1>1, <1>2, <1>3, <1>4, <1>5, <1>6, <1>7, <1>8, <1>9, <1>10, <1>11,
       <1>12, <1>13, <1>14, <1>15, <1>16 DEF Next

\* Every variable keeps its type, and nobody is in get_headers while a read or
\* the drop of the stream has it.
THEOREM LifecycleTypeCorrect == Spec => []TypeOK
<1>1. Init => TypeOK
  <2> SUFFICES ASSUME Init PROVE TypeOK
      OBVIOUS
  <2>1. events \in Seq(Events)
      BY DEF Init
  <2>2. observer \in [Observers -> {"out", "opening"}]
      BY DEF Init
  <2>3. \A o \in Observers : observer[o] = "opening" => pc = "open"
      BY DEF Init
  <2> QED
      BY <2>1, <2>2, <2>3 DEF Init, TypeOK, Results
<1> QED
    BY <1>1, TypeOKStep, PTL DEF Spec

-----------------------------------------------------------------------------
(***************************************************************************)
(* What a step adds to the history.                                        *)
(***************************************************************************)

\* The chain has been told of an end.
EndTold == \E e \in TerminalEvents : Told(e)

\* A step that tells of f tells of f and of nothing else.
LEMMA ToldAfter ==
    ASSUME TypeOK, NEW f \in Events, events' = Append(events, f)
    PROVE  \A e : Told(e)' <=> Told(e) \/ e = f
<1> SUFFICES ASSUME NEW e PROVE Told(e)' <=> Told(e) \/ e = f
    OBVIOUS
<1>1. /\ Len(events) \in Nat
      /\ Len(events') = Len(events) + 1
      /\ \A i \in 1 .. Len(events) : events'[i] = events[i]
      /\ events'[Len(events) + 1] = f
    BY OneMoreEvent DEF TypeOK
<1> QED
    BY <1>1 DEF Told

\* The same of a step that may have told of f.
LEMMA ToldByTell ==
    ASSUME TypeOK, NEW f \in Events, NEW readable \in BOOLEAN, Tell(f, readable)
    PROVE  \A e : Told(e)' => Told(e) \/ e = f
<1>1. CASE events' = events
    BY <1>1 DEF Told
<1>2. CASE events' = Append(events, f)
    BY <1>2, ToldAfter
<1> QED
    BY <1>1, <1>2, TellAdds

-----------------------------------------------------------------------------
(***************************************************************************)
(* The announcement of the headers.                                        *)
(***************************************************************************)

\* Until opened is set nobody announces and nobody is about to; the observer
\* that has set it is alone and nothing has been announced yet.
OpenedInv ==
    /\ pc \in {"start", "calling"} => ~opened
    /\ ~opened => ~Told("Opened") /\ \A o \in Observers : observer[o] = "out"
    /\ \A o, p \in Observers :
          observer[o] = "opening" =>
              ~Told("Opened") /\ (observer[p] = "opening" => p = o)
    /\ Told("Cancelled") => pc = "gone"
    /\ OpenedOnce

\* An event other than Opened and Cancelled leaves the announcement as it was.
LEMMA OtherEvent ==
    ASSUME TypeOK, OpenedOnce,
           NEW f \in Events \ {"Opened", "Cancelled"}, NEW readable \in BOOLEAN,
           Tell(f, readable)
    PROVE  /\ OpenedOnce'
           /\ Told("Opened")' => Told("Opened")
           /\ Told("Cancelled")' => Told("Cancelled")
<1>1. OpenedOnce'
  <2>1. CASE events' = events
      BY <2>1 DEF OpenedOnce
  <2>2. CASE events' = Append(events, f)
    <3>1. /\ Len(events) \in Nat
          /\ Len(events') = Len(events) + 1
          /\ \A i \in 1 .. Len(events) : events'[i] = events[i]
          /\ events'[Len(events) + 1] = f
        BY <2>2, OneMoreEvent DEF TypeOK
    <3> QED
        BY <3>1 DEF OpenedOnce
  <2> QED
      BY <2>1, <2>2, TellAdds
<1>2. \A e : Told(e)' => Told(e) \/ e = f
    BY ToldByTell
<1> QED
    BY <1>1, <1>2

\* The first announcement, before any Cancelled.
LEMMA FirstOpened ==
    ASSUME TypeOK, NEW readable \in BOOLEAN, Tell("Opened", readable),
           ~Told("Opened"), ~Told("Cancelled")
    PROVE  /\ OpenedOnce'
           /\ ~Told("Cancelled")'
<1>1. "Opened" \in Events
    BY DEF Events
<1>2. ~Told("Cancelled")'
    BY <1>1, ToldByTell
<1>3. CASE events' = events
    BY <1>3 DEF OpenedOnce, Told
<1>4. CASE events' = Append(events, "Opened")
  <2>1. /\ Len(events) \in Nat
        /\ Len(events') = Len(events) + 1
        /\ \A i \in 1 .. Len(events) : events'[i] = events[i]
      BY <1>1, <1>4, OneMoreEvent DEF TypeOK
  <2> QED
      BY <2>1, <1>2 DEF OpenedOnce, Told
<1> QED
    BY <1>1, <1>2, <1>3, <1>4, TellAdds

\* The end of a stream that no observer holds.
LEMMA LastCancelled ==
    ASSUME TypeOK, OpenedOnce, ~Told("Cancelled"), Tell("Cancelled", TRUE)
    PROVE  /\ OpenedOnce'
           /\ Told("Opened")' => Told("Opened")
<1>1. "Cancelled" \in Events
    BY DEF Events, TerminalEvents
<1>2. CASE events' = events
    BY <1>2 DEF OpenedOnce, Told
<1>3. CASE events' = Append(events, "Cancelled")
  <2>1. /\ Len(events) \in Nat
        /\ Len(events') = Len(events) + 1
        /\ \A i \in 1 .. Len(events) : events'[i] = events[i]
        /\ events'[Len(events) + 1] = "Cancelled"
      BY <1>1, <1>3, OneMoreEvent DEF TypeOK
  <2>2. OpenedOnce'
      BY <2>1 DEF OpenedOnce, Told
  <2> QED
      BY <2>2, <1>1, <1>3, ToldAfter
<1> QED
    BY <1>1, <1>2, <1>3, TellAdds

LEMMA OpenedInvStep == TypeOK /\ OpenedInv /\ [Next]_vars => OpenedInv'
<1> SUFFICES ASSUME TypeOK, OpenedInv, [Next]_vars PROVE OpenedInv'
    OBVIOUS
<1>0. {"Started", "Failed", "Completed", "MessageRead"} \subseteq Events \ {"Opened", "Cancelled"}
    BY DEF Events, TerminalEvents
<1>1. CASE UNCHANGED <<opened, observer, events>> /\ (pc = "gone" => pc' = "gone")
                /\ (pc' \in {"start", "calling"} => pc \in {"start", "calling"})
    BY <1>1 DEF OpenedInv, OpenedOnce, Told
<1>2. ASSUME NEW f \in {"Started", "Failed", "Completed", "MessageRead"},
             NEW readable \in BOOLEAN, Tell(f, readable),
             UNCHANGED <<opened, observer>>, pc # "gone",
             pc' \in {"start", "calling"} => pc \in {"start", "calling"}
      PROVE  OpenedInv'
    BY <1>0, <1>2, OtherEvent DEF OpenedInv
<1>3. ASSUME NEW available \in BOOLEAN, NEW readable \in BOOLEAN,
             StreamOpens(available, readable)
      PROVE  OpenedInv'
  <2>1. ~Told("Opened") /\ ~Told("Cancelled") /\ \A o \in Observers : observer[o] = "out"
      BY <1>3 DEF StreamOpens, OpenedInv
  <2>2. OpenedOnce' /\ ~Told("Cancelled")'
      BY <1>3, <2>1, FirstOpened DEF StreamOpens
  <2>3. ~available => ~Told("Opened")'
      BY <1>3, <2>1 DEF StreamOpens, Tell, Told
  <2> QED
      BY <1>3, <2>1, <2>2, <2>3 DEF StreamOpens, OpenedInv
<1>4. ASSUME NEW o \in Observers, Observe(o)
      PROVE  OpenedInv'
    BY <1>4 DEF Observe, OpenedInv, OpenedOnce, Told, TypeOK
<1>5. ASSUME NEW o \in Observers, NEW readable \in BOOLEAN, TellOpened(o, readable)
      PROVE  OpenedInv'
  <2>1. /\ ~Told("Opened") /\ ~Told("Cancelled") /\ opened /\ pc = "open"
        /\ \A p \in Observers : observer'[p] = "out"
      BY <1>5 DEF TellOpened, OpenedInv, TypeOK
  <2>2. OpenedOnce' /\ ~Told("Cancelled")'
      BY <1>5, <2>1, FirstOpened DEF TellOpened
  <2> QED
      BY <1>5, <2>1, <2>2 DEF TellOpened, OpenedInv
<1>6. CASE DropStream
  <2>1. CASE terminal
      BY <1>1, <1>6, <2>1 DEF DropStream, Free, stream
  <2>2. CASE ~terminal
    <3>1. ~Told("Cancelled") /\ \A o \in Observers : observer[o] = "out"
        BY <1>6 DEF DropStream, Free, OpenedInv
    <3>2. OpenedOnce' /\ (Told("Opened")' => Told("Opened"))
        BY <1>6, <2>2, <3>1, LastCancelled DEF DropStream, OpenedInv
    <3> QED
        BY <1>6, <3>1, <3>2 DEF DropStream, OpenedInv, stream
  <2> QED
      BY <2>1, <2>2
<1>7. CASE UNCHANGED vars
    BY <1>1, <1>7 DEF vars
<1>8. CASE Refuse \/ CallDropped
    BY <1>1, <1>8 DEF Refuse, CallDropped, Return, stream
<1>9. CASE ReadLeft
    BY <1>1, <1>9 DEF ReadLeft, stream
<1>10. ASSUME NEW read \in {"reading", "closing"}, BeginRead(read)
       PROVE  OpenedInv'
    BY <1>1, <1>10 DEF BeginRead, Free, stream
<1>11. CASE Start \/ CallFails
    BY <1>2, <1>11 DEF Start, CallFails, Return, stream
<1>12. ASSUME NEW readable \in BOOLEAN, NEW accepted \in BOOLEAN, Reply(readable, accepted)
       PROVE  OpenedInv'
    BY <1>2, <1>12 DEF Reply, run_after, Return, stream
<1>13. CASE MessageRead \/ ReadFails
    BY <1>2, <1>13 DEF MessageRead, ReadFails, stream
<1>14. ASSUME NEW readable \in BOOLEAN, TrailersRead(readable)
       PROVE  OpenedInv'
    BY <1>2, <1>14 DEF TrailersRead
<1>15. CASE Gone
    BY <1>7, <1>15 DEF Gone
<1> QED
    BY <1>3, <1>4, <1>5, <1>6, <1>7, <1>8, <1>9, <1>10, <1>11, <1>12, <1>13,
       <1>14, <1>15 DEF Next

\* Headers are announced once whoever asks for them, and not after Cancelled.
THEOREM LifecycleOpenedOnce == Spec => []OpenedOnce
<1>1. Init => OpenedInv
    BY DEF Init, OpenedInv, OpenedOnce, Told
<1>2. OpenedInv => OpenedOnce
    BY DEF OpenedInv
<1> QED
    BY <1>1, <1>2, LifecycleTypeCorrect, OpenedInvStep, PTL DEF Spec

-----------------------------------------------------------------------------
(***************************************************************************)
(* The end of a stream.                                                    *)
(***************************************************************************)

\* terminal is set exactly when an end was told or would have been, so Drop
\* can rely on it in both directions.
EndInv ==
    /\ pc \in {"start", "calling"} => ~terminal
    /\ pc # "gone" /\ ~terminal => ~EndTold
    /\ terminal /\ watched => suppressed \/ EndTold
    /\ Told("Cancelled") => pc = "gone"
    /\ CancelledOnlyIfUnended
    /\ StreamEndIsTold

\* While Cancelled was not told, any other event leaves it untold.
LEMMA StillUncancelled ==
    ASSUME TypeOK, ~Told("Cancelled"),
           NEW f \in Events \ {"Cancelled"}, NEW readable \in BOOLEAN, Tell(f, readable)
    PROVE  ~Told("Cancelled")' /\ CancelledOnlyIfUnended'
<1>1. ~Told("Cancelled")'
    BY ToldByTell
<1> QED
    BY <1>1 DEF Told, CancelledOnlyIfUnended

\* Cancelled as the first end is the last event.
LEMMA CancelledFirstEnd ==
    ASSUME TypeOK, ~EndTold, Tell("Cancelled", TRUE)
    PROVE  CancelledOnlyIfUnended'
<1>1. "Cancelled" \in Events /\ "Cancelled" \in TerminalEvents
    BY DEF Events, TerminalEvents
<1>2. \A i \in 1 .. Len(events) : events[i] \notin TerminalEvents
    BY DEF EndTold, Told
<1>3. CASE events' = events
    BY <1>1, <1>2, <1>3 DEF CancelledOnlyIfUnended
<1>4. CASE events' = Append(events, "Cancelled")
  <2>1. /\ Len(events) \in Nat
        /\ Len(events') = Len(events) + 1
        /\ \A i \in 1 .. Len(events) : events'[i] = events[i]
      BY <1>1, <1>4, OneMoreEvent DEF TypeOK
  <2> QED
      BY <1>1, <1>2, <2>1 DEF CancelledOnlyIfUnended
<1> QED
    BY <1>1, <1>3, <1>4, TellAdds

\* What has been told stays told, and a watched, readable event is told.
LEMMA ToldStays ==
    ASSUME TypeOK, NEW f \in Events, NEW readable \in BOOLEAN, Tell(f, readable)
    PROVE  /\ \A e : Told(e) => Told(e)'
           /\ watched /\ readable => Told(f)'
<1>1. CASE watched /\ readable
  <2>1. events' = Append(events, f)
      BY <1>1 DEF Tell
  <2> QED
      BY <2>1, ToldAfter
<1>2. CASE ~(watched /\ readable)
  <2>1. events' = events
      BY <1>2 DEF Tell
  <2> QED
      BY <1>2, <2>1 DEF Told
<1> QED
    BY <1>1, <1>2

LEMMA EndInvStep == TypeOK /\ EndInv /\ [Next]_vars => EndInv'
<1> SUFFICES ASSUME TypeOK, EndInv, [Next]_vars PROVE EndInv'
    OBVIOUS
<1>0. /\ "Cancelled" \in Events
      /\ {"Started", "Opened", "MessageRead"} \subseteq Events \ {"Cancelled"}
      /\ {"Failed", "Completed"} \subseteq Events \ {"Cancelled"}
      /\ {"Started", "Opened", "MessageRead"} \cap TerminalEvents = {}
      /\ {"Failed", "Completed", "Cancelled"} \subseteq TerminalEvents
    BY DEF Events, TerminalEvents
<1>00. pc # "gone" => ~Told("Cancelled")
    BY DEF EndInv
<1>1. CASE UNCHANGED vars
    BY <1>1 DEF vars, EndInv, EndTold, Told, CancelledOnlyIfUnended, StreamEndIsTold
\* Nothing is told.
<1>2. ASSUME UNCHANGED <<kind, watched, terminal, events, suppressed>>, pc # "gone",
             \/ pc' = "gone" /\ result' \notin {"ok", "failed"}
             \/ pc' # "gone" /\ (pc' \in {"start", "calling"} => pc \in {"start", "calling"})
      PROVE  EndInv'
    BY <1>2 DEF EndInv, EndTold, Told, CancelledOnlyIfUnended, StreamEndIsTold
\* Something other than an end is told, and the call goes on.
<1>3. ASSUME NEW f \in {"Started", "Opened", "MessageRead"}, NEW readable \in BOOLEAN,
             Tell(f, readable), UNCHANGED <<kind, watched, terminal, suppressed>>,
             pc # "gone", pc' # "gone",
             pc' \in {"start", "calling"} => pc \in {"start", "calling"}
      PROVE  EndInv'
  <2>1. EndTold' <=> EndTold
      BY <1>0, <1>3, ToldByTell, ToldStays DEF EndTold
  <2>2. ~Told("Cancelled")' /\ CancelledOnlyIfUnended'
      BY <1>0, <1>00, <1>3, StillUncancelled
  <2> QED
      BY <1>3, <2>1, <2>2 DEF EndInv, StreamEndIsTold
\* The call ends with a result or an error.
<1>4. ASSUME NEW f \in {"Failed", "Completed"}, NEW readable \in BOOLEAN, Tell(f, readable),
             UNCHANGED <<kind, watched, terminal, suppressed>>, pc = "calling", pc' = "gone",
             readable \/ kind = "reply"
      PROVE  EndInv'
  <2>1. ~Told("Cancelled")' /\ CancelledOnlyIfUnended'
      BY <1>0, <1>00, <1>4, StillUncancelled
  <2>2. watched /\ readable => EndTold'
      BY <1>0, <1>4, ToldStays DEF EndTold
  <2>3. ~terminal
      BY <1>4 DEF EndInv
  <2> QED
      BY <1>4, <2>1, <2>2, <2>3 DEF EndInv, StreamEndIsTold, EndTold
\* A read of the stream ends it.
<1>5. ASSUME NEW f \in {"Failed", "Completed"}, NEW readable \in BOOLEAN, Tell(f, readable),
             UNCHANGED <<kind, watched>>, terminal', pc # "gone", pc' = "open",
             suppressed' = (suppressed \/ ~readable)
      PROVE  EndInv'
  <2>1. ~Told("Cancelled")' /\ CancelledOnlyIfUnended'
      BY <1>0, <1>00, <1>5, StillUncancelled
  <2>2. watched /\ readable => EndTold'
      BY <1>0, <1>5, ToldStays DEF EndTold
  <2> QED
      BY <1>5, <2>1, <2>2 DEF EndInv, StreamEndIsTold
<1>6. CASE DropStream
  <2>1. CASE terminal
      BY <1>6, <2>1 DEF DropStream, Free, stream, EndInv, EndTold, Told,
         CancelledOnlyIfUnended, StreamEndIsTold
  <2>2. CASE ~terminal
    <3>1. ~EndTold /\ Tell("Cancelled", TRUE) /\ pc' = "gone" /\ ~terminal'
        BY <1>6, <2>2 DEF DropStream, Free, stream, EndInv
    <3>2. CancelledOnlyIfUnended'
        BY <3>1, CancelledFirstEnd
    <3>3. watched => EndTold'
        BY <1>0, <3>1, ToldStays DEF EndTold
    <3>4. watched' = watched
        BY <1>6 DEF DropStream
    <3> QED
        BY <3>1, <3>2, <3>3, <3>4 DEF EndInv, StreamEndIsTold, EndTold
  <2> QED
      BY <2>1, <2>2
<1>7. CASE Refuse \/ CallDropped
    BY <1>2, <1>7 DEF Refuse, CallDropped, Return, stream
<1>8. CASE ReadLeft
    BY <1>2, <1>8 DEF ReadLeft, stream
<1>9. ASSUME NEW read \in {"reading", "closing"}, BeginRead(read)
      PROVE  EndInv'
    BY <1>2, <1>9 DEF BeginRead, Free, stream
<1>10. ASSUME NEW o \in Observers, Observe(o)
       PROVE  EndInv'
    BY <1>2, <1>10 DEF Observe
<1>11. CASE Start \/ MessageRead
    BY <1>3, <1>11 DEF Start, MessageRead, stream
<1>12. ASSUME NEW available \in BOOLEAN, NEW readable \in BOOLEAN,
              StreamOpens(available, readable)
       PROVE  EndInv'
    BY <1>3, <1>12 DEF StreamOpens
<1>13. ASSUME NEW o \in Observers, NEW readable \in BOOLEAN, TellOpened(o, readable)
       PROVE  EndInv'
    BY <1>3, <1>13 DEF TellOpened, TypeOK
<1>14. CASE CallFails
    BY <1>4, <1>14 DEF CallFails, Return, stream
<1>15. ASSUME NEW readable \in BOOLEAN, NEW accepted \in BOOLEAN, Reply(readable, accepted)
       PROVE  EndInv'
    BY <1>4, <1>15 DEF Reply, run_after, Return, stream
<1>16. CASE ReadFails
  <2>1. suppressed' = (suppressed \/ ~TRUE)
      BY <1>16 DEF ReadFails, TypeOK
  <2> QED
      BY <1>5, <1>16, <2>1 DEF ReadFails
<1>17. ASSUME NEW readable \in BOOLEAN, TrailersRead(readable)
       PROVE  EndInv'
    BY <1>5, <1>17 DEF TrailersRead
<1>18. CASE Gone
    BY <1>1, <1>18 DEF Gone
<1> QED
    BY <1>1, <1>6, <1>7, <1>8, <1>9, <1>10, <1>11, <1>12, <1>13, <1>14, <1>15,
       <1>16, <1>17, <1>18 DEF Next

LEMMA EndInvAlways == Spec => []EndInv
<1>1. Init => EndInv
    BY DEF Init, EndInv, EndTold, Told, CancelledOnlyIfUnended, StreamEndIsTold
<1> QED
    BY <1>1, LifecycleTypeCorrect, EndInvStep, PTL DEF Spec

\* Cancelled is said only of a stream whose end was not told before.
THEOREM LifecycleCancelledOnlyIfUnended == Spec => []CancelledOnlyIfUnended
<1>1. EndInv => CancelledOnlyIfUnended
    BY DEF EndInv
<1> QED
    BY <1>1, EndInvAlways, PTL

\* The chain is told of the end of every stream the caller was given.
THEOREM LifecycleStreamEndIsTold == Spec => []StreamEndIsTold
<1>1. EndInv => StreamEndIsTold
    BY DEF EndInv
<1> QED
    BY <1>1, EndInvAlways, PTL

-----------------------------------------------------------------------------
(***************************************************************************)
(* Replies.                                                                *)
(***************************************************************************)

\* A reply has no stream, and what was told so far is known at each point.
ReplyHistory ==
    /\ kind = "reply" /\ pc = "gone" => result # "none"
    /\ kind = "reply" /\ watched /\ pc = "gone" =>
          events = CASE result = "ok" -> <<"Started", "Completed">>
                     [] result = "refused" -> <<>>
                     [] result = "dropped" -> <<"Started">>
                     [] OTHER -> <<"Started", "Failed">>

ReplyInv ==
    /\ kind = "reply" => pc \in {"start", "calling", "gone"}
    /\ pc = "start" => events = <<>>
    /\ pc = "calling" /\ watched => events = <<"Started">>
    /\ ReplyHistory

\* The history of a reply.
LEMMA TwoEvents ==
    ASSUME NEW e \in Events
    PROVE  Append(<<"Started">>, e) = <<"Started", e>>
<1>1. "Started" \in Events
    BY DEF Events
<1>2. <<"Started">> \in Seq(Events) /\ <<"Started", e>> \in Seq(Events)
    BY <1>1
<1>3. /\ Append(<<"Started">>, e) \in Seq(Events)
      /\ Len(Append(<<"Started">>, e)) = 2
      /\ Append(<<"Started">>, e)[1] = "Started"
      /\ Append(<<"Started">>, e)[2] = e
    BY <1>2, OneMoreEvent
<1>4. \A i \in 1 .. 2 : Append(<<"Started">>, e)[i] = <<"Started", e>>[i]
    BY <1>3
<1> QED
    BY <1>2, <1>3, <1>4, SeqEqual

LEMMA ReplyInvStep == TypeOK /\ ReplyInv /\ [Next]_vars => ReplyInv'
<1> SUFFICES ASSUME TypeOK, ReplyInv, [Next]_vars PROVE ReplyInv'
    OBVIOUS
<1> USE DEF ReplyInv, ReplyHistory, TypeOK, stream
<1>1. CASE UNCHANGED vars
    BY <1>1 DEF vars
<1>2. CASE Refuse
    BY <1>2 DEF Refuse, Return
<1>3. CASE Start
    BY <1>3 DEF Start, Tell
<1>4. CASE CallFails
  <2>1. pc' = "gone" /\ result' = "failed" /\ UNCHANGED <<kind, watched>>
      BY <1>4 DEF CallFails, Return
  <2>2. watched => events' = <<"Started", "Failed">>
      BY <1>4, TwoEvents DEF CallFails, Tell, Events, TerminalEvents
  <2> QED
      BY <2>1, <2>2
<1>5. CASE CallDropped
    BY <1>5 DEF CallDropped, Return
<1>6. ASSUME NEW readable \in BOOLEAN, NEW accepted \in BOOLEAN, Reply(readable, accepted)
      PROVE  ReplyInv'
  <2>1. pc' = "gone" /\ UNCHANGED <<kind, watched>>
      BY <1>6 DEF Reply, run_after, Return
  <2>2. CASE watched /\ ~(readable /\ accepted)
    <3>1. events' = <<"Started", "Failed">>
        BY <1>6, <2>2, TwoEvents DEF Reply, run_after, Tell, Events, TerminalEvents
    <3>2. result' \in {"rejected", "unreadable"}
        BY <1>6, <2>2 DEF Reply, run_after, Return
    <3> QED
        BY <2>1, <3>1, <3>2
  <2>3. CASE watched /\ readable /\ accepted
    <3>1. events' = <<"Started", "Completed">>
        BY <1>6, <2>3, TwoEvents DEF Reply, run_after, Tell, Events, TerminalEvents
    <3>2. result' = "ok"
        BY <1>6, <2>3 DEF Reply, run_after, Return
    <3> QED
        BY <2>1, <3>1, <3>2
  <2>4. CASE ~watched
    <3>1. result' = "ok"
        BY <1>6, <2>4 DEF Reply, run_after, Return
    <3> QED
        BY <2>1, <2>4, <3>1
  <2> QED
      BY <2>2, <2>3, <2>4
<1>7. ASSUME kind = "stream", kind' = kind, pc' \notin {"start", "calling"}
      PROVE  ReplyInv'
    BY <1>7
<1>8. ASSUME NEW available \in BOOLEAN, NEW readable \in BOOLEAN,
             StreamOpens(available, readable)
      PROVE  ReplyInv'
    BY <1>7, <1>8 DEF StreamOpens
<1>9. ASSUME NEW o \in Observers, Observe(o)
      PROVE  ReplyInv'
    BY <1>7, <1>9 DEF Observe
<1>10. ASSUME NEW o \in Observers, NEW readable \in BOOLEAN, TellOpened(o, readable)
       PROVE  ReplyInv'
    BY <1>7, <1>10 DEF TellOpened
<1>11. ASSUME NEW read \in {"reading", "closing"}, BeginRead(read)
       PROVE  ReplyInv'
    BY <1>7, <1>11 DEF BeginRead, Free
<1>12. CASE MessageRead \/ ReadLeft \/ ReadFails
    BY <1>7, <1>12 DEF MessageRead, ReadLeft, ReadFails
<1>13. ASSUME NEW readable \in BOOLEAN, TrailersRead(readable)
       PROVE  ReplyInv'
    BY <1>7, <1>13 DEF TrailersRead
<1>14. CASE DropStream
    BY <1>7, <1>14 DEF DropStream, Free
<1>15. CASE Gone
    BY <1>1, <1>15 DEF Gone
<1> QED
    BY <1>1, <1>2, <1>3, <1>4, <1>5, <1>6, <1>8, <1>9, <1>10, <1>11, <1>12,
       <1>13, <1>14, <1>15 DEF Next

\* What the chain is told of a reply is what the caller got.
THEOREM LifecycleRepliesToldTruly == Spec => []RepliesToldTruly
<1>1. Init => ReplyInv
    BY DEF Init, ReplyInv, ReplyHistory
<1>2. TypeOK /\ ReplyInv => RepliesToldTruly
  <2> SUFFICES ASSUME TypeOK, ReplyInv, kind = "reply", watched, pc = "gone"
               PROVE  /\ Told("Completed") <=> result = "ok"
                      /\ Told("Failed") => result \in {"failed", "unreadable", "rejected"}
                      /\ result \in {"failed", "rejected"} => Told("Failed")
                      /\ result = "refused" => events = <<>>
      BY DEF RepliesToldTruly
  <2>1. /\ result = "ok" => events = <<"Started", "Completed">>
        /\ result = "refused" => events = <<>>
        /\ result = "dropped" => events = <<"Started">>
        /\ result \notin {"ok", "refused", "dropped"} => events = <<"Started", "Failed">>
      BY DEF ReplyInv, ReplyHistory
  <2>2. /\ events = <<"Started", "Completed">> => Told("Completed") /\ ~Told("Failed")
        /\ events = <<"Started", "Failed">> => Told("Failed") /\ ~Told("Completed")
        /\ events = <<"Started">> => ~Told("Failed") /\ ~Told("Completed")
        /\ events = <<>> => ~Told("Failed") /\ ~Told("Completed")
      BY DEF Told
  <2>3. result \in {"ok", "refused", "failed", "unreadable", "rejected", "dropped"}
      BY DEF TypeOK, Results, ReplyInv, ReplyHistory
  <2> QED
      BY <2>1, <2>2, <2>3
<1> QED
    BY <1>1, <1>2, LifecycleTypeCorrect, ReplyInvStep, PTL DEF Spec

=============================================================================
