------------------------- MODULE ClientBuilderProofs -------------------------
(***************************************************************************)
(* Proofs about the client builder: whatever is called, in whatever order  *)
(* and however often, the options are what was said last, and a client     *)
(* that build makes keeps its promises about TLS and about its pool.       *)
(***************************************************************************)
EXTENDS ClientBuilder, TLAPS

-----------------------------------------------------------------------------
(***************************************************************************)
(* The inductive invariant.                                                *)
(***************************************************************************)

\* The fields of GrpcEgressBuilderImpl.
OptionNames == {"endpoint", "endpoint_explicit", "plaintext_allowed", "request_timeout",
                "max_decoding", "max_encoding", "send_compression", "accept_compression",
                "interceptors", "tls", "keep_alive", "loadbalancer"}

\* The builder has its fields, and the calls are a sequence.
Shape == DOMAIN builder = OptionNames /\ \E S : calls \in Seq(S)

\* The option is as the last call that speaks of it left it, and there is a
\* last one if there is one.
AsLastSaid(option) ==
    IF Speaking(option) = {}
    THEN option # "endpoint" => builder[option] = Fresh("")[option]
    ELSE /\ builder[option] \in LastWord(option)
         /\ \E i \in Speaking(option) : \A j \in Speaking(option) : j <= i

Spoken == Overridable \cup {"plaintext_allowed"}

Words == \A option \in Spoken : AsLastSaid(option)

\* The encodings that are accepted are those asked for since the last config
\* that names a compression.
Accepting == builder.accept_compression = AcceptedSince(Compressing)

\* What is said of plaintext is one thing.
OneWord ==
    \A i \in Speaking("plaintext_allowed") :
        Says(calls[i], "plaintext_allowed") \in {{TRUE}, {FALSE}}

\* The endpoint is that of the factory, or a config's that names none, until
\* a call names one.
Implicit ==
    ~builder.endpoint_explicit =>
        \A i \in Speaking("endpoint") : Says(calls[i], "endpoint") \in {{""}}

\* There is one load balancer at most, which its constructor accepted.
OnePool ==
    \A s \in builder.loadbalancer : builder.loadbalancer = {s} /\ loadbalancer_try_new(s)

\* What build looked at holds of the client it made.
Checked ==
    Built =>
        /\ client.options = builder
        /\ \A s \in builder.loadbalancer :
               /\ client.targets = [i \in 1 .. Len(s) |-> s[i].url]
               /\ ~builder.endpoint_explicit
        /\ (\E i \in 1 .. Len(client.targets) : is_plaintext_endpoint(client.targets[i])) =>
               builder.plaintext_allowed
        /\ IdentityNeedsTls

BuilderInv == Shape /\ Words /\ Accepting /\ OneWord /\ Implicit /\ OnePool /\ Checked

-----------------------------------------------------------------------------
(***************************************************************************)
(* What one more call does to what was said.                               *)
(***************************************************************************)

\* The calls so far stay where they are, and the new one comes after them.
LEMMA CallsGrow ==
    ASSUME Shape, NEW call, calls' = Append(calls, call)
    PROVE  /\ Len(calls) \in Nat /\ Len(calls') = Len(calls) + 1
           /\ calls'[Len(calls) + 1] = call
           /\ \A i \in 1 .. Len(calls) : calls'[i] = calls[i]
           /\ \E S : calls' \in Seq(S)
<1>1. PICK S : calls \in Seq(S)
  BY DEF Shape
<1>2. calls \in Seq(S \cup {call}) /\ call \in S \cup {call}
  BY <1>1
<1>3. calls' \in Seq(S \cup {call})
  BY <1>2
<1> QED
  BY <1>2, <1>3

\* A call that says nothing of an option leaves what was said of it; one that
\* does has the last word.
LEMMA NewWord ==
    ASSUME Shape, NEW call, calls' = Append(calls, call), NEW option
    PROVE  /\ Says(call, option) = {} => Speaking(option)' = Speaking(option)
           /\ Says(call, option) # {} =>
                  /\ Speaking(option)' = Speaking(option) \cup {Len(calls) + 1}
                  /\ \A j \in Speaking(option)' : j <= Len(calls) + 1
                  /\ LastWord(option)' = Says(call, option)
<1> DEFINE n == Len(calls)
<1>1. /\ n \in Nat /\ Len(calls') = n + 1 /\ calls'[n + 1] = call
      /\ \A i \in 1 .. n : calls'[i] = calls[i]
  BY CallsGrow
<1>2. Speaking(option)' = {i \in 1 .. n + 1 : Says(calls'[i], option) # {}}
  BY <1>1 DEF Speaking
<1>3. \A i \in 1 .. n : Says(calls'[i], option) = Says(calls[i], option)
  BY <1>1
<1>4. Says(calls'[n + 1], option) = Says(call, option)
  BY <1>1
<1> HIDE DEF n
<1>5. Speaking(option) = {i \in 1 .. n : Says(calls[i], option) # {}}
  BY DEF Speaking, n
<1>6. CASE Says(call, option) = {}
  <2>1. \A i \in 1 .. n + 1 : Says(calls'[i], option) # {} <=>
            i \in 1 .. n /\ Says(calls[i], option) # {}
    BY <1>1, <1>3, <1>4, <1>6
  <2> QED
    BY <1>1, <1>2, <1>5, <1>6, <2>1
<1>7. CASE Says(call, option) # {}
  <2>1. Speaking(option)' = Speaking(option) \cup {n + 1}
    BY <1>1, <1>2, <1>3, <1>4, <1>5, <1>7
  <2>2. \A j \in Speaking(option)' : j \in Nat /\ j <= n + 1
    BY <1>1, <1>2
  <2>3. LastWord(option)' = Says(calls'[n + 1], option)
    <3> DEFINE last == CHOOSE i \in Speaking(option)' : \A j \in Speaking(option)' : j <= i
    <3>1. n + 1 \in Speaking(option)'
      BY <2>1
    <3>2. last \in Speaking(option)' /\ \A j \in Speaking(option)' : j <= last
      BY <2>2, <3>1
    <3>3. last = n + 1
      BY <1>1, <2>2, <3>1, <3>2
    <3>4. LastWord(option)' = Says(calls'[last], option)
      BY DEF LastWord
    <3> QED
      BY <3>3, <3>4
  <2> QED
    BY <1>4, <1>7, <2>1, <2>2, <2>3 DEF n
<1> QED
  BY <1>6, <1>7

\* An option that the new call does not speak of is as it was.
LEMMA WordKept ==
    ASSUME Shape, NEW call, calls' = Append(calls, call), NEW option,
           AsLastSaid(option), Says(call, option) = {}, builder'[option] = builder[option]
    PROVE  AsLastSaid(option)'
<1>1. Speaking(option)' = Speaking(option)
  BY NewWord
<1>2. CASE Speaking(option) = {}
  BY <1>1, <1>2 DEF AsLastSaid, Fresh
<1>3. CASE Speaking(option) # {}
  <2> DEFINE last == CHOOSE i \in Speaking(option) : \A j \in Speaking(option) : j <= i
  <2>1. PICK i \in Speaking(option) : \A j \in Speaking(option) : j <= i
    BY <1>3 DEF AsLastSaid
  <2>2. last \in Speaking(option)
    BY <2>1
  <2>3. calls'[last] = calls[last]
    BY <2>2, CallsGrow DEF Speaking
  <2>4. LastWord(option) = Says(calls[last], option)
    BY DEF LastWord
  <2>5. LastWord(option)' = Says(calls'[last], option)
    BY <1>1 DEF LastWord
  <2>6. LastWord(option)' = LastWord(option)
    BY <2>3, <2>4, <2>5
  <2>7. builder[option] \in LastWord(option)
    BY <1>3 DEF AsLastSaid
  <2> QED
    BY <1>1, <1>3, <2>1, <2>6, <2>7 DEF AsLastSaid
<1> QED
  BY <1>2, <1>3

\* An option that the new call speaks of is what that call says.
LEMMA WordGiven ==
    ASSUME Shape, NEW call, calls' = Append(calls, call), NEW option,
           builder'[option] \in Says(call, option)
    PROVE  AsLastSaid(option)'
<1>1. /\ Speaking(option)' = Speaking(option) \cup {Len(calls) + 1}
      /\ \A j \in Speaking(option)' : j <= Len(calls) + 1
      /\ LastWord(option)' = Says(call, option)
  BY NewWord
<1> QED
  BY <1>1 DEF AsLastSaid

\* The other parts of the invariant that are about what was said.
LEMMA SayingsKept ==
    ASSUME Shape, NEW call, calls' = Append(calls, call), NEW option, NEW P,
           \A i \in Speaking(option) : Says(calls[i], option) \in P,
           Says(call, option) # {} => Says(call, option) \in P
    PROVE  \A i \in Speaking(option)' : Says(calls'[i], option) \in P
<1>1. /\ Len(calls) \in Nat
      /\ calls'[Len(calls) + 1] = call
      /\ \A i \in 1 .. Len(calls) : calls'[i] = calls[i]
  BY CallsGrow
<1>2. Speaking(option) \subseteq 1 .. Len(calls)
  BY DEF Speaking
<1>3. CASE Says(call, option) = {}
  <2>1. Speaking(option)' = Speaking(option)
    BY <1>3, NewWord
  <2> QED
    BY <1>1, <1>2, <2>1
<1>4. CASE Says(call, option) # {}
  <2>1. Speaking(option)' = Speaking(option) \cup {Len(calls) + 1}
    BY <1>4, NewWord
  <2> QED
    BY <1>1, <1>2, <1>4, <2>1
<1> QED
  BY <1>3, <1>4

\* The encodings a call asks for are accepted as well as those before it, or,
\* if the call is a config, in their place.
LEMMA EncodingsGrow ==
    ASSUME Shape, NEW call, calls' = Append(calls, call)
    PROVE  AcceptedSince(Compressing)' =
               IF call.option = "channel config" /\ Encodings(call) # {}
               THEN Encodings(call)
               ELSE AcceptedSince(Compressing) \cup Encodings(call)
<1> DEFINE n == Len(calls)
           Starts == call.option = "channel config" /\ Encodings(call) # {}
<1>1. /\ n \in Nat /\ Len(calls') = n + 1 /\ calls'[n + 1] = call
      /\ \A i \in 1 .. n : calls'[i] = calls[i]
  BY CallsGrow
<1>2. \A i : i \in 1 .. n + 1 <=> i \in 1 .. n \/ i = n + 1
  BY <1>1
<1>3. \A i : i \in Compressing <=>
          i \in 1 .. n /\ calls[i].option = "channel config" /\ Encodings(calls[i]) # {}
  BY DEF Compressing, Configs
<1>4. \A i : i \in Compressing' <=>
          i \in 1 .. n + 1 /\ calls'[i].option = "channel config" /\ Encodings(calls'[i]) # {}
  BY <1>1 DEF Compressing, Configs
<1>5. \A i : i \in Compressing' <=> i \in Compressing \/ (i = n + 1 /\ Starts)
  <2> SUFFICES ASSUME NEW i
               PROVE  i \in Compressing' <=> i \in Compressing \/ (i = n + 1 /\ Starts)
    OBVIOUS
  <2>1. n + 1 \notin 1 .. n
    BY <1>1
  <2>2. i \in 1 .. n => calls'[i] = calls[i]
    BY <1>1
  <2>3. calls'[n + 1] = call
    BY <1>1
  <2> QED
    BY <1>2, <1>3, <1>4, <2>1, <2>2, <2>3, Zenon
<1>6. \A e : e \in AcceptedSince(Compressing) <=>
          \E i \in 1 .. n : e \in Encodings(calls[i]) /\ \A j \in Compressing : j <= i
  BY DEF AcceptedSince
<1>7. \A e : e \in AcceptedSince(Compressing)' <=>
          \E i \in 1 .. n + 1 : e \in Encodings(calls'[i]) /\ \A j \in Compressing' : j <= i
  <2>1. AcceptedSince(Compressing)' =
            UNION {Encodings(calls'[i]) :
                      i \in {k \in 1 .. n + 1 : \A j \in Compressing' : j <= k}}
    BY <1>1 DEF AcceptedSince
  <2> HIDE DEF n
  <2> QED
    BY <2>1
<1> HIDE DEF n, Starts
<1>8. \A j \in Compressing' : j <= n + 1
  <2>1. \A j : j \in Compressing' => j \in 1 .. n + 1
    BY <1>4, Zenon
  <2> QED
    BY <1>1, <2>1
<1>9. ASSUME Starts, NEW e
      PROVE  e \in AcceptedSince(Compressing)' <=> e \in Encodings(call)
  <2>1. n + 1 \in Compressing'
    BY <1>5, <1>9
  <2>2. \A i \in 1 .. n + 1 : (\A j \in Compressing' : j <= i) <=> i = n + 1
    BY <1>1, <1>8, <2>1
  <2>3. n + 1 \in 1 .. n + 1 /\ calls'[n + 1] = call
    BY <1>1
  <2> QED
    BY <1>7, <2>2, <2>3, Zenon
<1>10. ASSUME ~Starts, NEW e
       PROVE  e \in AcceptedSince(Compressing)' <=>
                  e \in AcceptedSince(Compressing) \/ e \in Encodings(call)
  <2>1. \A j : j \in Compressing' <=> j \in Compressing
    BY <1>5, <1>10
  <2>2. calls'[n + 1] = call /\ \A i \in 1 .. n : calls'[i] = calls[i]
    BY <1>1
  <2> QED
    BY <1>2, <1>6, <1>7, <1>8, <2>1, <2>2, Zenon
<1>11. CASE Starts
  <2>1. AcceptedSince(Compressing)' = Encodings(call)
    BY <1>9, <1>11
  <2> QED
    BY <1>11, <2>1 DEF Starts
<1>12. CASE ~Starts
  <2>1. AcceptedSince(Compressing)' = AcceptedSince(Compressing) \cup Encodings(call)
    BY <1>10, <1>12
  <2> QED
    BY <1>12, <2>1 DEF Starts
<1> QED
  BY <1>11, <1>12

-----------------------------------------------------------------------------
(***************************************************************************)
(* The methods.                                                            *)
(***************************************************************************)

\* A method that sets one option, and nothing else that is spoken of.
LEMMA SetterKeeps ==
    ASSUME BuilderInv, NEW b, NEW option, NEW v, Set(b, Call(option, v)),
           option # "channel config", DOMAIN b = OptionNames,
           b["accept_compression"] =
               IF option = "accepts too" THEN builder["accept_compression"] \cup v
               ELSE builder["accept_compression"],
           \A p \in Spoken : p # option => b[p] = builder[p],
           option \in Spoken => b[option] = v,
           option = "plaintext_allowed" => v = TRUE,
           ~b.endpoint_explicit => option # "endpoint" /\ ~builder.endpoint_explicit,
           \A s \in b.loadbalancer : b.loadbalancer = {s} /\ loadbalancer_try_new(s)
    PROVE  BuilderInv'
<1> DEFINE call == Call(option, v)
<1>1. /\ stage = "options" /\ stage' = stage /\ client' = client /\ builder' = b
      /\ calls' = Append(calls, call)
  BY DEF Set
<1>2. Shape /\ Words /\ Accepting /\ OneWord /\ Implicit
  BY DEF BuilderInv
<1>13. /\ call.option # "channel config"
       /\ Encodings(call) = IF option = "accepts too" THEN v ELSE {}
  BY DEF Encodings, Call
<1>3. \A p : Says(call, p) = IF p = option THEN {v} ELSE {}
  BY DEF Says, Call
<1> HIDE DEF call
<1>4. Shape'
  BY <1>1, <1>2, CallsGrow DEF Shape
<1>5. Words'
  <2> SUFFICES ASSUME NEW p \in Spoken PROVE AsLastSaid(p)'
    BY DEF Words, Spoken, Overridable
  <2>1. CASE p = option
    <3>1. builder'[p] \in Says(call, p)
      BY <1>1, <1>3, <2>1
    <3> QED
      BY <1>1, <1>2, <3>1, WordGiven
  <2>2. CASE p # option
    <3>1. Says(call, p) = {} /\ builder'[p] = builder[p] /\ AsLastSaid(p)
      BY <1>1, <1>2, <1>3, <2>2 DEF Words
    <3> QED
      BY <1>1, <1>2, <3>1, WordKept
  <2> QED
    BY <2>1, <2>2
<1>6. OneWord'
  <2>1. Says(call, "plaintext_allowed") # {} =>
            Says(call, "plaintext_allowed") \in {{TRUE}, {FALSE}}
    BY <1>3
  <2>2. \A i \in Speaking("plaintext_allowed") :
            Says(calls[i], "plaintext_allowed") \in {{TRUE}, {FALSE}}
    BY <1>2 DEF OneWord
  <2>3. \A i \in Speaking("plaintext_allowed")' :
            Says(calls'[i], "plaintext_allowed") \in {{TRUE}, {FALSE}}
    BY <1>1, <1>2, <2>1, <2>2, SayingsKept
  <2> QED
    BY <2>3 DEF OneWord
<1>7. Implicit'
  <2> SUFFICES ASSUME ~builder'.endpoint_explicit
               PROVE  \A i \in Speaking("endpoint")' : Says(calls'[i], "endpoint") \in {{""}}
    BY DEF Implicit
  <2>1. Says(call, "endpoint") = {}
    BY <1>1, <1>3
  <2>2. \A i \in Speaking("endpoint") : Says(calls[i], "endpoint") \in {{""}}
    BY <1>1, <1>2 DEF Implicit
  <2> QED
    BY <1>1, <1>2, <2>1, <2>2, SayingsKept
<1>8. OnePool'
  BY <1>1 DEF OnePool, loadbalancer_try_new, backend_try_new
<1>9. Checked'
  BY <1>1 DEF Checked, Built
<1>10. Accepting'
  <2>1. AcceptedSince(Compressing)' = AcceptedSince(Compressing) \cup Encodings(call)
    BY <1>1, <1>2, <1>13, EncodingsGrow
  <2>2. builder["accept_compression"] = AcceptedSince(Compressing)
    BY <1>2 DEF Accepting
  <2>3. builder'["accept_compression"] = AcceptedSince(Compressing)'
    BY <1>1, <1>13, <2>1, <2>2
  <2> QED
    BY <2>3 DEF Accepting
<1> QED
  BY <1>4, <1>5, <1>6, <1>7, <1>8, <1>9, <1>10 DEF BuilderInv

\* What a config says, option by option.
LEMMA ConfigSays ==
    ASSUME NEW c, NEW call, call = [option |-> "channel config", value |-> {c}]
    PROVE  /\ Says(call, "endpoint") = {c.endpoint}
           /\ Says(call, "plaintext_allowed") = {~c.tls_required}
           /\ Says(call, "max_decoding") = {{c.max_message_bytes}}
           /\ Says(call, "max_encoding") = {{c.max_message_bytes}}
           /\ Says(call, "request_timeout") = c.request_timeout_secs
           /\ Says(call, "send_compression") =
                  IF c.compression = "none" THEN {} ELSE {{c.compression}}
           /\ Says(call, "tls") = IF c.mtls = {} THEN {} ELSE {FilesOf(c.mtls)}
           /\ Says(call, "keep_alive") = IF c.keep_alive = {} THEN {} ELSE {c.keep_alive}
           /\ Says(call, "loadbalancer") = {}
           /\ Encodings(call) = read_compression(c.compression)
<1>1. call.option = "channel config" /\ (CHOOSE d \in call.value : TRUE) = c
  OBVIOUS
<1>2. Says(call, "endpoint") = {c.endpoint}
  BY <1>1, Zenon DEF Says
<1>3. Says(call, "plaintext_allowed") = {~c.tls_required}
  BY <1>1, Zenon DEF Says
<1>4. Says(call, "max_decoding") = {{c.max_message_bytes}}
  BY <1>1, Zenon DEF Says
<1>5. Says(call, "max_encoding") = {{c.max_message_bytes}}
  BY <1>1, Zenon DEF Says
<1>6. Says(call, "request_timeout") = c.request_timeout_secs
  BY <1>1, Zenon DEF Says
<1>7. Says(call, "send_compression") = IF c.compression = "none" THEN {} ELSE {{c.compression}}
  BY <1>1, Zenon DEF Says
<1>8. Says(call, "tls") = IF c.mtls = {} THEN {} ELSE {FilesOf(c.mtls)}
  BY <1>1, Zenon DEF Says
<1>9. Says(call, "keep_alive") = IF c.keep_alive = {} THEN {} ELSE {c.keep_alive}
  BY <1>1, Zenon DEF Says
<1>10. Says(call, "loadbalancer") = {}
  BY <1>1, Zenon DEF Says
<1>11. Encodings(call) = read_compression(c.compression)
  <2>1. Encodings(call) = UNION Says(call, "send_compression")
    BY <1>1 DEF Encodings
  <2> QED
    BY <1>7, <2>1 DEF read_compression
<1> QED
  BY <1>2, <1>3, <1>4, <1>5, <1>6, <1>7, <1>8, <1>9, <1>10, <1>11

\* What a config leaves in the builder, option by option.
LEMMA ConfiguredOptions ==
    ASSUME DOMAIN builder = OptionNames, NEW c, NEW b, b = configured(c)
    PROVE  /\ DOMAIN b = OptionNames
           /\ b["endpoint"] = c.endpoint
           /\ b["endpoint_explicit"] <=> builder["endpoint_explicit"] \/ c.endpoint # ""
           /\ b["plaintext_allowed"] = ~c.tls_required
           /\ c.request_timeout_secs = {} => b["request_timeout"] = builder["request_timeout"]
           /\ c.request_timeout_secs # {} => b["request_timeout"] \in c.request_timeout_secs
           /\ b["max_decoding"] = {c.max_message_bytes}
           /\ b["max_encoding"] = {c.max_message_bytes}
           /\ b["send_compression"] = IF c.compression = "none" THEN builder["send_compression"]
                                      ELSE {c.compression}
           /\ b["tls"] = IF c.mtls = {} THEN builder["tls"] ELSE FilesOf(c.mtls)
           /\ b["keep_alive"] = IF c.keep_alive = {} THEN builder["keep_alive"] ELSE c.keep_alive
           /\ b["loadbalancer"] = builder["loadbalancer"]
           /\ b["accept_compression"] = Or(read_compression(c.compression),
                                           builder["accept_compression"])
<1>1. DOMAIN b = OptionNames
  BY DEF configured
<1>2. b["endpoint"] = c.endpoint
  BY DEF configured, OptionNames
<1>3. b["endpoint_explicit"] <=> builder["endpoint_explicit"] \/ c.endpoint # ""
  BY DEF configured, OptionNames
<1>4. b["plaintext_allowed"] = ~c.tls_required
  BY DEF configured, OptionNames
<1>5. c.request_timeout_secs = {} => b["request_timeout"] = builder["request_timeout"]
  BY DEF configured, OptionNames
<1>6. c.request_timeout_secs # {} => b["request_timeout"] \in c.request_timeout_secs
  BY DEF configured, OptionNames
<1>7. b["max_decoding"] = {c.max_message_bytes} /\ b["max_encoding"] = {c.max_message_bytes}
  BY DEF configured, OptionNames
<1>8. b["send_compression"] = IF c.compression = "none" THEN builder["send_compression"]
                              ELSE {c.compression}
  BY DEF configured, OptionNames, Or, read_compression
<1>9. c.mtls = {} <=> FilesOf(c.mtls) = {}
  BY DEF FilesOf
<1>10. b["tls"] = IF c.mtls = {} THEN builder["tls"] ELSE FilesOf(c.mtls)
  BY <1>9 DEF configured, OptionNames, Or
<1>11. b["keep_alive"] = IF c.keep_alive = {} THEN builder["keep_alive"] ELSE c.keep_alive
  BY DEF configured, OptionNames, Or
<1>12. b["loadbalancer"] = builder["loadbalancer"]
  BY DEF configured, OptionNames
<1>13. b["accept_compression"] = Or(read_compression(c.compression),
                                     builder["accept_compression"])
  BY DEF configured, OptionNames
<1> QED
  BY <1>1, <1>2, <1>3, <1>4, <1>5, <1>6, <1>7, <1>8, <1>10, <1>11, <1>12, <1>13

\* with_channel_config.
LEMMA ConfigKeeps ==
    ASSUME BuilderInv, NEW c, with_channel_config(c)
    PROVE  BuilderInv'
<1> DEFINE call == [option |-> "channel config", value |-> {c}]
<1>1. /\ stage = "options" /\ stage' = stage /\ client' = client
      /\ builder' = configured(c) /\ calls' = Append(calls, call)
  BY DEF with_channel_config, Configure, Set
<1>2. /\ Shape /\ Words /\ Accepting /\ OneWord /\ Implicit /\ OnePool
      /\ DOMAIN builder = OptionNames
  BY DEF BuilderInv, Shape
<1>3. /\ Says(call, "endpoint") = {c.endpoint}
      /\ Says(call, "plaintext_allowed") = {~c.tls_required}
      /\ Says(call, "max_decoding") = {{c.max_message_bytes}}
      /\ Says(call, "max_encoding") = {{c.max_message_bytes}}
      /\ Says(call, "request_timeout") = c.request_timeout_secs
      /\ Says(call, "send_compression") =
             IF c.compression = "none" THEN {} ELSE {{c.compression}}
      /\ Says(call, "tls") = IF c.mtls = {} THEN {} ELSE {FilesOf(c.mtls)}
      /\ Says(call, "keep_alive") = IF c.keep_alive = {} THEN {} ELSE {c.keep_alive}
      /\ Says(call, "loadbalancer") = {}
      /\ Encodings(call) = read_compression(c.compression)
      /\ call.option = "channel config"
  BY ConfigSays
<1> HIDE DEF call
<1>4. /\ DOMAIN builder' = OptionNames
      /\ builder'["endpoint"] = c.endpoint
      /\ builder'["endpoint_explicit"] <=> builder["endpoint_explicit"] \/ c.endpoint # ""
      /\ builder'["plaintext_allowed"] = ~c.tls_required
      /\ c.request_timeout_secs = {} => builder'["request_timeout"] = builder["request_timeout"]
      /\ c.request_timeout_secs # {} => builder'["request_timeout"] \in c.request_timeout_secs
      /\ builder'["max_decoding"] = {c.max_message_bytes}
      /\ builder'["max_encoding"] = {c.max_message_bytes}
      /\ builder'["send_compression"] = IF c.compression = "none" THEN builder["send_compression"]
                                        ELSE {c.compression}
      /\ builder'["tls"] = IF c.mtls = {} THEN builder["tls"] ELSE FilesOf(c.mtls)
      /\ builder'["keep_alive"] = IF c.keep_alive = {} THEN builder["keep_alive"] ELSE c.keep_alive
      /\ builder'["loadbalancer"] = builder["loadbalancer"]
      /\ builder'["accept_compression"] = Or(read_compression(c.compression),
                                             builder["accept_compression"])
  BY <1>1, <1>2, ConfiguredOptions
<1>5. Shape'
  BY <1>1, <1>2, <1>4, CallsGrow DEF Shape
<1>6. Words'
  <2> SUFFICES ASSUME NEW p \in Spoken PROVE AsLastSaid(p)'
    BY DEF Words, Spoken, Overridable
  <2>1. \/ builder'[p] \in Says(call, p)
        \/ Says(call, p) = {} /\ builder'[p] = builder[p]
    <3>1. CASE p \in {"endpoint", "max_decoding", "max_encoding", "request_timeout"}
      BY <1>3, <1>4, <3>1
    <3>2. CASE p = "plaintext_allowed"
      BY <1>3, <1>4, <3>2, Zenon
    <3>3. CASE p = "send_compression"
      <4>1. /\ Says(call, p) = IF c.compression = "none" THEN {} ELSE {{c.compression}}
            /\ builder'[p] = IF c.compression = "none" THEN builder[p] ELSE {c.compression}
        BY <1>3, <1>4, <3>3, Zenon
      <4> QED
        BY <4>1
    <3>4. CASE p = "tls"
      <4>1. /\ Says(call, p) = IF c.mtls = {} THEN {} ELSE {FilesOf(c.mtls)}
            /\ builder'[p] = IF c.mtls = {} THEN builder[p] ELSE FilesOf(c.mtls)
        BY <1>3, <1>4, <3>4, Zenon
      <4> QED
        BY <4>1
    <3>5. CASE p = "keep_alive"
      <4>1. /\ Says(call, p) = IF c.keep_alive = {} THEN {} ELSE {c.keep_alive}
            /\ builder'[p] = IF c.keep_alive = {} THEN builder[p] ELSE c.keep_alive
        BY <1>3, <1>4, <3>5, Zenon
      <4> QED
        BY <4>1
    <3>6. CASE p = "loadbalancer"
      BY <1>3, <1>4, <3>6, Zenon
    <3> QED
      BY <3>1, <3>2, <3>3, <3>4, <3>5, <3>6 DEF Spoken, Overridable
  <2>2. AsLastSaid(p)
    BY <1>2 DEF Words
  <2> QED
    BY <1>1, <1>2, <2>1, <2>2, WordGiven, WordKept
<1>7. OneWord'
  <2>1. {~c.tls_required} \in {{TRUE}, {FALSE}}
    OBVIOUS
  <2>2. \A i \in Speaking("plaintext_allowed") :
            Says(calls[i], "plaintext_allowed") \in {{TRUE}, {FALSE}}
    BY <1>2 DEF OneWord
  <2>3. Says(call, "plaintext_allowed") \in {{TRUE}, {FALSE}}
    BY <1>3, <2>1, Zenon
  <2>4. \A i \in Speaking("plaintext_allowed")' :
            Says(calls'[i], "plaintext_allowed") \in {{TRUE}, {FALSE}}
    BY <1>1, <1>2, <2>2, <2>3, SayingsKept
  <2> QED
    BY <2>4 DEF OneWord
<1>8. Implicit'
  <2> SUFFICES ASSUME ~builder'.endpoint_explicit
               PROVE  \A i \in Speaking("endpoint")' : Says(calls'[i], "endpoint") \in {{""}}
    BY DEF Implicit
  <2>1. Says(call, "endpoint") \in {{""}}
    BY <1>3, <1>4
  <2>2. \A i \in Speaking("endpoint") : Says(calls[i], "endpoint") \in {{""}}
    BY <1>2, <1>4 DEF Implicit
  <2> QED
    BY <1>1, <1>2, <2>1, <2>2, SayingsKept
<1>9. OnePool'
  BY <1>2, <1>4 DEF OnePool, loadbalancer_try_new, backend_try_new
<1>10. Checked'
  BY <1>1 DEF Checked, Built
<1>11. Accepting'
  <2>1. AcceptedSince(Compressing)' =
            IF Encodings(call) # {} THEN Encodings(call)
            ELSE AcceptedSince(Compressing) \cup Encodings(call)
    BY <1>1, <1>2, <1>3, EncodingsGrow
  <2>2. builder["accept_compression"] = AcceptedSince(Compressing)
    BY <1>2 DEF Accepting
  <2>3. builder'["accept_compression"] = AcceptedSince(Compressing)'
    <3> DEFINE R == read_compression(c.compression)
               A == AcceptedSince(Compressing)
    <3>1. AcceptedSince(Compressing)' = IF R # {} THEN R ELSE A \cup R
      BY <1>3, <2>1
    <3>2. builder'["accept_compression"] = IF R # {} THEN R ELSE A
      BY <1>4, <2>2, Zenon DEF Or
    <3> HIDE DEF R, A
    <3>3. R = {} => A \cup R = A
      OBVIOUS
    <3> QED
      BY <3>1, <3>2, <3>3, Zenon
  <2> QED
    BY <2>3 DEF Accepting
<1> QED
  BY <1>5, <1>6, <1>7, <1>8, <1>9, <1>10, <1>11 DEF BuilderInv

\* A method that sets one option and nothing else.
LEMMA OneOptionSet ==
    ASSUME BuilderInv, NEW option \in Spoken \ {"endpoint"}, NEW v,
           Set([builder EXCEPT ![option] = v], Call(option, v)),
           option = "plaintext_allowed" => v = TRUE,
           option = "loadbalancer" => \A s \in v : v = {s} /\ loadbalancer_try_new(s)
    PROVE  BuilderInv'
<1> DEFINE b == [builder EXCEPT ![option] = v]
<1>1. DOMAIN builder = OptionNames /\ OnePool
  BY DEF BuilderInv, Shape
<1>2. /\ DOMAIN b = OptionNames /\ b[option] = v
      /\ b.endpoint_explicit = builder.endpoint_explicit
      /\ b["accept_compression"] = builder["accept_compression"]
      /\ \A p \in Spoken : p # option => b[p] = builder[p]
  BY <1>1 DEF Spoken, Overridable, OptionNames
<1>3. \A s \in b.loadbalancer : b.loadbalancer = {s} /\ loadbalancer_try_new(s)
  <2>1. CASE option = "loadbalancer"
    BY <1>2, <2>1
  <2>2. CASE option # "loadbalancer"
    BY <1>1, <1>2, <2>2 DEF OnePool, Spoken, Overridable
  <2> QED
    BY <2>1, <2>2
<1>4. option # "channel config" /\ option # "endpoint" /\ option # "accepts too"
  BY DEF Spoken, Overridable
<1>5. /\ b["accept_compression"] =
             IF option = "accepts too" THEN builder["accept_compression"] \cup v
             ELSE builder["accept_compression"]
      /\ Set(b, Call(option, v))
  BY <1>2, <1>4
<1> HIDE DEF b
<1> QED
  BY <1>2, <1>3, <1>4, <1>5, SetterKeeps

\* A method that sets what is not spoken of: the encodings that are accepted or
\* the interceptors.
LEMMA OtherOptionSet ==
    ASSUME BuilderInv, NEW name, NEW v, NEW option, NEW w,
           \/ /\ name = "accept_compression" /\ option = "accepts too"
              /\ v = builder["accept_compression"] \cup w
           \/ name = "interceptors" /\ option = "interceptor",
           Set([builder EXCEPT ![name] = v], Call(option, w))
    PROVE  BuilderInv'
<1> DEFINE b == [builder EXCEPT ![name] = v]
<1>1. DOMAIN builder = OptionNames /\ OnePool
  BY DEF BuilderInv, Shape
<1>2. /\ DOMAIN b = OptionNames
      /\ b.endpoint_explicit = builder.endpoint_explicit
      /\ \A p \in Spoken : b[p] = builder[p]
  BY <1>1 DEF Spoken, Overridable, OptionNames
<1>3. \A s \in b.loadbalancer : b.loadbalancer = {s} /\ loadbalancer_try_new(s)
  BY <1>1, <1>2 DEF OnePool, Spoken, Overridable
<1>4. option # "channel config" /\ option # "endpoint" /\ option \notin Spoken
  BY DEF Spoken, Overridable
<1>5. option # "plaintext_allowed"
  OBVIOUS
<1>6. b["accept_compression"] =
          IF option = "accepts too" THEN builder["accept_compression"] \cup w
          ELSE builder["accept_compression"]
  BY <1>1 DEF OptionNames
<1> HIDE DEF b
<1> QED
  BY <1>2, <1>3, <1>4, <1>5, <1>6, SetterKeeps DEF b

\* The methods that set one option, and with_endpoint, which sets two.
LEMMA SettersKeep ==
    ASSUME BuilderInv,
           \/ \E e \in Endpoints : with_endpoint(e)
           \/ with_plaintext_allowed
           \/ \E t \in Timeouts : with_request_timeout(t)
           \/ \E n \in Sizes :
                 with_max_decoding_message_size(n) \/ with_max_encoding_message_size(n)
           \/ \E c \in {"gzip", "zstd"} : with_send_compression(c) \/ with_accept_compression(c)
           \/ \E identity \in BOOLEAN : with_tls(identity)
           \/ \E k \in KeepAlives : with_keep_alive(k)
           \/ \E s \in Balancers : with_loadbalancer(s)
           \/ \E i \in {"own", "trace context"} : with_interceptor(i)
    PROVE  BuilderInv'
<1>1. {"request_timeout", "max_decoding", "max_encoding", "send_compression", "tls",
       "keep_alive", "loadbalancer", "plaintext_allowed"} \subseteq Spoken \ {"endpoint"}
  BY DEF Spoken, Overridable
<1>2. ASSUME NEW e, with_endpoint(e) PROVE BuilderInv'
  <2> DEFINE b == [builder EXCEPT !.endpoint = e, !.endpoint_explicit = TRUE]
  <2>1. DOMAIN builder = OptionNames /\ OnePool
    BY DEF BuilderInv, Shape
  <2>2. /\ DOMAIN b = OptionNames /\ b["endpoint"] = e /\ b.endpoint_explicit
        /\ b["accept_compression"] = builder["accept_compression"]
        /\ \A p \in Spoken : p # "endpoint" => b[p] = builder[p]
    BY <2>1 DEF Spoken, Overridable, OptionNames
  <2>3. Set(b, Call("endpoint", e))
    BY <1>2 DEF with_endpoint
  <2>4. \A s \in b.loadbalancer : b.loadbalancer = {s} /\ loadbalancer_try_new(s)
    BY <2>1, <2>2 DEF OnePool, Spoken, Overridable
  <2> HIDE DEF b
  <2> QED
    BY <2>2, <2>3, <2>4, SetterKeeps DEF Spoken, Overridable, OptionNames
<1>3. ASSUME with_plaintext_allowed PROVE BuilderInv'
  BY <1>1, <1>3, OneOptionSet DEF with_plaintext_allowed
<1>4. ASSUME NEW t, with_request_timeout(t) PROVE BuilderInv'
  BY <1>1, <1>4, OneOptionSet DEF with_request_timeout
<1>5. ASSUME NEW m, with_max_decoding_message_size(m) PROVE BuilderInv'
  BY <1>1, <1>5, OneOptionSet DEF with_max_decoding_message_size
<1>6. ASSUME NEW m, with_max_encoding_message_size(m) PROVE BuilderInv'
  BY <1>1, <1>6, OneOptionSet DEF with_max_encoding_message_size
<1>7. ASSUME NEW c, with_send_compression(c) PROVE BuilderInv'
  BY <1>1, <1>7, OneOptionSet DEF with_send_compression
<1>8. ASSUME NEW c, with_accept_compression(c) PROVE BuilderInv'
  BY <1>8, OtherOptionSet DEF with_accept_compression
<1>9. ASSUME NEW i, with_tls(i) PROVE BuilderInv'
  <2> DEFINE tls == {[from |-> "settings", identity |-> i, files |-> {}]}
  <2>1. Set([builder EXCEPT !["tls"] = tls], Call("tls", tls))
    BY <1>9 DEF with_tls
  <2> HIDE DEF tls
  <2> QED
    BY <1>1, <2>1, OneOptionSet
<1>10. ASSUME NEW k, with_keep_alive(k) PROVE BuilderInv'
  BY <1>1, <1>10, OneOptionSet DEF with_keep_alive
<1>11. ASSUME NEW s, with_loadbalancer(s) PROVE BuilderInv'
  <2>1. \A t \in {s} : {s} = {t} /\ loadbalancer_try_new(t)
    BY <1>11 DEF with_loadbalancer
  <2>2. Set([builder EXCEPT !["loadbalancer"] = {s}], Call("loadbalancer", {s}))
    BY <1>11 DEF with_loadbalancer
  <2> QED
    BY <1>1, <2>1, <2>2, OneOptionSet
<1>12. ASSUME NEW i, with_interceptor(i) PROVE BuilderInv'
  BY <1>12, OtherOptionSet DEF with_interceptor
<1> QED
  BY <1>2, <1>3, <1>4, <1>5, <1>6, <1>7, <1>8, <1>9, <1>10, <1>11, <1>12

-----------------------------------------------------------------------------
(***************************************************************************)
(* build.                                                                  *)
(***************************************************************************)

\* What build has looked at when it makes a client.
LEMMA VerdictBuilt ==
    ASSUME NEW pool_is_built, Verdict(pool_is_built) = "built"
    PROVE  check_values /\ (builder.plaintext_allowed \/ Plaintext = {})
<1>1. check_values
  BY Zenon DEF Verdict
<1>2. builder.plaintext_allowed \/ Plaintext = {}
  BY Zenon DEF Verdict
<1> QED
  BY <1>1, <1>2

\* The targets of a balanced client are its backends.
LEMMA TargetsOfPool ==
    ASSUME OnePool, NEW s \in builder.loadbalancer
    PROVE  list_targets = [i \in 1 .. Len(s) |-> s[i].url]
<1>1. builder.loadbalancer = {s}
  BY DEF OnePool
<1>2. (CHOOSE t \in builder.loadbalancer : TRUE) = s
  BY <1>1
<1> QED
  BY <1>2 DEF list_targets

LEMMA BuildKeeps ==
    ASSUME BuilderInv, Build
    PROVE  BuilderInv'
<1>1. /\ \E pool_is_built \in BOOLEAN : stage' = Verdict(pool_is_built)
      /\ builder' = builder /\ calls' = calls
  BY DEF Build
<1>2. Shape' /\ Words' /\ Accepting' /\ OneWord' /\ Implicit' /\ OnePool'
  <2>1. Shape'
    BY <1>1 DEF BuilderInv, Shape
  <2>2. \A option : Speaking(option)' = Speaking(option) /\ LastWord(option)' = LastWord(option)
    BY <1>1 DEF Speaking, LastWord
  <2>3. Words'
    BY <1>1, <2>2 DEF BuilderInv, Words, AsLastSaid, Spoken, Overridable, Fresh
  <2>4. OneWord' /\ Implicit'
    BY <1>1, <2>2 DEF BuilderInv, OneWord, Implicit
  <2>5. OnePool'
    BY <1>1 DEF BuilderInv, OnePool, loadbalancer_try_new, backend_try_new
  <2>6. Accepting'
    BY <1>1 DEF BuilderInv, Accepting, AcceptedSince, Compressing, Configs
  <2> QED
    BY <2>1, <2>3, <2>4, <2>5, <2>6
<1>3. Checked'
  <2> SUFFICES ASSUME Built' PROVE Checked'
    BY DEF Checked
  <2>1. \E pool_is_built : Verdict(pool_is_built) = "built"
    BY <1>1 DEF Built
  <2>2. /\ client'.options = builder
        /\ client'.targets = list_targets
        /\ client'.tls = {url \in Targets : ~is_plaintext_endpoint(url)}
    <3>1. client' = [targets |-> list_targets, tls |-> Targets \ Plaintext, options |-> builder]
      BY DEF Build, Built
    <3>2. Targets \ Plaintext = {url \in Targets : ~is_plaintext_endpoint(url)}
      BY DEF Plaintext
    <3> QED
      BY <3>1, <3>2
  <2>3. /\ check_values
        /\ builder.plaintext_allowed \/ \A url \in Targets : ~is_plaintext_endpoint(url)
    BY <2>1, VerdictBuilt DEF Plaintext
  <2>4. \A i \in 1 .. Len(client'.targets) : client'.targets[i] \in Targets
    BY <2>2 DEF Targets
  <2>5. \A s \in builder.loadbalancer : ~builder.endpoint_explicit
    BY <2>3 DEF check_values
  <2>6. \A s \in builder.loadbalancer : client'.targets = [i \in 1 .. Len(s) |-> s[i].url]
    BY <2>2, TargetsOfPool DEF BuilderInv
  <2>7. (\E i \in 1 .. Len(client'.targets) : is_plaintext_endpoint(client'.targets[i])) =>
            builder.plaintext_allowed
    BY <2>3, <2>4
  <2>8. IdentityNeedsTls'
    <3> SUFFICES ASSUME \E t \in client'.options.tls : t.identity
                 PROVE  \A i \in 1 .. Len(client'.targets) : client'.targets[i] \in client'.tls
      BY DEF IdentityNeedsTls
    <3>1. ~builder.plaintext_allowed
      BY <2>2, <2>3 DEF check_values, PresentsIdentity
    <3> QED
      BY <2>2, <2>3, <2>4, <3>1
  <2> QED
    BY <1>1, <2>2, <2>5, <2>6, <2>7, <2>8 DEF Checked, is_plaintext_endpoint
<1> QED
  BY <1>2, <1>3 DEF BuilderInv

-----------------------------------------------------------------------------
(***************************************************************************)
(* The theorems.                                                           *)
(***************************************************************************)
LEMMA InitInv ==
    ASSUME Init
    PROVE  BuilderInv
<1>1. PICK e \in Endpoints : builder = Fresh(e)
  BY DEF Init
<1>2. calls = <<>> /\ stage = "options"
  BY DEF Init
<1>3. \A option : Speaking(option) = {}
  BY <1>2 DEF Speaking
<1>4. Shape
  <2>1. DOMAIN builder = OptionNames
    BY <1>1 DEF Fresh, OptionNames
  <2>2. calls \in Seq({})
    BY <1>2
  <2> QED
    BY <2>1, <2>2 DEF Shape
<1>5. Words
  <2> SUFFICES ASSUME NEW option \in Spoken, option # "endpoint"
               PROVE  builder[option] = Fresh("")[option]
    BY <1>3 DEF Words, AsLastSaid
  <2>1. CASE option = "plaintext_allowed"
    BY <1>1, <2>1 DEF Fresh
  <2>2. CASE option \in {"request_timeout", "max_decoding", "max_encoding", "send_compression",
                         "tls", "keep_alive", "loadbalancer"}
    <3>1. /\ builder["request_timeout"] = Fresh("")["request_timeout"]
          /\ builder["max_decoding"] = Fresh("")["max_decoding"]
          /\ builder["max_encoding"] = Fresh("")["max_encoding"]
          /\ builder["send_compression"] = Fresh("")["send_compression"]
          /\ builder["tls"] = Fresh("")["tls"]
          /\ builder["keep_alive"] = Fresh("")["keep_alive"]
          /\ builder["loadbalancer"] = Fresh("")["loadbalancer"]
      BY <1>1 DEF Fresh
    <3> QED
      BY <2>2, <3>1
  <2> QED
    BY <2>1, <2>2 DEF Spoken, Overridable
<1>6. OneWord /\ Implicit /\ Checked
  BY <1>2, <1>3 DEF OneWord, Implicit, Checked, Built
<1>7. OnePool
  BY <1>1 DEF OnePool, Fresh
<1>8. Accepting
  <2>1. AcceptedSince(Compressing) = {}
    BY <1>2 DEF AcceptedSince
  <2> QED
    BY <1>1, <2>1 DEF Accepting, Fresh
<1> QED
  BY <1>4, <1>5, <1>6, <1>7, <1>8 DEF BuilderInv

\* A step that changes nothing.
LEMMA StutterKeeps ==
    ASSUME BuilderInv, UNCHANGED vars
    PROVE  BuilderInv'
<1>1. builder' = builder /\ calls' = calls /\ stage' = stage /\ client' = client
  BY DEF vars
<1>2. \A option : Speaking(option)' = Speaking(option) /\ LastWord(option)' = LastWord(option)
  BY <1>1 DEF Speaking, LastWord
<1>3. Words'
  BY <1>1, <1>2 DEF BuilderInv, Words, AsLastSaid, Spoken, Overridable, Fresh
<1>4. Shape' /\ OneWord' /\ Implicit'
  BY <1>1, <1>2 DEF BuilderInv, Shape, OneWord, Implicit
<1>5. OnePool'
  BY <1>1 DEF BuilderInv, OnePool, loadbalancer_try_new, backend_try_new
<1>6. Checked'
  BY <1>1 DEF BuilderInv, Checked, Built, IdentityNeedsTls, is_plaintext_endpoint
<1>7. Accepting'
  BY <1>1 DEF BuilderInv, Accepting, AcceptedSince, Compressing, Configs
<1> QED
  BY <1>3, <1>4, <1>5, <1>6, <1>7 DEF BuilderInv

\* The invariant: at every moment, and not only once build has ended, each
\* option is what the last method or config that spoke of it said, a balancer
\* is one its constructor accepted, and a client has what build looked at.
THEOREM BuilderInvariant == Spec => []BuilderInv
<1>1. Init => BuilderInv
  BY InitInv
<1>2. BuilderInv /\ [Next]_vars => BuilderInv'
  <2> SUFFICES ASSUME BuilderInv, [Next]_vars PROVE BuilderInv'
    OBVIOUS
  <2>1. CASE \E c \in ChannelConfigs : with_channel_config(c)
    BY <2>1, ConfigKeeps
  <2>2. CASE Build
    BY <2>2, BuildKeeps
  <2>3. CASE Done \/ UNCHANGED vars
    BY <2>3, StutterKeeps DEF Done
  <2> QED
    BY <2>1, <2>2, <2>3, SettersKeep DEF Next
<1> QED
  BY <1>1, <1>2, PTL DEF Spec

\* A client has what the last word on each option was and accepts the encodings
\* that were asked for, for any number of methods and configs in any order
\* (with_channel_config and the others).
THEOREM BuilderLastWordCounts == Spec => []LastWordCounts
<1>1. BuilderInv => LastWordCounts
  <2> SUFFICES ASSUME BuilderInv, Built PROVE LastWordCounts
    BY DEF LastWordCounts
  <2>1. client.options = builder
    BY DEF BuilderInv, Checked
  <2>2. ASSUME NEW option \in Overridable
        PROVE  IF Speaking(option) = {}
               THEN option # "endpoint" => client.options[option] = Fresh("")[option]
               ELSE client.options[option] \in LastWord(option)
    <3>1. AsLastSaid(option)
      BY DEF BuilderInv, Words, Spoken
    <3> QED
      BY <2>1, <3>1 DEF AsLastSaid
  <2>3. client.options.accept_compression = AcceptedSince(Compressing)
    BY <2>1 DEF BuilderInv, Accepting
  <2> QED
    BY <2>2, <2>3 DEF LastWordCounts
<1> QED
  BY <1>1, BuilderInvariant, PTL

\* A client with a plaintext target was allowed it by the last call that had a
\* say: TLS is the default, and a config that requires it takes an earlier
\* permission back (build, with_channel_config).
THEOREM BuilderPlaintextIsAllowed == Spec => []PlaintextIsAllowed
<1>1. BuilderInv => PlaintextIsAllowed
  <2> SUFFICES ASSUME BuilderInv, Built,
                      \E i \in 1 .. Len(client.targets) : is_plaintext_endpoint(client.targets[i])
               PROVE  Speaking("plaintext_allowed") # {} /\ LastWord("plaintext_allowed") = {TRUE}
    BY DEF PlaintextIsAllowed
  <2> DEFINE option == "plaintext_allowed"
  <2>1. builder.plaintext_allowed
    BY DEF BuilderInv, Checked
  <2>2. AsLastSaid(option)
    BY DEF BuilderInv, Words, Spoken
  <2>3. Fresh("")[option] = FALSE
    BY DEF Fresh
  <2>4. Speaking(option) # {}
    BY <2>1, <2>2, <2>3 DEF AsLastSaid
  <2>5. /\ builder[option] \in LastWord(option)
        /\ \E i \in Speaking(option) : \A j \in Speaking(option) : j <= i
    BY <2>2, <2>4 DEF AsLastSaid
  <2>6. LastWord(option) \in {{TRUE}, {FALSE}}
    <3> DEFINE last == CHOOSE i \in Speaking(option) : \A j \in Speaking(option) : j <= i
    <3>1. last \in Speaking(option)
      BY <2>5
    <3>2. LastWord(option) = Says(calls[last], option)
      BY DEF LastWord
    <3> QED
      BY <3>1, <3>2 DEF BuilderInv, OneWord
  <2> QED
    BY <2>1, <2>4, <2>5, <2>6, Zenon
<1> QED
  BY <1>1, BuilderInvariant, PTL

\* A client that presents a certificate speaks TLS to each of its targets
\* (check_values, build).
THEOREM BuilderIdentityNeedsTls == Spec => []IdentityNeedsTls
<1>1. BuilderInv => IdentityNeedsTls
  BY DEF BuilderInv, Checked, IdentityNeedsTls
<1> QED
  BY <1>1, BuilderInvariant, PTL

\* The pool of a balanced client is the backends that were asked for, each of
\* which has a weight, and replaces no endpoint that somebody named
\* (with_loadbalancer, check_values, list_targets).
THEOREM BuilderPoolIsServed == Spec => []PoolIsServed
<1>1. BuilderInv => PoolIsServed
  <2> SUFFICES ASSUME BuilderInv, Built, NEW s \in client.options.loadbalancer
               PROVE  /\ s # <<>>
                      /\ client.targets = [i \in 1 .. Len(s) |-> s[i].url]
                      /\ \A i \in 1 .. Len(s) : s[i].weight >= 1
                      /\ \A i \in Speaking("endpoint") : Says(calls[i], "endpoint") = {""}
    BY DEF PoolIsServed
  <2>1. s \in builder.loadbalancer
    BY DEF BuilderInv, Checked
  <2>2. loadbalancer_try_new(s)
    BY <2>1 DEF BuilderInv, OnePool
  <2>3. client.targets = [i \in 1 .. Len(s) |-> s[i].url] /\ ~builder.endpoint_explicit
    BY <2>1 DEF BuilderInv, Checked
  <2>4. \A i \in Speaking("endpoint") : Says(calls[i], "endpoint") = {""}
    BY <2>3 DEF BuilderInv, Implicit
  <2> QED
    BY <2>2, <2>3, <2>4 DEF loadbalancer_try_new, backend_try_new
<1> QED
  BY <1>1, BuilderInvariant, PTL
=============================================================================
