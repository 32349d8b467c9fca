------------------------------- MODULE Headers -------------------------------
(***************************************************************************)
(* The headers of one call, from the caller's metadata to what each        *)
(* attempt sends: the view that adds a caller identity (ContextTransport), *)
(* the retry decorator, which keeps the metadata for every attempt, and    *)
(* the interceptors that add a trace context and a signed token to each    *)
(* attempt (TraceContextGrpcEgressInterceptor, BearerEgressInterceptor).   *)
(*                                                                         *)
(* A header is its key and who put it there; a token also has the instant  *)
(* it expires.  Metadata is a sequence: a key may be there twice.          *)
(* MetadataBuilder, which refuses a key that gRPC does not allow, is       *)
(* external.                                                               *)
(***************************************************************************)
EXTENDS Integers, Sequences

CONSTANTS
    CallerKeys,   \* the keys a caller may put in its metadata
    ExtraKeys,    \* the lists of further headers an identity may have
    Chains,       \* the chains of interceptors
    BearerDrafts, \* what an application may write as its bearer settings
    MaxAttempts,  \* max_attempts of the retry policy
    MaxTime       \* u64::MAX, in seconds

Interceptors == {"bearer", "static", "static with state", "pass through"}

ASSUME HeadersAssumption ==
    /\ MaxAttempts \in Nat \ {0}
    /\ MaxTime \in Nat
    /\ ExtraKeys \subseteq Seq(STRING)
    /\ Chains \subseteq Seq(Interceptors)
    /\ BearerDrafts \subseteq [secret : STRING, names : STRING, lifetime_seconds : Nat]

VARIABLES
    caller,    \* the keys the caller put in the call's metadata
    identity,  \* the CallerIdentity of the view
    chain,     \* the interceptors, in the order they were added
    bearer,    \* the bearer settings
    now,       \* the system clock, in seconds since 1970 or before it
    pc,        \* where the call is
    metadata,  \* the options' metadata under the view
    sent,      \* the headers of the attempt that is out
    attempts,  \* history: how many attempts were sent
    result     \* how the call ended

vars == <<caller, identity, chain, bearer, now, pc, metadata, sent, attempts, result>>

setup == <<caller, identity, chain, bearer>>

-----------------------------------------------------------------------------
Header(key, from) == [key |-> key, from |-> from, exp |-> 0]

\* MetadataBuilder::append refuses the key.
Invalid(key) == key = "not a key"

\* get_values: where in the metadata the values of the key are.
ValuesOf(md, key) == {i \in 1 .. Len(md) : md[i].key = key}

\* PendingCall::has_header.  A key that get_values refuses counts as absent
\* (unwrap_or_default).
has_header(md, key) == ~Invalid(key) /\ ValuesOf(md, key) # {}

Refused == [ok |-> FALSE, md |-> <<>>, code |-> "InvalidArgument"]
Carried(md) == [ok |-> TRUE, md |-> md, code |-> "Ok"]

\* StdMetadataExtender::append: what is there, then the header.
append(md, h) == IF Invalid(h.key) THEN Refused ELSE Carried(Append(md, h))

\* PendingCall::add_header.
add_header(md, h) == append(md, h)

\* Slip: a header is added whether or not the source has its key.
extend_always(source, added) ==
    IF \E i \in 1 .. Len(added) : Invalid(added[i].key)
    THEN Refused
    ELSE Carried(source \o added)

\* Slip: a header that is not valid is left out.
extend_leniently(source, added) ==
    LET new == SelectSeq(added, LAMBDA h : ~has_header(source, h.key) /\ ~Invalid(h.key))
    IN  Carried(source \o new)

\* StdMetadataExtender::extend: the headers whose key the source does not
\* have, in order, up to the first that is refused; a key that is added may be
\* added again.
extend(source, added) ==
    LET After[i \in 0 .. Len(added)] ==
            IF i = 0 THEN Carried(source)
            ELSE IF ~After[i - 1].ok \/ has_header(source, added[i].key) THEN After[i - 1]
            ELSE append(After[i - 1].md, added[i])
    IN  After[Len(added)]

-----------------------------------------------------------------------------
(***************************************************************************)
(* The bearer settings.                                                    *)
(***************************************************************************)

\* BearerSecret::try_from.
secret_try_from(secret) == secret # "empty"

\* BearerEgressConfig::validate; the names are issuer, audience and subject.
bearer_validate(d) == d.names # "empty" /\ d.lifetime_seconds > 0

\* StdBearerEgressConfigBuilder::build: every field was given, and is accepted.
bearer_build(d) ==
    /\ d.secret # "none" /\ d.names # "missing"
    /\ secret_try_from(d.secret)
    /\ bearer_validate(d)

\* now.saturating_add(lifetime_seconds).
expiry(t, lifetime) == IF t + lifetime > MaxTime THEN MaxTime ELSE t + lifetime

\* sign_token: duration_since(UNIX_EPOCH) fails for a clock that stands before
\* 1970 (InvalidSystemTime) ...
ValidSystemTime(t) == t >= 0

\* ... and a PEM that is not a key cannot sign (SignFailed).
CanSign == bearer.secret # "not a pem"

-----------------------------------------------------------------------------
(***************************************************************************)
(* The interceptors.                                                       *)
(***************************************************************************)

\* TraceContextGrpcEgressInterceptor::before_call.
trace_before_call(source, md) ==
    IF has_header(md, "traceparent") \/ source = "pass through"
    THEN Carried(md)
    ELSE LET parent == add_header(md, Header("traceparent", "trace"))
         IN  IF source = "static" THEN parent
             ELSE add_header(parent.md, Header("tracestate", "trace"))

\* BearerEgressInterceptor::before_call.
bearer_before_call(md) ==
    IF has_header(md, "authorization")
    THEN Carried(md)
    ELSE IF ~(ValidSystemTime(now) /\ CanSign)
    THEN [ok |-> FALSE, md |-> <<>>, code |-> "Internal"]
    ELSE add_header(md, [key |-> "authorization", from |-> "bearer",
                         exp |-> expiry(now, bearer.lifetime_seconds)])

before_call(interceptor, md) ==
    IF interceptor = "bearer" THEN bearer_before_call(md)
    ELSE trace_before_call(interceptor, md)

\* StdGrpcEgressInterceptorChain::run_before: in order, up to the first error.
run_before(md) ==
    LET After[i \in 0 .. Len(chain)] ==
            IF i = 0 THEN Carried(md)
            ELSE IF ~After[i - 1].ok THEN After[i - 1]
            ELSE before_call(chain[i], After[i - 1].md)
    IN  After[Len(chain)]

-----------------------------------------------------------------------------
Init ==
    /\ caller \in SUBSET CallerKeys
    /\ identity \in [trace_id : BOOLEAN, tenant_id : BOOLEAN, bearer_token : BOOLEAN,
                     headers : ExtraKeys]
    /\ chain \in Chains
    /\ bearer \in BearerDrafts
    /\ now \in -1 .. MaxTime
    /\ pc = "settings"
    /\ metadata = <<>>
    /\ sent = <<>>
    /\ attempts = 0
    /\ result = "none"

\* The client is built, unless its chain needs bearer settings that are
\* refused.
BuildClient ==
    /\ pc = "settings"
    /\ pc' = IF (\E i \in 1 .. Len(chain) : chain[i] = "bearer") /\ ~bearer_build(bearer)
             THEN "refused" ELSE "call"
    /\ UNCHANGED <<setup, now, metadata, sent, attempts, result>>

\* ContextHeaders: in the order they are sent.
context_headers ==
    LET When(has, key) == IF has THEN <<Header(key, "identity")>> ELSE <<>>
        Listed == [i \in 1 .. Len(identity.headers) |-> Header(identity.headers[i], "identity")]
    IN  When(identity.trace_id, "x-trace-id") \o When(identity.tenant_id, "x-tenant-id")
            \o When(identity.bearer_token, "authorization") \o Listed

\* The caller's metadata.
FromCaller ==
    LET Of(key) == IF key \in caller THEN <<Header(key, "caller")>> ELSE <<>>
    IN  Of("authorization") \o Of("traceparent") \o Of("x-tenant-id")

\* ContextTransport::add_headers.
add_headers(md) == IF context_headers = <<>> THEN Carried(md) ELSE extend(md, context_headers)

\* A call of any shape through the view, up to the wrapped client.
AddHeaders ==
    /\ pc = "call"
    /\ LET extended == add_headers(FromCaller)
       IN  /\ pc' = IF extended.ok THEN "loop" ELSE "done"
           /\ metadata' = extended.md
           /\ result' = IF extended.ok THEN "none" ELSE extended.code
    /\ UNCHANGED <<setup, now, sent, attempts>>

\* Slip: an attempt sends what the attempt before it sent.
AttemptKeepsToken ==
    /\ pc = "loop"
    /\ LET carried == IF attempts = 0 THEN run_before(metadata) ELSE Carried(sent)
       IN  /\ sent' = carried.md
           /\ attempts' = IF carried.ok THEN attempts + 1 ELSE attempts
           /\ pc' = IF carried.ok THEN "sent" ELSE "done"
           /\ result' = IF carried.ok THEN "none" ELSE carried.code
    /\ UNCHANGED <<setup, now, metadata>>

\* An attempt of the retry loop: it starts from the metadata of the call, and
\* the interceptors add theirs.  A chain that fails ends the call: neither
\* InvalidArgument nor Internal of the transport is retried.
Attempt ==
    /\ pc = "loop"
    /\ LET carried == run_before(metadata)
       IN  /\ sent' = carried.md
           /\ attempts' = IF carried.ok THEN attempts + 1 ELSE attempts
           /\ pc' = IF carried.ok THEN "sent" ELSE "done"
           /\ result' = IF carried.ok THEN "none" ELSE carried.code
    /\ UNCHANGED <<setup, now, metadata>>

\* The attempt failed and another is made, after a pause.
AttemptFails ==
    /\ pc = "sent"
    /\ attempts < MaxAttempts
    /\ pc' = "loop"
    /\ UNCHANGED <<setup, now, metadata, sent, attempts, result>>

\* The attempt is the last, whatever it ended in.
AttemptEnds ==
    /\ pc = "sent"
    /\ pc' = "done"
    /\ result' = "Ok"
    /\ UNCHANGED <<setup, now, metadata, sent, attempts>>

\* A second goes by.
Tick ==
    /\ pc \in {"loop", "sent"}
    /\ now < MaxTime
    /\ now' = now + 1
    /\ UNCHANGED <<setup, pc, metadata, sent, attempts, result>>

Over == pc \in {"done", "refused"} /\ UNCHANGED vars

Next ==
    \/ BuildClient
    \/ AddHeaders
    \/ Attempt
    \/ AttemptFails
    \/ AttemptEnds
    \/ Tick
    \/ Over

Spec == Init /\ [][Next]_vars

-----------------------------------------------------------------------------
(***************************************************************************)
(* Properties.                                                             *)
(***************************************************************************)
\* Who has a value for the key.
Offers(key) ==
    (IF key \in caller THEN {"caller"} ELSE {})
    \cup (IF \E i \in 1 .. Len(context_headers) : context_headers[i].key = key
          THEN {"identity"} ELSE {})
    \cup (IF key = "authorization" /\ \E i \in 1 .. Len(chain) : chain[i] = "bearer"
          THEN {"bearer"} ELSE {})
    \cup (IF key = "traceparent"
              /\ \E i \in 1 .. Len(chain) : chain[i] \in {"static", "static with state"}
          THEN {"trace"} ELSE {})

\* Whose value for the key is sent.
Winner(key) ==
    IF "caller" \in Offers(key) THEN "caller"
    ELSE IF "identity" \in Offers(key) THEN "identity"
    ELSE "an interceptor"

\* Every attempt carries one party's credential and one party's trace context:
\* the caller's own if it has one, or else the identity's, or else the
\* interceptor's, wherever in the chain that is and on every attempt alike
\* (extend, has_header).
OneCredential ==
    pc = "sent" =>
        \A key \in {"authorization", "traceparent"} :
            LET values == ValuesOf(sent, key)
            IN  IF Winner(key) = "an interceptor"
                THEN (\A i, j \in values : i = j) /\ (Offers(key) # {} => values # {})
                ELSE values # {} /\ \A i \in values : sent[i].from = Winner(key)

\* A header of the identity is sent, or the caller has set that key itself, or
\* nothing is sent at all: it is never dropped silently (add_headers).
IdentityIsSent ==
    pc = "sent" =>
        \A i \in 1 .. Len(context_headers) :
            has_header(FromCaller, context_headers[i].key)
            \/ \E j \in 1 .. Len(sent) : sent[j] = context_headers[i]

\* A token that an attempt carries has not expired when the attempt begins,
\* however long the earlier attempts and pauses took and however large the
\* lifetime: it is signed for the attempt, for a second at least.
TokenIsFresh ==
    [][ pc = "loop" /\ pc' = "sent" /\ now < MaxTime =>
            \A i \in 1 .. Len(sent') : sent'[i].from = "bearer" => sent'[i].exp > now ]_vars
=============================================================================
