---------------------------- MODULE ClientBuilder ----------------------------
(***************************************************************************)
(* GrpcEgressBuilderImpl: the options of a client, set one by one or from  *)
(* a GrpcChannelConfig, in any order and any number of times, and the      *)
(* client that build makes of them.  The value objects an option takes are *)
(* made by constructors that may refuse, and are modelled with them.       *)
(*                                                                         *)
(* An Option is a set of one value or none.  Of a URL it matters whether   *)
(* it is blank, begins with http:// and is a URI.  The engine's factory,   *)
(* the pool of the load balancer and the PEM files are external.           *)
(***************************************************************************)
EXTENDS Naturals, Sequences, FiniteSets

CONSTANTS
    Endpoints,     \* what an endpoint may be set to
    Timeouts,      \* request timeouts, in seconds
    Sizes,         \* message limits
    KeepAlives,    \* drafts of a KeepAliveConfig
    MtlsDrafts,    \* drafts of an MtlsConfig
    Balancers,     \* drafts of LoadbalancerSettings: sequences of backends
    Channels,      \* drafts of a GrpcChannelConfig
    MaxCalls       \* how many methods are called before build, at most

ASSUME ClientBuilderAssumption == MaxCalls \in Nat /\ Timeouts \subseteq Nat

VARIABLES
    builder,  \* the options
    calls,    \* history: what was called, in order
    stage,    \* "options", or how build ended
    client    \* what was built

vars == <<builder, calls, stage, client>>

-----------------------------------------------------------------------------
(***************************************************************************)
(* URLs and files.                                                         *)
(***************************************************************************)

\* str::trim().is_empty().
Blank(url) == url \in {"", "blank"}

\* is_plaintext_endpoint: http:// in any case.
is_plaintext_endpoint(url) == url \in {"http://a", "HTTP://b"}

\* The seventh byte of the URL is inside a character: the slice in
\* is_plaintext_endpoint panics.
Straddles(url) == url \in {"straddling", "straddling path"}

\* http::Uri accepts it, a path with characters beyond ASCII too; the engine's
\* factory accepts the same.
IsUri(url) == url \in {"http://a", "HTTP://b", "https://a", "https://b", "straddling path"}

\* read_pem: the file can be read and holds the marker.
ReadPem(path, marker) == path = marker

-----------------------------------------------------------------------------
(***************************************************************************)
(* The values options take.                                                *)
(***************************************************************************)

\* KeepAliveConfig::try_new.
keep_alive_try_new(k) == k.interval > 0 /\ k.timeout > 0

\* MtlsConfig::try_new.
mtls_try_new(m) == ~Blank(m.cert) /\ ~Blank(m.key) /\ \A ca \in m.ca : ~Blank(ca)

\* BackendTarget::try_new.
backend_try_new(b) == ~Blank(b.url) /\ b.weight >= 1

\* LoadbalancerSettings::try_new, from code or from a [loadbalancer] table.
loadbalancer_try_new(backends) ==
    backends # <<>> /\ \A i \in 1 .. Len(backends) : backend_try_new(backends[i])

\* GrpcChannelConfig::try_new.
channel_try_new(c) == ~Blank(c.endpoint) /\ c.max_message_bytes > 0 /\ 0 \notin c.request_timeout_secs

DefaultMaxMessageBytes == 4

\* GrpcChannelConfig::default, which is not validated.
DefaultChannel ==
    [endpoint |-> "", tls_required |-> TRUE, mtls |-> {}, keep_alive |-> {},
     max_message_bytes |-> DefaultMaxMessageBytes, compression |-> "none",
     request_timeout_secs |-> {}]

\* StdGrpcChannelConfigBuilder: the config a draft describes.  A timeout is
\* rounded to seconds, and up to one; an endpoint must be given.
from_builder(d) ==
    [endpoint |-> d.endpoint, tls_required |-> ~d.allow_plaintext, mtls |-> d.mtls,
     keep_alive |-> d.keep_alive, max_message_bytes |-> d.max_message_bytes,
     compression |-> d.compression,
     request_timeout_secs |-> {IF t = 0 THEN 1 ELSE t : t \in d.request_timeout}]

\* GrpcChannelConfigData: the config a file describes.
from_file(d) ==
    [endpoint |-> d.endpoint, tls_required |-> ~d.allow_plaintext, mtls |-> d.mtls,
     keep_alive |-> d.keep_alive, max_message_bytes |-> d.max_message_bytes,
     compression |-> d.compression, request_timeout_secs |-> d.request_timeout]

\* The channel configs an application can hold.
ChannelConfigs ==
    {DefaultChannel} \cup
    {c \in {from_builder(d) : d \in Channels} \cup {from_file(d) : d \in Channels} :
        channel_try_new(c)}

-----------------------------------------------------------------------------
(***************************************************************************)
(* The options.                                                            *)
(***************************************************************************)
DefaultTimeout == 30

\* From<String>: the endpoint of the factory, everything else at its default.
Fresh(endpoint) ==
    [endpoint |-> endpoint, endpoint_explicit |-> FALSE, plaintext_allowed |-> FALSE,
     request_timeout |-> DefaultTimeout, max_decoding |-> {}, max_encoding |-> {},
     send_compression |-> {}, accept_compression |-> {}, interceptors |-> <<>>,
     tls |-> {}, keep_alive |-> {}, loadbalancer |-> {}]

NoClient == [targets |-> <<>>, tls |-> {}, options |-> Fresh("")]

Init ==
    /\ \E e \in Endpoints : builder = Fresh(e)
    /\ calls = <<>>
    /\ stage = "options"
    /\ client = NoClient

Set(b, call) ==
    /\ stage = "options"
    /\ Len(calls) < MaxCalls
    /\ builder' = b
    /\ calls' = Append(calls, call)
    /\ UNCHANGED <<stage, client>>

Call(option, value) == [option |-> option, value |-> {value}]

with_endpoint(e) ==
    Set([builder EXCEPT !.endpoint = e, !.endpoint_explicit = TRUE], Call("endpoint", e))

with_plaintext_allowed ==
    Set([builder EXCEPT !.plaintext_allowed = TRUE], Call("plaintext_allowed", TRUE))

with_request_timeout(t) ==
    Set([builder EXCEPT !.request_timeout = t], Call("request_timeout", t))

with_max_decoding_message_size(n) ==
    Set([builder EXCEPT !.max_decoding = {n}], Call("max_decoding", {n}))

with_max_encoding_message_size(n) ==
    Set([builder EXCEPT !.max_encoding = {n}], Call("max_encoding", {n}))

with_send_compression(c) ==
    Set([builder EXCEPT !.send_compression = {c}], Call("send_compression", {c}))

with_accept_compression(c) ==
    Set([builder EXCEPT !.accept_compression = @ \cup {c}], Call("accepts too", {c}))

\* Settings given as bytes; they hold a client certificate or not.
with_tls(identity) ==
    LET tls == {[from |-> "settings", identity |-> identity, files |-> {}]}
    IN  Set([builder EXCEPT !.tls = tls], Call("tls", tls))

with_keep_alive(k) ==
    /\ keep_alive_try_new(k)
    /\ Set([builder EXCEPT !.keep_alive = {k}], Call("keep_alive", {k}))

with_loadbalancer(s) ==
    /\ loadbalancer_try_new(s)
    /\ Set([builder EXCEPT !.loadbalancer = {s}], Call("loadbalancer", {s}))

\* with_interceptor, and with_trace_context, which makes one.
with_interceptor(i) ==
    Set([builder EXCEPT !.interceptors = Append(@, i)], Call("interceptor", i))

\* read_compression.
read_compression(mode) == IF mode = "none" THEN {} ELSE {mode}

FilesOf(mtls) == {[from |-> "files", identity |-> TRUE, files |-> {m}] : m \in mtls}

Or(option, other) == IF option # {} THEN option ELSE other

\* The options the config names, and for the others what was there.
configured(c) ==
    [builder EXCEPT
        !.endpoint = c.endpoint,
        !.endpoint_explicit = @ \/ ~(c.endpoint = ""),
        !.plaintext_allowed = ~c.tls_required,
        !.request_timeout = IF c.request_timeout_secs = {} THEN @
                            ELSE CHOOSE t \in c.request_timeout_secs : TRUE,
        !.max_decoding = {c.max_message_bytes},
        !.max_encoding = {c.max_message_bytes},
        !.send_compression = Or(read_compression(c.compression), @),
        !.accept_compression = Or(read_compression(c.compression), @),
        !.tls = Or(FilesOf(c.mtls), @),
        !.keep_alive = Or(c.keep_alive, @)]

Configure(b, c) == Set(b, [option |-> "channel config", value |-> {c}])

\* Slip: TLS files and keep-alive that the config does not name are unset.
with_channel_config_resetting(c) ==
    Configure([configured(c) EXCEPT !.tls = FilesOf(c.mtls), !.keep_alive = c.keep_alive], c)

\* Slip: a config that requires TLS does not take back an earlier permission.
with_channel_config_permissive(c) ==
    Configure([configured(c) EXCEPT
                  !.plaintext_allowed = builder.plaintext_allowed \/ ~c.tls_required], c)

\* Slip: the config forgets that an endpoint was named before it.
with_channel_config_forgetful(c) ==
    Configure([configured(c) EXCEPT !.endpoint_explicit = ~(c.endpoint = "")], c)

\* with_channel_config.
with_channel_config(c) == Configure(configured(c), c)

-----------------------------------------------------------------------------
(***************************************************************************)
(* build.                                                                  *)
(***************************************************************************)
PresentsIdentity == \E t \in builder.tls : t.identity

\* Slip: a client certificate and plaintext do not exclude each other.
check_values_mixed ==
    /\ 0 \notin builder.max_decoding \cup builder.max_encoding
    /\ builder.request_timeout > 0
    /\ ~(builder.loadbalancer # {} /\ builder.endpoint_explicit)

\* check_values, presents_identity.
check_values ==
    /\ 0 \notin builder.max_decoding \cup builder.max_encoding
    /\ builder.request_timeout > 0
    /\ ~(PresentsIdentity /\ builder.plaintext_allowed)
    /\ ~(builder.loadbalancer # {} /\ builder.endpoint_explicit)

\* list_targets: the endpoint, or each backend of the load balancer ...
list_targets ==
    IF builder.loadbalancer = {}
    THEN <<builder.endpoint>>
    ELSE LET backends == CHOOSE s \in builder.loadbalancer : TRUE
         IN  [i \in 1 .. Len(backends) |-> backends[i].url]

\* ... whose URLs must parse.
targets_parse ==
    builder.loadbalancer # {} => \A i \in 1 .. Len(list_targets) : IsUri(list_targets[i])

\* name_tls_option.
name_tls_option == {IF t.from = "settings" THEN "tls" ELSE "mtls" : t \in builder.tls}

\* StdTlsSettingsResolver::resolve: the files can be read, and hold what they
\* are named for.
resolve(m) ==
    /\ \A ca \in m.ca : ReadPem(ca, "certificate")
    /\ ReadPem(m.cert, "certificate")
    /\ ReadPem(m.key, "private key")

\* resolve_tls: settings, and the system's roots, are taken as they are.
resolve_tls == \A t \in builder.tls : \A m \in t.files : resolve(m)

\* create_client: the engine accepts the endpoint.
create_client(url) == IsUri(url)

Targets == {list_targets[i] : i \in 1 .. Len(list_targets)}

Plaintext == {url \in Targets : is_plaintext_endpoint(url)}

\* A pass over the targets that ends at the first of stops slices a URL that
\* straddles on its way.
PanicsBefore(stops) ==
    \E i \in 1 .. Len(list_targets) :
        Straddles(list_targets[i]) /\ \A j \in 1 .. i - 1 : list_targets[j] \notin stops

\* How build ends, in the order it looks.  create_pool refuses, last, what the
\* load balancer does not take.
Verdict(pool_is_built) ==
    IF ~check_values \/ ~targets_parse THEN "refused"
    ELSE IF ~builder.plaintext_allowed /\ PanicsBefore(Plaintext) THEN "panicked"
    ELSE IF ~builder.plaintext_allowed /\ Plaintext # {} THEN "refused"
    ELSE IF name_tls_option # {} /\ PanicsBefore(Targets \ Plaintext) THEN "panicked"
    ELSE IF (name_tls_option # {} /\ Targets = Plaintext) \/ ~resolve_tls THEN "refused"
    ELSE IF PanicsBefore({url \in Targets : ~create_client(url)}) THEN "panicked"
    ELSE IF \/ \E url \in Targets : ~create_client(url)
            \/ builder.loadbalancer # {} /\ ~pool_is_built
    THEN "refused"
    ELSE "built"

\* TLS is set up for the targets that are not plaintext.
Build ==
    /\ stage = "options"
    /\ \E pool_is_built \in BOOLEAN : stage' = Verdict(pool_is_built)
    /\ client' = IF stage' = "built"
                 THEN [targets |-> list_targets, tls |-> Targets \ Plaintext,
                       options |-> builder]
                 ELSE NoClient
    /\ UNCHANGED <<builder, calls>>

Done == stage # "options" /\ UNCHANGED vars

Next ==
    \/ \E e \in Endpoints : with_endpoint(e)
    \/ with_plaintext_allowed
    \/ \E t \in Timeouts : with_request_timeout(t)
    \/ \E n \in Sizes :
          with_max_decoding_message_size(n) \/ with_max_encoding_message_size(n)
    \/ \E c \in {"gzip", "zstd"} :
          with_send_compression(c) \/ with_accept_compression(c)
    \/ \E identity \in BOOLEAN : with_tls(identity)
    \/ \E k \in KeepAlives : with_keep_alive(k)
    \/ \E s \in Balancers : with_loadbalancer(s)
    \/ \E i \in {"own", "trace context"} : with_interceptor(i)
    \/ \E c \in ChannelConfigs : with_channel_config(c)
    \/ Build
    \/ Done

Spec == Init /\ [][Next]_vars

-----------------------------------------------------------------------------
(***************************************************************************)
(* Properties.                                                             *)
(***************************************************************************)
Built == stage = "built"

\* What one call says of an option: the value, or nothing.  A config speaks of
\* its endpoint, of TLS and of the limits in any case, and of the rest when it
\* has it.
Says(call, option) ==
    IF call.option # "channel config"
    THEN IF call.option = option THEN call.value ELSE {}
    ELSE LET c == CHOOSE c \in call.value : TRUE
         IN  CASE option = "endpoint" -> {c.endpoint}
               [] option = "plaintext_allowed" -> {~c.tls_required}
               [] option \in {"max_decoding", "max_encoding"} -> {{c.max_message_bytes}}
               [] option = "request_timeout" -> c.request_timeout_secs
               [] option = "send_compression" -> IF c.compression = "none" THEN {} ELSE {{c.compression}}
               [] option = "tls" -> IF c.mtls = {} THEN {} ELSE {FilesOf(c.mtls)}
               [] option = "keep_alive" -> IF c.keep_alive = {} THEN {} ELSE {c.keep_alive}
               [] OTHER -> {}

Speaking(option) == {i \in 1 .. Len(calls) : Says(calls[i], option) # {}}

\* What the last call that speaks of the option says of it.
LastWord(option) ==
    LET last == CHOOSE i \in Speaking(option) : \A j \in Speaking(option) : j <= i
    IN  Says(calls[last], option)

Overridable == {"endpoint", "request_timeout", "max_decoding", "max_encoding",
                "send_compression", "tls", "keep_alive", "loadbalancer"}

Configs == {i \in 1 .. Len(calls) : calls[i].option = "channel config"}

\* The last config has no timeout, or no compression, and nobody has spoken of
\* the option since.  Whether such a config leaves the option or sets it back
\* to its default is not settled: the code leaves it, the documentation of the
\* two settings reads as if they were set.
Unsettled(option) ==
    /\ option \in {"request_timeout", "send_compression"}
    /\ \E i \in Configs : \A j \in Speaking(option) : j < i

\* The encodings a call asks to be accepted.
Encodings(call) ==
    IF call.option = "accepts too" THEN UNION call.value
    ELSE IF call.option = "channel config" THEN UNION Says(call, "send_compression")
    ELSE {}

\* The encodings asked for since the last of the calls that begin a new list.
AcceptedSince(starts) ==
    UNION {Encodings(calls[i]) : i \in {k \in 1 .. Len(calls) : \A j \in starts : j <= k}}

\* The configs that name a compression.
Compressing == {i \in Configs : Encodings(calls[i]) # {}}

\* A client has, for every option, what the last call that speaks of it said,
\* whatever mix of methods and configs came before; an option nobody spoke of
\* is at its default.  It accepts the encodings that were asked for, in
\* addition to the config's or in place of what an earlier config asked for
\* (with_channel_config and the other methods).
LastWordCounts ==
    Built =>
        /\ \A option \in Overridable :
              \/ IF Speaking(option) = {}
                 THEN option # "endpoint" => client.options[option] = Fresh("")[option]
                 ELSE client.options[option] \in LastWord(option)
              \/ Unsettled(option) /\ client.options[option] = Fresh("")[option]
        /\ client.options.accept_compression \in
              {AcceptedSince(Compressing), AcceptedSince(Configs)}

\* TLS by default, and fail-closed: a client with a plaintext target was
\* allowed it by the last call that had a say, and a config that requires TLS
\* takes an earlier permission back.
PlaintextIsAllowed ==
    Built /\ (\E i \in 1 .. Len(client.targets) : is_plaintext_endpoint(client.targets[i])) =>
        Speaking("plaintext_allowed") # {} /\ LastWord("plaintext_allowed") = {TRUE}

\* A client that presents a certificate speaks TLS to every target it has, so
\* that no backend gets its calls in the clear.
IdentityNeedsTls ==
    Built /\ (\E t \in client.options.tls : t.identity) =>
        \A i \in 1 .. Len(client.targets) : client.targets[i] \in client.tls

\* The pool of a balanced client can be served: there is a client for each of
\* its backends and no other, each backend has a weight, and no call named an
\* endpoint that the balancer would silently replace.  Endpoints relies on it.
PoolIsServed ==
    Built => \A s \in client.options.loadbalancer :
        /\ s # <<>>
        /\ client.targets = [i \in 1 .. Len(s) |-> s[i].url]
        /\ \A i \in 1 .. Len(s) : s[i].weight >= 1
        /\ \A i \in Speaking("endpoint") : Says(calls[i], "endpoint") = {""}
=============================================================================
