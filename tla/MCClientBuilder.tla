--------------------------- MODULE MCClientBuilder ---------------------------
(***************************************************************************)
(* ClientBuilder for TLC.                                                  *)
(***************************************************************************)
EXTENDS ClientBuilder

SomeEndpoints == {"", "http://a", "https://a", "straddling"}

SomeKeepAlives == {[interval |-> 0, timeout |-> 20], [interval |-> 10, timeout |-> 0],
                   [interval |-> 10, timeout |-> 20]}

Mtls(cert, key, ca) == [cert |-> cert, key |-> key, ca |-> ca]

SomeMtls == {Mtls("certificate", "private key", {}),
             Mtls("certificate", "certificate", {}),
             Mtls("certificate", "private key", {"missing"}),
             Mtls("blank", "private key", {})}

Backend(url, weight) == [url |-> url, weight |-> weight]

SomeBalancers ==
    {<<>>, <<Backend("https://a", 1), Backend("https://b", 2)>>,
     <<Backend("http://a", 1), Backend("https://b", 1)>>,
     <<Backend("http://a", 1), Backend("straddling path", 1)>>,
     <<Backend("https://a", 0)>>, <<Backend("blank", 1)>>, <<Backend("not a url", 1)>>}

\* Channel configs as they are written: by a builder or in a file.
Draft(endpoint, plaintext, mtls, keep_alive, bytes, compression, timeout) ==
    [endpoint |-> endpoint, allow_plaintext |-> plaintext, mtls |-> mtls,
     keep_alive |-> keep_alive, max_message_bytes |-> bytes,
     compression |-> compression, request_timeout |-> timeout]

SomeChannels ==
    {Draft("", FALSE, {}, {}, 4, "none", {}),
     Draft("https://b", FALSE, {}, {}, 4, "none", {0}),
     Draft("https://b", FALSE, {}, {}, 0, "none", {}),
     Draft("HTTP://b", TRUE, {}, {}, 8, "gzip", {}),
     Draft("HTTP://b", FALSE, {}, {}, 8, "zstd", {5})} \cup
    {Draft("https://b", FALSE, {m}, {[interval |-> 10, timeout |-> 20]}, 4, "none", {}) :
        m \in {d \in MtlsDrafts : mtls_try_new(d)}}
=============================================================================
