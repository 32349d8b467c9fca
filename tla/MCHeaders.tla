------------------------------ MODULE MCHeaders ------------------------------
(***************************************************************************)
(* Headers for TLC.                                                        *)
(***************************************************************************)
EXTENDS Headers

SomeCallerKeys == {"authorization", "traceparent", "x-tenant-id"}

SomeExtraKeys == {<<>>, <<"authorization">>, <<"traceparent">>,
                  <<"x-extra", "x-extra">>, <<"x-extra", "not a key">>}

SomeChains == {<<>>, <<"bearer">>, <<"static with state">>, <<"pass through", "bearer">>,
               <<"static", "bearer">>, <<"bearer", "static">>}

\* A missing field, an empty one, a zero; then settings that are accepted.
SomeDrafts ==
    {[secret |-> s, names |-> n, lifetime_seconds |-> l] :
        <<s, n, l>> \in {<<"none", "given", 2>>, <<"empty", "given", 2>>,
                         <<"hs256", "missing", 2>>, <<"hs256", "empty", 2>>,
                         <<"hs256", "given", 0>>,
                         <<"hs256", "given", 1>>, <<"rs256", "given", 3>>,
                         <<"not a pem", "given", 1>>}}
=============================================================================
