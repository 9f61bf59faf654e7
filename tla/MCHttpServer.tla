----------------------------- MODULE MCHttpServer -----------------------------
(* Instances of HttpServer for TLC.                                           *)
EXTENDS HttpServer

Chars == {"/", "a", ".", "*"}

\* Paths for each arm of dispatch(): with and without a location, a slash at
\* the end or two, a "." and a "..", that of OPTIONS * and the empty one of a
\* CONNECT to a server that is no forward proxy.
Paths == {<<>>, <<"*">>, <<"/">>, <<"/", "a">>, <<"/", "a", "/">>, <<"/", "a", "/", "a">>,
          <<"/", "a", "a">>, <<"/", ".", ".">>, <<"/", "a", ".", ".">>,
          <<"/", ".", "/", "a">>, <<"/", "/", "a", "/">>}

To(path, action) == [path |-> path, action |-> action]

ForwardProxies == {[forward_proxy |-> TRUE, locations |-> <<>>]}

Sites == ForwardProxies \cup
    {[forward_proxy |-> FALSE, locations |->
        <<To(<<"/">>, "static"), To(<<"/", "a">>, "named_upstream"),
          To(<<"/", "a", "/", "a">>, "return")>>],
     [forward_proxy |-> FALSE, locations |->
        <<To(<<"/", "a">>, "direct"), To(<<"/", "a", "a">>, "missing_upstream")>>]}

=============================================================================
