---------------------------- MODULE MCMiddleware ----------------------------
(***************************************************************************)
(* Instances of Middleware for TLC: clients call the server directly, with  *)
(* the right key or a wrong one.                                            *)
(***************************************************************************)
EXTENDS Middleware, TLC

(* Clients are interchangeable, and so are threads. *)
MiddlewareSymmetry == Permutations(Clients) \cup Permutations(Threads)

NoProxies    == <<>>
NoPrefix     == {<<>>}
SmallKey     == <<"k">>
SmallHeaders == {<<Bearer, "k">>, <<Bearer, "x">>}

=============================================================================
