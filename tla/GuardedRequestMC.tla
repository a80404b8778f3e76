---------------------------- MODULE GuardedRequestMC ---------------------------
(***************************************************************************)
(* GuardedRequest for TLC: one user with two requests in flight beside the *)
(* health check, a limiter with room for one key.                          *)
(***************************************************************************)
EXTENDS GuardedRequest

\* A request over TLS, one without it and a preflight.
Web == [tls |-> TRUE, proto |-> "", method |-> "GET", origin |-> "https://a.example",
        user |-> "ann", xff |-> "", xri |-> "", remote |-> "10.0.0.7"]
MCInputs == {
  Web,
  [Web EXCEPT !.tls = FALSE],
  [Web EXCEPT !.method = "OPTIONS"]}

MCWildcardMatches == {<<"*.example", "https://a.example">>}
=============================================================================
