--------------------------- MODULE MCBearerSession --------------------------
(* BearerSession on a few requests and tokens.  Tokens are interchangeable  *)
(* and so are requests, so a run that checks no liveness may identify their *)
(* permutations.                                                            *)
EXTENDS BearerSession, TLC

Symmetric == Permutations(Tokens) \cup Permutations(Requests)
=============================================================================
