--------------------------- MODULE MCRefreshFetch ---------------------------
(* Three calls in front of a server that may end sessions at any moment.   *)
EXTENDS RefreshFetch, TLC

CONSTANTS a, b, c

MCCalls == {a, b, c}
=============================================================================
