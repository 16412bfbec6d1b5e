--------------------------- MODULE MCRemoteCache ---------------------------
(* RemoteCache with four calls to one location under three scopes, so three *)
(* keys, and a cap of two.  Calls, locations and scopes are interchangeable. *)
EXTENDS RemoteCache, TLC

Symmetric ==
  Permutations(Calls) \cup Permutations(Locations) \cup Permutations(Scopes)
=============================================================================
