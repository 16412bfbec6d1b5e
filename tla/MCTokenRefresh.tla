--------------------------- MODULE MCTokenRefresh ---------------------------
(* TokenRefresh on a short clock.  The ceiling of setTimeout is two ticks,  *)
(* less than the longest wait for a window, and the shortest lifetime puts  *)
(* a token inside its window from the start.                                *)
EXTENDS TokenRefresh, TLC

Symmetric == Permutations(Calls)
=============================================================================
