------------------------------- MODULE Failures -------------------------------
(***************************************************************************)
(* What close(error) and endAll(error) are given: an error of the          *)
(* transport, or nothing.                                                  *)
(***************************************************************************)
CONSTANTS Errors, NoError

ASSUME FailureAssumption == NoError \notin Errors
=============================================================================
