---------------------------- MODULE MCNodeHandler ----------------------------
(* Uploads of up to three chunks past a cap of one, replies of up to three. *)
EXTENDS NodeHandler, TLC
=============================================================================
