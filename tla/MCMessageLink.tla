---------------------------- MODULE MCMessageLink ----------------------------
(* One connection, two or three frames down and one up.                    *)
EXTENDS MessageLink, TLC
=============================================================================
