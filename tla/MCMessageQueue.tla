--------------------------- MODULE MCMessageQueue ---------------------------
(* MessageQueue on two message values, one error, up to four pushes and     *)
(* four calls of next().                                                    *)
EXTENDS MessageQueue, TLC
=============================================================================
