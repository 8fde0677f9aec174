--------------------------- MODULE MCMpvController ---------------------------
(***************************************************************************)
(* Instances of MpvController for TLC.                                     *)
(***************************************************************************)
EXTENDS MpvController

CONSTANTS f1, f2, f3

MCQueues == {<<f1, f2>>, <<f3>>}
=============================================================================
