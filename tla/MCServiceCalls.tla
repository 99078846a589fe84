---------------------------- MODULE MCServiceCalls ----------------------------
(* The instance of ServiceCalls is given by its .cfg. *)
EXTENDS ServiceCalls
=============================================================================
