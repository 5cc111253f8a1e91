------------------------------ MODULE MCLifecycle ------------------------------
(***************************************************************************)
(* Two services.                                                           *)
(***************************************************************************)
EXTENDS Lifecycle

CONSTANTS u1, u2
=============================================================================
