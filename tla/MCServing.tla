------------------------------ MODULE MCServing ------------------------------
(***************************************************************************)
(* An instance of Serving for TLC.                                         *)
(***************************************************************************)
EXTENDS Serving

CONSTANTS q1, q2, q3
=============================================================================
