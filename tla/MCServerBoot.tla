----------------------------- MODULE MCServerBoot -----------------------------
(***************************************************************************)
(* Instances of ServerBoot for TLC.                                        *)
(***************************************************************************)
EXTENDS ServerBoot

CONSTANTS s1, s2, t1
=============================================================================
