-------------------------- MODULE MCIdentitySource --------------------------
(***************************************************************************)
(* IdentitySource for TLC: two goroutines race in Close while another      *)
(* keeps calling X509Source.                                               *)
(***************************************************************************)
EXTENDS IdentitySource
=============================================================================
