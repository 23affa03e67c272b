------------------------------ MODULE MCSteps -------------------------------
(***************************************************************************)
(* Every job of up to two steps over the given step configurations.        *)
(* 4-bit words stand for the code's 64-bit ones, so that a handful of      *)
(* retries reaches the boundary where delays saturate.                     *)
(***************************************************************************)
EXTENDS Steps
=============================================================================
