----------------------------- MODULE MCTopoSort -----------------------------
(***************************************************************************)
(* Every graph of three jobs with up to two entries in each dependency     *)
(* list, self-dependencies, repeated and unknown names included.           *)
(***************************************************************************)
EXTENDS TopoSort

MCDepLists == UNION {[1..n -> 0..NumJobs] : n \in 0..2}
=============================================================================
