------------------------------ MODULE MCRunner ------------------------------
(***************************************************************************)
(* Instances of Runner for TLC: four jobs that compete for one slot, and a *)
(* pair of jobs with a slot each.                                          *)
(***************************************************************************)
EXTENDS Runner

(* deploy waits for lint, then for build; docs waits for deploy and has no  *)
(* LLB definition.                                                          *)
MCJobs == {"build", "lint", "deploy", "docs"}

MCDependsOn ==
  [j \in MCJobs |-> CASE j = "deploy" -> <<"lint", "build">>
                      [] j = "docs"   -> <<"deploy">>
                      [] OTHER        -> << >>]

MCRetries == [j \in MCJobs |-> IF j \in {"build", "docs"} THEN 1 ELSE 0]

(* An export of deploy, a publish of lint, an export that no job owns. *)
MCSourceJob == [i \in {"dist", "image", "file"} |->
                  CASE i = "dist"  -> "deploy"
                    [] i = "image" -> "lint"
                    [] i = "file"  -> "none"]

(* Two jobs side by side, each with a slot; only build has a timeout. *)
PairJobs == {"build", "lint"}

PairDependsOn == [j \in PairJobs |-> << >>]

PairRetries == [j \in PairJobs |-> 0]

PairSourceJob == [i \in {} |-> "none"]
=============================================================================
