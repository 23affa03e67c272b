----------------------------- MODULE MCIncludes -----------------------------
(***************************************************************************)
(* A root file ci and three files a, b and c: diamonds over c with every   *)
(* combination of aliases, arguments and conflict strategies, files that   *)
(* include each other or themselves, a missing file and unusable ones.     *)
(***************************************************************************)
EXTENDS Includes

Job(n, ds, t)         == [type |-> "job", name |-> n, deps |-> ds, text |-> t]
Include(f, a, s, arg) == [type |-> "include", file |-> f, alias |-> a, skip |-> s, arg |-> arg]
File(n, k, p, ns)     == [name |-> n, kind |-> k, param |-> p, nodes |-> ns]

Tops   == {Include("a", "", FALSE, NoArg), Include("a", "x", TRUE, "v1"),
           Include("b", "", TRUE, NoArg)}
CiFile == {File("ci", "pipeline", "none", ns) :
             ns \in {<<t1, t2, Job("main", {"a"}, "plain")>> : t1, t2 \in Tops}
                      \cup {<<Include(f, "", FALSE, NoArg)>> : f \in {"b", "dead"}}}

AFile  == {File("a", "fragment", p, ns \o <<Job("j", {"c"}, Placeholder)>>) :
             p \in {"none", "default"},
             ns \in {<<Include("c", al, TRUE, arg)>> : al \in {"", "y"},
                                                       arg \in {NoArg, "v1", Placeholder}}
                      \cup {<<Include(f, "", TRUE, NoArg)>> : f \in {"a", "b", "ci"}}
                      \cup {<< >>}}

BFile  == {File("b", "pipeline", "none", <<Job("k", {}, "plain")>> \o ns) :
             ns \in {<<Include("c", al, s, arg)>> : al \in {"", "y"}, s \in BOOLEAN,
                                                    arg \in {NoArg, "v2"}}
                      \cup {<<Include("a", "", TRUE, NoArg)>>, << >>}}

CFile  == {File("c", "fragment", p, <<Job("lint", {}, Placeholder), Job("k", {"lint"}, "plain")>>) :
             p \in {"required", "default"}}
            \cup {File("c", k, "none", << >>) : k \in {"fragment", "empty", "ambiguous"}}
            \cup {File("c", "pipeline", "none", <<Job("lint", {}, "plain")>>)}

MCDocuments == [ci : CiFile, a : AFile, b : BFile, c : CFile]
=============================================================================
