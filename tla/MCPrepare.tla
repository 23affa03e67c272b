----------------------------- MODULE MCPrepare ------------------------------
(***************************************************************************)
(* Every graph of three jobs without a matrix, with an unknown name or     *)
(* alias x among the dependencies: job a has two steps, c has a deferred   *)
(* condition and may import an artifact from a job it does not depend on.  *)
(* And two jobs, b depending on a or on one of its variants, with matrices *)
(* of the pipeline and of a: one or two values, values with a comma, a     *)
(* value twice, a value with a space, values of a that name the pipeline's *)
(* (one of them then repeats another), and matrices that are rejected.     *)
(***************************************************************************)
EXTENDS Prepare

Step(n, from) == [name |-> n, when |-> TRUE, exports |-> TRUE, arts |-> from, caches |-> {}]

Job(n, deps, arts, steps) ==
  [name |-> n, deps |-> deps, arts |-> arts, when |-> "static", exports |-> TRUE,
   publish |-> TRUE, steps |-> steps, matrix |-> << >>, values |-> {},
   caches |-> {}, text |-> {}]

a == Plain("a")
b == Plain("b")
c == Plain("c")
x == Plain("x")

Pipe(da, db, dc, stray) ==
  <<[Job(a, da, da \ {x}, <<Step(1, {}), Step(2, da \ {x})>>) EXCEPT !.exports = FALSE],
    [Job(b, db, {}, <<Step(1, db \ {x})>>) EXCEPT !.publish = FALSE],
    [Job(c, dc, (dc \ {x}) \cup stray, <<[Step(1, {}) EXCEPT !.when = FALSE]>>)
       EXCEPT !.when = "deferred"]>>

PlainPipes ==
  {Pipe(da, db, dc, {}) : da, db, dc \in SUBSET {a, b, c, x}}
    \cup {Pipe({}, {a}, {b}, stray) : stray \in {{}, {a}}}
    \cup {<<[Job(a, {}, {}, ss) EXCEPT !.exports = FALSE]>> :
            ss \in {<< >>, <<Step(1, {}), Step(1, {})>>}}
    \cup {<< >>}

(* Dimensions; the values of z begin alike up to a comma. *)
Dim(n, vs) == [name |-> n, values |-> vs]
os    == Dim("os", <<<<"l">>, <<"w">>>>)
one   == Dim("os", <<<<"l">>>>)
comma == Dim("os", <<<<"l", "m">>, <<"l", "n">>>>)
arch  == Dim("arch", <<<<"p">>, <<"q">>>>)
p86   == Dim("arch", <<<<"p">>>>)

twice  == Dim("os", <<<<"l">>, <<"l">>>>)
spaced == Dim("os", <<<<"l">>, <<"w 10">>>>)
native == Dim("arch", <<<<"${matrix.os}">>, <<"q">>>>)
clash  == Dim("arch", <<<<"${matrix.os}">>, <<"w">>>>)

MCNameParts == {"l", "m", "n", "p", "q", "w"}

aOnP == [base |-> "a", suffix |-> {<<"arch", <<"p">>>>}]

(* b takes artifacts from what it depends on; both use a cache of one name. *)
MatrixPipe(ma, db, from) ==
  LET step == [Step(1, {}) EXCEPT !.when = FALSE, !.caches = {<<"go">>}]
  IN  <<[Job(a, {}, {}, <<step>>) EXCEPT !.when = "deferred", !.matrix = ma,
                                         !.caches = {<<"mod">>}, !.text = {"os", "arch"}],
        [Job(b, db, from, <<[step EXCEPT !.arts = from]>>) EXCEPT !.when = "deferred", !.text = {"os"}]>>

(* A job whose written name is the name of one of a's variants. *)
NamedLikeVariant == [MatrixPipe(<<<<arch>>>>, {}, {}) EXCEPT ![2].name = aOnP]

Matrices    == {<< >>, <<<<os>>>>, <<<<one>>>>, <<<<comma>>>>}
JobMatrices == {<< >>, <<<<arch>>>>, <<<<p86>>>>}
OddMatrices == {<<<<twice>>>>, <<<<spaced>>>>}
OddJobMatrices == {<<<<native>>>>, <<<<clash>>>>, <<<<[twice EXCEPT !.name = "arch"]>>>>}
Rejected    == {<< >>, <<os, os>>, <<Dim("os", << >>)>>, <<Dim("o s", <<<<"l">>>>)>>,
                <<Dim("os", <<<<"1">>, <<"2">>, <<"3">>>>), arch>>}

Input(m, js) == [matrix |-> m, jobs |-> js]

MCInputs ==
  {Input(<< >>, js) : js \in PlainPipes \cup {NamedLikeVariant}}
    \cup {Input(m, MatrixPipe(ma, db, from)) :
            m \in Matrices, ma \in JobMatrices, db \in {{a}, {aOnP}, {a, x}}, from \in {{}, {a}, {aOnP}}}
    \cup {Input(m, MatrixPipe(ma, {a}, {})) :
            m \in Matrices \cup OddMatrices, ma \in JobMatrices \cup OddJobMatrices}
    \cup {Input(<<m>>, MatrixPipe(<< >>, {a}, {})) : m \in Rejected \cup {<<os, p86>>}}
    \cup {Input(m, MatrixPipe(<<<<os>>>>, {a}, {})) : m \in Matrices}

MCAliasMaps ==
  {<< >>} \cup {[n \in {x} |-> t] : t \in {{}, {a}, {a, b}}}
    \cup {[n \in {a} |-> t] : t \in {{a}, {b}}}

MCTargets ==
  {NoTarget} \cup [job : {a, b, c, Plain("ghost")}, step : {0}]
    \cup [job : {a}, step : {1, 2, 3}] \cup [job : {Plain("")}, step : {1}]
    \cup [job : {[base |-> "a", suffix |-> {<<"arch", <<"p">>>>, <<"os", <<"l">>>>}],
                 [base |-> "b", suffix |-> {<<"os", <<"l">>>>}]}, step : {0}]
=============================================================================
