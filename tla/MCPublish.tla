------------------------------ MODULE MCPublish -----------------------------
(* Instance of Publish for TLC: all pairs of publishes of two images and   *)
(* two platforms, single ones without a definition, and lists of three.    *)
EXTENDS Publish

Pub(j, image, platform, push, docker, def) ==
    [job |-> j, image |-> image, platform |-> platform, push |-> push,
     docker |-> docker, def |-> def]

Singles(j) == {Pub(j, i, p, a, d, TRUE) :
                  i \in {"A", "B"}, p \in {"x", "y"}, a \in {"no", "push"}, d \in BOOLEAN}

MCInputs ==
    {<<x, y>> : x \in {s \in Singles(1) : s.image = "A" /\ s.platform = "x"}, y \in Singles(2)}
    \cup {<<Pub(1, "A", "x", a, d, FALSE)>> : a \in {"no", "push"}, d \in BOOLEAN}
    \cup {<<Pub(1, "A", "x", "push", FALSE, TRUE), Pub(2, "B", "x", a, TRUE, TRUE),
            Pub(3, "A", "y", b, FALSE, d)>> :
            a \in {"no", "push"}, b \in {"push", "insecure"}, d \in BOOLEAN}
=============================================================================
