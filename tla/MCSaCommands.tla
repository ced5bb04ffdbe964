----------------------------- MODULE MCSaCommands -----------------------------
(* Instances of FaceAuthDriver: the brightness manager and, to exercise    *)
(* the registry, a second processor for one of its commands.               *)
EXTENDS FaceAuthDriver, TLC

CONSTANTS t1, t2, x1, x2, p1, p2

MCCommandsOf == (p1 :> {"BEGIN", "END"}) @@ (p2 :> {"BEGIN"})
OneProcessor == (p1 :> {"BEGIN", "END"})

MCLists == {<<"BEGIN">>, <<"BEGIN", "END">>, <<"BEGIN", "OTHER">>}
ShortLists == {<<"BEGIN">>, <<"END">>}

Symmetric == Permutations({t1, t2}) \cup Permutations({x1, x2})
===============================================================================
