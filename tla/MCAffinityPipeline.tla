------------------------- MODULE MCAffinityPipeline -------------------------
(***************************************************************************)
(* Instances of AffinityPipeline for TLC.                                  *)
(***************************************************************************)
EXTENDS AffinityPipeline, TLC

CONSTANTS c1, c2

Parameters(en, ds, dn) ==
  (<<"entry", "size">> :> 1  @@ <<"entry", "num">> :> en @@
   <<"data",  "size">> :> ds @@ <<"data",  "num">> :> dn)

(* More parts of the same size, and another size.                          *)
FewOrMoreOrOther == {Parameters(1, 1, 1), Parameters(1, 1, 2), Parameters(1, 2, 1)}

OnePart == {Parameters(0, 1, 1)}

(* Two shards; each category on one, entry objects here and there.         *)
TwoShards(a) ==
  CASE a[1] = "category" -> a[2] % 2
    [] a[1] = "entry"    -> 1
    [] OTHER -> IF a[2].name[1] = "data" THEN a[2].name[2] % 2 ELSE 1

TwoNodes == [c \in Clients |-> c]
OneNode  == [c \in Clients |-> c1]

SomeClient == Permutations(Clients)
=============================================================================
