-------------------------- MODULE MCPipelineSetup --------------------------
(***************************************************************************)
(* Instances of PipelineSetup for TLC.                                     *)
(***************************************************************************)
EXTENDS PipelineSetup, TLC

Parameters(es, en, ds, dn) ==
  (<<"entry", "size">> :> es @@ <<"entry", "num">> :> en @@
   <<"data",  "size">> :> ds @@ <<"data",  "num">> :> dn)

(* Fewer and more parts of each kind, and of a second size.                *)
MixedWants == {Parameters(1, 1, 1, 1), Parameters(1, 2, 1, 0),
               Parameters(2, 1, 1, 2), Parameters(2, 2, 2, 1)}

(* Every pair of numbers of parts, one size.                               *)
OneSizeWants == {Parameters(1, en, 1, dn) : en, dn \in 0..2}

AllWants == MixedWants \cup OneSizeWants

SomeClient == Permutations(Clients)
=============================================================================
