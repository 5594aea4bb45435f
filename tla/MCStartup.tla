------------------------------ MODULE MCStartup ------------------------------
(***************************************************************************)
(* Instances of Startup for TLC: schema lists in two orders, one that      *)
(* overlaps them, one of the logbook schema alone.                         *)
(***************************************************************************)
EXTENDS Startup, TLC

CONSTANTS s1, s2, i1, i2, i3

TwoInstances == {i1, i2}
ThreeInstances == {i1, i2, i3}
Swap == Permutations(ThreeInstances)

SomeLists == {<<s1>>, <<s1, s2>>, <<s2, s1>>, <<Logbook, s1>>, <<Logbook>>}

(* hashtext of the joined lists.                                           *)
Hash == (<<s1>> :> 1) @@ (<<s1, s2>> :> 2) @@ (<<s2, s1>> :> 3)
=============================================================================
