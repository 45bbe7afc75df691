-------------------------- MODULE MCDataverseStage --------------------------
(* Two datasets, of which d is published with either file or both, e with    *)
(* none; runs may overlap.                                                   *)
EXTENDS DataverseStage, TLC

MCVersions == [d |-> {<<"f">>, <<"f", "g">>, <<"g">>}, e |-> {<<>>}]
MCListings == {<<"d">>, <<"e", "d">>}
RunSymmetry == Permutations(Runs)
=============================================================================
