------------------------------- MODULE MCStore -------------------------------
(* Keys of three bits, two to a page.                                       *)
EXTENDS Store, TLC
CONSTANTS v1, v2, s1, s2
MCSymmetry == Permutations(Slots)
MCInputs == {<<<<1, v1>>, <<1, v2>>, <<6, v1>>>>, <<<<0, None>>, <<5, None>>>>}
MCFirst == <<<<0, v1>>, <<1, v2>>, <<5, v1>>>>
MCAnswers == {None, v2}
MCRanges == {<<1, 5>>}
MCFrontiers == {{5}}
=============================================================================
