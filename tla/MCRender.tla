----------------------------- MODULE MCRender -----------------------------
(* Render for TLC: screens of four cells and of six.                       *)
EXTENDS Render
Alike == Permutations(Terms)
Modes == {<<2, 1>>, <<1, 2>>, <<3, 1>>}
=============================================================================
