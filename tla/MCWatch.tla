------------------------------ MODULE MCWatch ------------------------------
(***************************************************************************)
(* An instance of ReleaseWatch for TLC: a tagged child and a human's own,  *)
(* two releases, and two tasks, one more than the dedupe lets live.        *)
(***************************************************************************)
EXTENDS ReleaseWatch, TLC

CONSTANTS c1, c2, w1, w2, h1, h2

Symmetric == Permutations(Watch)
=============================================================================
