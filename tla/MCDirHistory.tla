---------------------------- MODULE MCDirHistory ----------------------------
(* Two terminals, a default directory and one or two others. *)
EXTENDS DirHistory, TLC

\* The setting is deleted by hand
MCEdits == {-1}

Symmetry == Permutations(TTYs)
=============================================================================
