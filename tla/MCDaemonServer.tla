--------------------------- MODULE MCDaemonServer ---------------------------
(* Local programs and other daemons that share few descriptor numbers. *)
EXTENDS DaemonServer, TLC

Symmetry == Permutations(Locals) \cup Permutations(Remotes)
=============================================================================
