--------------------------- MODULE MCAppRegistry ---------------------------
(* One key that users change by hand. *)
EXTENDS AppRegistry

CONSTANT h

MCHandKeys == {<<h, "dev">>}
=============================================================================
