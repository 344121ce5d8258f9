---------------------------- MODULE MCLeaderLink ----------------------------
(* One event loop, one reconnect loop and the threads of slow commands. *)
EXTENDS LeaderLink, TLC
=============================================================================
