------------------------------- MODULE MCDaemon -------------------------------
(* Small instances of Daemon for TLC. *)
EXTENDS Daemon

MCRecipes == <<"a", "b">>
\* What is found depends on the world alone.
MCPasses == Content \X {0}
=============================================================================
