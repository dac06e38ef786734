---------------------------- MODULE MCForeground ----------------------------
(* TLC instance of the commands that watch from the foreground.            *)
EXTENDS Foreground
=============================================================================
