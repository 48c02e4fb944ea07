---------------------------- MODULE MCToolPolicy ----------------------------
(* A small instance of ToolPolicy.                                          *)
EXTENDS ToolPolicy
=============================================================================
