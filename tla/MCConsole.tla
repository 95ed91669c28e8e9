------------------------------ MODULE MCConsole ------------------------------
(* Model-checking instance of Console: concurrent requests and commits.      *)
EXTENDS Console
=============================================================================
