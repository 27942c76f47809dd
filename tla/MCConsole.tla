----------------------------- MODULE MCConsole ------------------------------
(***************************************************************************)
(* Console with two projects.                                              *)
(***************************************************************************)
EXTENDS Console

CONSTANTS p1, p2

MCProjects == {p1, p2}
=============================================================================
