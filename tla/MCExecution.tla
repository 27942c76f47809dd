---------------------------- MODULE MCExecution -----------------------------
(***************************************************************************)
(* Small instances of Execution for TLC.                                   *)
(***************************************************************************)
EXTENDS Execution, TLC

CONSTANTS a1, a2

MCRuns == {a1, a2}
=============================================================================
