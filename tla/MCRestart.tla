----------------------------- MODULE MCRestart -----------------------------
(***************************************************************************)
(* The nets of MCWorkflow for workflows that are saved and loaded.         *)
(***************************************************************************)
EXTENDS Restart, MCWorkflow
=============================================================================
