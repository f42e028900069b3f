----------------------------- MODULE MCWorkflow -----------------------------
(* A small instance of Workflow for TLC. *)
EXTENDS Workflow
=============================================================================
