-------------------------- MODULE MCWorkflowRuntime --------------------------
(* A small instance: all instances are of one definition, of any policy. *)
EXTENDS WorkflowRuntime

CONSTANT definition

MCDefinitionOf == [i \in Instances |-> definition]
=============================================================================
