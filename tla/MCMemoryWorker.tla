----------------------------- MODULE MCMemoryWorker -----------------------------
(***************************************************************************)
(* Instances of MemoryWorker for TLC: a plain skill and a workflow.        *)
(***************************************************************************)
EXTENDS MemoryWorker

CONSTANTS plain, flow
MCSkills    == {plain, flow}
MCWorkflows == {flow}

=================================================================================
