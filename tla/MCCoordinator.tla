---------------------------- MODULE MCCoordinator ----------------------------
(***************************************************************************)
(* Instances of Coordinator for TLC, and the statements of the             *)
(* repository's comments, tests and README that runs refute.               *)
(***************************************************************************)
EXTENDS Coordinator

Symmetry == Permutations(Callers) \cup Permutations(ToolCalls)

(* runner.go:100 says of a ConfirmRequest "The consumer must send a        *)
(* response on RespCh".  With two risky tool calls in one assistant        *)
(* message handleAgentConfirm overwrites the first response channel: the   *)
(* tool call waits although no request of it is left anywhere.             *)
ParallelRequestHeld == RequestHeld

(* runner.go:237 says of the channel Run returns that it "is closed when   *)
(* the run finishes (complete, error, or context cancellation)".  A runner *)
(* that waits for the transcript of an engine in a turn never finishes.    *)
CancelEndsRun == \A a \in Agents : cancelled[a] ~> runner[a] = "closed"

=============================================================================
