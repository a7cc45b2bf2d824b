-------------------------- MODULE LifecycleClaims --------------------------
(* What main.go says of the end of the process and the code does not do. *)
EXTENDS Lifecycle

\* main.go:233 "Create context with cancellation for graceful shutdown": when the
\* context is cancelled the whole process ends, its servers included ("All
\* servers shut down gracefully", main.go:267).
CancelShutsDown == cancelled ~> main = "exited"
=============================================================================
