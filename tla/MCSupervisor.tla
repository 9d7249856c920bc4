---------------------------- MODULE MCSupervisor ----------------------------
(* An instance of RouteSupervisor for TLC. *)
EXTENDS RouteSupervisor

\* The runners that read a source: Ok(true) only in answer to a shutdown signal.
RunnerResults == Results \ {"again"}
=============================================================================
