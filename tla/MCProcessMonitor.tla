-------------------------- MODULE MCProcessMonitor --------------------------
(* Small instances of ProcessMonitor for TLC. *)
EXTENDS ProcessMonitor

CONSTANTS a, b
=============================================================================
