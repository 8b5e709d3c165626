---------------------------- MODULE MCSupervisor ----------------------------
(* Supervisor for TLC: every restart mode, a crash-loop limit of two.      *)
EXTENDS Supervisor
MCModes == {"always", "on-failure", "no"}
=============================================================================
