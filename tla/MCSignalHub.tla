----------------------------- MODULE MCSignalHub -----------------------------
(* A small instance of SignalHub for TLC. *)
EXTENDS SignalHub

MCAgents == {1, 2}
MCViewers == {3, 4}
=============================================================================
