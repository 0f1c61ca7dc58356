-------------------------- MODULE MCAgentLifecycle --------------------------
(* A small instance of AgentLifecycle for TLC. *)
EXTENDS AgentLifecycle

CONSTANTS u1, x1, x2, h1, h2

MCSubject == {u1}
MCSession == {x1, x2}
MCHandler == {h1, h2}
MCMaxSessions == [s \in MCSubject |-> 1]
=============================================================================
