--------------------------- MODULE MCAgentRegistry ---------------------------
(* Small instances of AgentRegistry for TLC. *)
EXTENDS AgentRegistry, TLC

CONSTANTS u1, x1, x2

MCSubject == {u1}
MCSession == {x1, x2}
MCOneSession == {x1}
MCMaxSessions == [s \in MCSubject |-> 1]

SessionSymmetry == Permutations(MCSession)
=============================================================================
