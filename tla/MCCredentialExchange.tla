------------------------ MODULE MCCredentialExchange ------------------------
(* A small instance of CredentialExchange for TLC. *)
EXTENDS CredentialExchange

CONSTANTS k1, k2, s1, s2, x1, r1, h1, h2

MCKey == {k1, k2}
MCSubject == {s1, s2}
MCTx == {x1}
MCRemote == {r1}
MCHandler == {h1, h2}
=============================================================================
