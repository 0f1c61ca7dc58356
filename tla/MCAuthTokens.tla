---------------------------- MODULE MCAuthTokens ----------------------------
(* Small instances of AuthTokens for TLC. *)
EXTENDS AuthTokens, TLC

CONSTANTS k1, s1, s2, f1, f2, f3, w1, r1, r2

MCKey == {k1}
MCSubject == {s1, s2}
MCTx == {}
MCRefreshToken == {f1, f2, f3}
MCLoginKey == {w1}
MCRequest == {r1, r2}

Symmetry == Permutations(MCSubject) \cup Permutations(MCRefreshToken)
              \cup Permutations(MCRequest)
=============================================================================
