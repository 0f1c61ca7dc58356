---------------------------- MODULE MCGrantReplay ----------------------------
(* Small instances of GrantReplay for TLC. *)
EXTENDS GrantReplay, TLC

CONSTANTS t1, t2, r1, r2, r3

MCToken == {t1, t2}
MCRequest == {r1, r2, r3}
MCNotBefore == t1 :> 0 @@ t2 :> 2
MCExpiresAt == t1 :> 2 @@ t2 :> 4

Symmetry == Permutations(MCRequest)
=============================================================================
