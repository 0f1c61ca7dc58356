--------------------------- MODULE MCAuthRecovery ---------------------------
(* Small instances of AuthRecovery for TLC. *)
EXTENDS AuthRecovery, TLC

CONSTANTS h1, h2, b1, b2, c1

MCOneBridge == b1 :> h1
MCTwoBridges == (b1 :> h1) @@ (b2 :> h2)
=============================================================================
