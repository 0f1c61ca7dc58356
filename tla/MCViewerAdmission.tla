------------------------- MODULE MCViewerAdmission -------------------------
(* A small instance of ViewerAdmission for TLC. *)
EXTENDS ViewerAdmission, TLC

CONSTANTS u1, x1, va, vb, ag, r1, r2

MCSubject == {u1}
MCSession == {x1}
MCMaxSessions == [s \in MCSubject |-> 1]
MCToken == {va, vb, ag}
MCViewerToken == {va, vb}
MCSubjectOf == [t \in MCToken |-> u1]
MCSessionOf == [t \in MCToken |-> x1]
MCNotBefore == va :> 0 @@ vb :> 1 @@ ag :> 0
MCExpiresAt == va :> 1 @@ vb :> 4 @@ ag :> 2
MCRequest == {r1, r2}

Symmetry == Permutations(MCRequest)
=============================================================================
