----------------------------- MODULE MCSelfUpdate -----------------------------
(* A small instance of SelfUpdate for TLC. *)
EXTENDS SelfUpdate

CONSTANTS p1, p2

MCProcess == {p1, p2}

V(parts) == Written(parts, Missing, Missing)

\* 1.2, then the candidate 1.10-rc, then 1.10.0.
MCVersionOf ==
    [c \in Content |-> CASE c = 1 -> V(<<1, 2>>)
                         [] c = 2 -> Written(<<1, 10>>, 1, Missing)
                         [] c = 3 -> V(<<1, 10, 0>>)
                         [] OTHER -> V(<<99>>)]

\* A "dev" build, a candidate built with the version of its predecessor, and 1.10.
MCBuiltVersion ==
    [c \in Content |-> CASE c = 1 -> V(<<Malformed>>)
                         [] c = 2 -> V(<<1, 2>>)
                         [] OTHER -> V(<<1, 10>>)]
=============================================================================
