--------------------------- MODULE MCSessionStore ---------------------------
(* Two clients of one user and one of another.                             *)
EXTENDS SessionStore, TLC

CONSTANTS c1, c2, c3, u1, u2

MCUserOf == (c1 :> u1) @@ (c2 :> u1) @@ (c3 :> u2)
=============================================================================
