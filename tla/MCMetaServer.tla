---------------------------- MODULE MCMetaServer ----------------------------
(***************************************************************************)
(* Instances of MetaServer for TLC.  The .cfg files pick the sets; the     *)
(* functions over them are defined here.                                   *)
(***************************************************************************)
EXTENDS MetaServer, TLC

CONSTANTS u1, u2, c1, c2, m1, m2, m3, f1, f2, s1, s2, p1

OneSessionEach == (c1 :> u1) @@ (c2 :> u2)
TwoSessionsOfOne == (c1 :> u1) @@ (c2 :> u1)
OneSession == c1 :> u1
OneMachine == m1 :> f1
TwoMachines == (m1 :> f1) @@ (m2 :> f2)
\* A third process is started with the -id of the first.
Impostor == TwoMachines @@ (m3 :> f1)

\* In shares the two users are interchangeable, each with their session.
Swaps == {f \in Permutations({u1, u2, c1, c2}) :
             \A c \in {c1, c2} : f[c] \in {c1, c2} /\ f[OneSessionEach[c]] = OneSessionEach[f[c]]}
=============================================================================
