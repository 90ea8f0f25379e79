--------------------------- MODULE MCClientCache ---------------------------
(***************************************************************************)
(* An instance of ClientCache for TLC: u1 owns the directory top and the   *)
(* directory sub below it; u2, with whom sub is shared, has selected sub.  *)
(***************************************************************************)
EXTENDS ClientCache, TLC

CONSTANTS c1, c2, u1, u2, top, sub

MCUserOf == c1 :> u1 @@ c2 :> u2
MCParentOf == top :> None @@ sub :> top
MCNamesIn == top :> {} @@ sub :> {"f"}
MCRootOf == c1 :> top @@ c2 :> sub
=============================================================================
