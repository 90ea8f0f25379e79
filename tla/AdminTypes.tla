----------------------------- MODULE AdminTypes -----------------------------
(***************************************************************************)
(* What the parts of the admin backend name alike.                         *)
(***************************************************************************)
CONSTANTS
    FsIDs,  \* numeric node ids, as the console lists them
    Users,  \* user names
    None    \* "no entry"
=============================================================================
