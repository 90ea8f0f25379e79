----------------------------- MODULE AlertBoard -----------------------------
(***************************************************************************)
(* What the alert engine of the admin backend promises about conditions,   *)
(* without the alerts, pointers and files it keeps them with: a board that *)
(* shows for every condition of a node or user the severity at which it is *)
(* active, if it is.  A condition changes when its own node or user is     *)
(* checked, when an operator resolves it, or when the process restarts,    *)
(* and by nothing else; a node that does not answer says nothing about its *)
(* disk, temperature or errors.                                            *)
(***************************************************************************)
EXTENDS Integers

CONSTANTS FsIDs, Users, None

VARIABLES
    board,  \* the severity at which each condition is active, or None
    boots   \* how often the process has been restarted

NodeKinds == {"offline", "storage", "temp", "error"}
Condition(kind, of) == [kind |-> kind, of |-> of]
Conditions == [kind : NodeKinds, of : FsIDs] \cup [kind : {"quota"}, of : Users]
Severities == {"warning", "critical"}
Shown == Severities \cup {None}

Init == board = [k \in Conditions |-> None] /\ boots = 0

\* Nothing but the given conditions may be different afterwards.
Only(K) ==
    /\ board' \in [Conditions -> Shown]
    /\ \A k \in Conditions \ K : board'[k] = board[k]
    /\ UNCHANGED boots

FoundOffline(n) ==
    /\ Only({Condition("offline", n)})
    /\ board'[Condition("offline", n)] = "critical"
FoundOnline(n) ==
    /\ Only({Condition(kind, n) : kind \in NodeKinds})
    /\ board'[Condition("offline", n)] = None
CheckUsers(U) ==
    /\ Only({Condition("quota", u) : u \in U})
    /\ \A u \in U : board'[Condition("quota", u)] # "critical"
Resolve(k) == Only({k}) /\ board'[k] = None
ResolveAll == Only(Conditions) /\ board' = [k \in Conditions |-> None]
\* A restart shows what was stored, which may be more or less.
Restart == boots' = boots + 1 /\ board' \in [Conditions -> Shown]

Next == \/ \E n \in FsIDs : FoundOffline(n) \/ FoundOnline(n)
        \/ \E U \in SUBSET Users : CheckUsers(U)
        \/ \E k \in Conditions : Resolve(k)
        \/ ResolveAll \/ Restart

Spec == Init /\ [][Next]_<<board, boots>>
=============================================================================
