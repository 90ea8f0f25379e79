----------------------------- MODULE MetaStore -----------------------------
(***************************************************************************)
(* The durable record of the metaserver: storage.MetaStore, as the Mongo   *)
(* backend (internal/storage/mongo) implements it.  The whole store is one *)
(* record                                                                  *)
(*   nodes  : node id -> document or None     (collection "fileservers")   *)
(*   users  : user -> home node id or None    (collection "users")         *)
(*   shares : set of grants                   (collection "shares")        *)
(*   next   : the numeric-id counter          (collection "counters")      *)
(* and each method is an operator from stores to stores.  When a write can *)
(* fail, and what a failed write leaves behind, is decided by the module   *)
(* that calls it; the ...Partial operators list what a bulk write that     *)
(* was cut short may have applied.                                         *)
(***************************************************************************)
EXTENDS Integers

CONSTANTS
    Users,      \* user names
    Paths,      \* normalised share paths (storage.NormalizeSharePath)
    FsIds,      \* operator-assigned node identities (the -id flag)
    Machines,   \* fileserver processes, named by their advertised address
    MaxNum,     \* bound on the numeric ids the store may allocate
    None        \* "no entry"

\* Node identities of fileservers built before fs_id existed: "addr:"+address.
LegacyNodeID(addr) == [legacy |-> addr]
LegacyIds == {LegacyNodeID(addr) : addr \in Machines}
NodeIds == FsIds \cup LegacyIds

Numerics == 0 .. MaxNum - 1

Statuses == {"healthy", "stale"}

\* storage.ShareRecord: (grantee, owner, path) is the key.  An owner is never
\* granted its own directory.
Grants == {g \in [grantee : Users, owner : Users, path : Paths] :
              g.grantee # g.owner}
Involving(U) == {g \in Grants : g.grantee \in U \/ g.owner \in U}
OwnedBy(U) == {g \in Grants : g.owner \in U}

\* storage.FileServerRecord without its key and without the heartbeat time,
\* whose only use after a restart is whether it is recent (see Hydrate).
NodeDocs == [num : Numerics, addr : Machines, status : Statuses]

ASSUME MetaStoreAssumption ==
    /\ MaxNum \in Nat
    /\ FsIds \cap LegacyIds = {}
    /\ None \notin Users /\ None \notin NodeIds
    /\ None \notin Machines /\ None \notin Numerics /\ None \notin NodeDocs

Stores == [nodes  : [NodeIds -> NodeDocs \cup {None}],
           users  : [Users -> NodeIds \cup {None}],
           shares : SUBSET Grants,
           next   : 0 .. MaxNum]

EmptyStore == [nodes  |-> [n \in NodeIds |-> None],
               users  |-> [u \in Users |-> None],
               shares |-> {},
               next   |-> 0]
-----------------------------------------------------------------------------
\* A node already in the store keeps its numeric id; a new one draws the next
\* value of the counter.
Allocates(st, n) == st.nodes[n] = None
\* Mutant: the counter's 1-based value is used as the id.
UpsertOneBased(st, n, addr) ==
    IF Allocates(st, n)
    THEN [st EXCEPT !.nodes[n] = [num |-> st.next + 1, addr |-> addr, status |-> "healthy"],
                    !.next = @ + 1]
    ELSE [st EXCEPT !.nodes[n] = [num |-> @.num, addr |-> addr, status |-> "healthy"]]
UpsertFileServer(st, n, addr) ==
    IF Allocates(st, n)
    THEN [st EXCEPT !.nodes[n] = [num |-> st.next, addr |-> addr, status |-> "healthy"],
                    !.next = @ + 1]
    ELSE [st EXCEPT !.nodes[n] = [num |-> @.num, addr |-> addr, status |-> "healthy"]]

RemoveFileServer(st, n) == [st EXCEPT !.nodes[n] = None]

\* RenameFileServer is three separate writes, in this order.
RenameMoveUsers(st, old, new) ==
    [st EXCEPT !.users = [u \in Users |-> IF @[u] = old THEN new ELSE @[u]]]
RenameRemoveOld(st, old) == [st EXCEPT !.nodes[old] = None]
RenameInsertNew(st, doc, new) ==
    [st EXCEPT !.nodes[new] = IF @ = None THEN doc ELSE @]

\* Both update a document by its key and touch nothing when it is absent.
SetStatus(st, n, status) ==
    IF st.nodes[n] = None THEN st ELSE [st EXCEPT !.nodes[n].status = status]
\* Mutants: an upsert instead of an update; the status left as it was.
RecordHeartbeatUpserts(st, n) ==
    IF st.nodes[n] = None /\ st.next < MaxNum
    THEN [st EXCEPT !.nodes[n] = [num |-> st.next, addr |-> CHOOSE a \in Machines : TRUE,
                                  status |-> "healthy"],
                    !.next = @ + 1]
    ELSE SetStatus(st, n, "healthy")
RecordHeartbeatTimeOnly(st, n) == st
RecordHeartbeat(st, n) == SetStatus(st, n, "healthy")
SetFileServerStatus(st, n, status) == SetStatus(st, n, status)

AssignUsers(st, n, U) ==
    [st EXCEPT !.users = [u \in Users |-> IF u \in U THEN n ELSE @[u]]]
AssignUser(st, n, u) == AssignUsers(st, n, {u})
RemoveUsers(st, U) ==
    [st EXCEPT !.users = [u \in Users |-> IF u \in U THEN None ELSE @[u]]]

AddShares(st, S) == [st EXCEPT !.shares = @ \cup S]
AddShare(st, g) == AddShares(st, {g})
RemoveShare(st, g) == [st EXCEPT !.shares = @ \ {g}]
RemoveSharesInvolving(st, U) == [st EXCEPT !.shares = @ \ Involving(U)]
RemoveSharesByOwner(st, U) == [st EXCEPT !.shares = @ \ OwnedBy(U)]

\* What a failed call may leave: an unordered bulk write, an update-many or a
\* delete-many stops after any part of its documents, and an insert may have
\* drawn a sequence value it never used.
UpsertFileServerPartial(st, n, addr) ==
    {st, UpsertFileServer(st, n, addr)}
      \cup (IF Allocates(st, n) THEN {[st EXCEPT !.next = @ + 1]} ELSE {})
RenameMoveUsersPartial(st, old, new) ==
    {[st EXCEPT !.users = [u \in Users |-> IF u \in U /\ @[u] = old THEN new ELSE @[u]]] :
        U \in SUBSET Users}
AssignUsersPartial(st, n, U) == {AssignUsers(st, n, V) : V \in SUBSET U}
RemoveUsersPartial(st, U) == {RemoveUsers(st, V) : V \in SUBSET U}
AddSharesPartial(st, S) == {AddShares(st, T) : T \in SUBSET S}
DropSharesPartial(st, S) == {[st EXCEPT !.shares = @ \ T] : T \in SUBSET S}
=============================================================================
