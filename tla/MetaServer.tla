----------------------------- MODULE MetaServer -----------------------------
(***************************************************************************)
(* The metaserver (internal/metaserver) with everything that calls it: the *)
(* fileservers' sync loop (internal/fileserver/msclient.go), clients that  *)
(* log in and connect, fileservers that share and unshare a directory, the *)
(* administrator who removes a node, the heartbeat monitor, and the store. *)
(*                                                                         *)
(* A caller is a sequential thread: pc[a] is where its request has got to  *)
(* and req[a] holds the handler's local variables.  Every critical section *)
(* of ms.mu is one step, and every call of the store is one step of its    *)
(* own that may succeed, or fail with any part of it applied.              *)
(* writeOrderMu is held across all the steps of a structural request.      *)
(* A crash loses memory and every request in flight; the restart hydrates  *)
(* memory from the store.                                                  *)
(*                                                                         *)
(* Time is abstracted to one bit per node: `fresh' says that the last      *)
(* heartbeat is younger than heartbeatTimeout.                             *)
(***************************************************************************)
EXTENDS MetaStore, FiniteSets

CONSTANTS
    Clients,        \* client sessions
    UserOf,         \* the user each session logs in as
    IdOf,           \* the -id each machine was started with
    LegacyMachines, \* machines that start out on a build without fs_id
    Sharers,        \* request handlers of fileservers that publish or revoke grants
    Admin,          \* the administrator's console
    AllowUserPurge, \* the -allow_user_purge flag
    MountFailures,  \* may a fileserver start with its data directory unmounted?
    Free,           \* writeOrderMu is not held
    MaxFaults,      \* bound: store writes that fail
    MaxCrashes,     \* bound: metaserver crashes
    MaxDeregs,      \* bound: deregistrations
    MaxTimeouts     \* bound: heartbeats that time out

ASSUME MetaServerAssumption ==
    /\ IsFiniteSet(Users)
    /\ UserOf \in [Clients -> Users]
    /\ IdOf \in [Machines -> FsIds]
    /\ LegacyMachines \subseteq Machines
    /\ AllowUserPurge \in BOOLEAN /\ MountFailures \in BOOLEAN
    /\ MaxFaults \in Nat /\ MaxCrashes \in Nat
    /\ MaxDeregs \in Nat /\ MaxTimeouts \in Nat

Callers == Clients \cup Machines \cup Sharers \cup {Admin}

ASSUME CallersAssumption ==
    /\ Free \notin Callers
    /\ Clients \cap Machines = {} /\ Clients \cap Sharers = {}
    /\ Machines \cap Sharers = {} /\ Admin \notin Clients \cup Machines \cup Sharers

VARIABLES
    fileservers,    \* numeric id -> node or None
    users,          \* user -> numeric id or None
    shared,         \* the grants in the visibility index
    orphanedUsers,  \* user -> node id or None
    writeOrderMu,   \* its holder, or Free
    stalePending,   \* nodes the monitor has marked stale and not yet persisted
    store,          \* the MetaStore
    pc, req,        \* the callers' requests
    registered,     \* the sync loop's flag, per machine
    upgraded,       \* machines whose build sends fs_id
    disk,           \* fs id -> users with a directory on that node's disk
    faults, crashes, deregs, timeouts,
    released,       \* history: users an administrator or a purge has released
    revoked,        \* history: grants whose revocation was acknowledged last
    unsettled       \* history: users, grants and nodes of requests that failed

memory == <<fileservers, users, shared, orphanedUsers>>
machines == <<registered, upgraded, disk>>
counters == <<faults, crashes, deregs, timeouts>>
history == <<released, revoked, unsettled>>
vars == <<memory, writeOrderMu, stalePending, store, pc, req, machines,
          counters, history>>
-----------------------------------------------------------------------------
NodeInfos == [node : NodeIds, addr : Machines, fresh : BOOLEAN,
              status : Statuses, userCount : Nat]

\* No table entry is mistaken for "no entry", and users, grants and nodes, which
\* the history keeps in one set, are not mistaken for each other.
ASSUME NodeInfosAssumption == None \notin NodeInfos
ASSUME KindsAssumption ==
    Users \cap Grants = {} /\ Users \cap NodeIds = {} /\ NodeIds \cap Grants = {}

NoReq == [node |-> None, addr |-> None, num |-> None, users |-> {}, grants |-> {},
          purged |-> {}, oldDoc |-> None, prev |-> None]

\* domain.FileServerInfo judged by isHealthyLocked.
isHealthy(info) == info # None /\ info.status = "healthy" /\ info.fresh

\* The entries findFileServerByNodeIDLocked / ...ByAddressLocked may return.
ByNodeID(n) == {i \in Numerics : fileservers[i] # None /\ fileservers[i].node = n}
ByAddress(addr) == {i \in Numerics : fileservers[i] # None /\ fileservers[i].addr = addr}

UsersOn(i) == {u \in Users : users[u] = i}
OrphansOf(n) == {u \in Users : orphanedUsers[u] = n}

\* registrationConflictLocked, for the numeric id i the node holds (None: none).
Conflict(n, i, U) ==
    \E u \in U : \/ users[u] # None /\ users[u] # i
                 \/ orphanedUsers[u] # None /\ orphanedUsers[u] # n

\* countUsersForFileServerLocked, over the assignment `homes'.
countUsers(homes, i) == Cardinality({u \in Users : homes[u] = i})

\* getLeastLoadedHealthyFileServerLocked returns one of these: ties fall to
\* the order in which the map is ranged over.
LeastLoaded ==
    {i \in Numerics :
        /\ isHealthy(fileservers[i])
        /\ \A j \in Numerics : isHealthy(fileservers[j]) =>
              fileservers[i].userCount <= fileservers[j].userCount}

\* resolveNodeID, for the build the machine runs.
resolveNodeID(m) == IF m \in upgraded THEN IdOf[m] ELSE LegacyNodeID(m)
-----------------------------------------------------------------------------
\* Mutant: writeOrderMu is not taken.
LockNothing(a) == writeOrderMu' = a
Lock(a) == writeOrderMu = Free /\ writeOrderMu' = a
Goto(a, label) == pc' = [pc EXCEPT ![a] = label]
Local(a, r) == req' = [req EXCEPT ![a] = r]

\* The handler returns: the deferred Unlock runs.
Return(a, label) == Goto(a, label) /\ Local(a, NoReq) /\ writeOrderMu' = Free

\* A store call that succeeds, and one that fails leaving one of `outcomes'.
Applied(st) == store' = st /\ UNCHANGED counters
Failed(outcomes) ==
    /\ faults < MaxFaults
    /\ faults' = faults + 1
    /\ store' \in outcomes
    /\ UNCHANGED <<crashes, deregs, timeouts>>
-----------------------------------------------------------------------------
(* RegisterFileServer *)

\* RegisterWithMetaServer: the sync loop collects the users and grants this
\* node knows, then calls.  An unmounted data directory shows up as no users.
SendRegister(m) ==
    /\ pc[m] = "idle" /\ ~registered[m]
    /\ \E U \in {disk[IdOf[m]]} \cup (IF MountFailures THEN {{}} ELSE {}) :
       \E S \in SUBSET OwnedBy(U) :
          Local(m, [NoReq EXCEPT !.node = resolveNodeID(m), !.addr = m,
                                 !.users = U, !.grants = S])
    /\ Goto(m, "register")
    /\ UNCHANGED <<memory, writeOrderMu, stalePending, store, machines, counters, history>>

\* The entry a registration resolves to: its own, or a legacy entry at its
\* address that it adopts, or none.
Targets(r) ==
    IF ByNodeID(r.node) # {}
    THEN {[num |-> i, adopt |-> FALSE] : i \in ByNodeID(r.node)}
    ELSE IF r.node \in FsIds /\ ByAddress(r.addr) # {}
    THEN {IF fileservers[i].node \in LegacyIds
          THEN [num |-> i, adopt |-> TRUE]
          ELSE [num |-> None, adopt |-> FALSE] : i \in ByAddress(r.addr)}
    ELSE {[num |-> None, adopt |-> FALSE]}

\* Mutant: a second process may take over a live identity.
HeldNowhere(r, t) == FALSE

\* The identity is in use at another address by a node that is alive.
HeldElsewhere(r, t) ==
    /\ t.num # None /\ ~t.adopt
    /\ fileservers[t.num].addr # r.addr
    /\ isHealthy(fileservers[t.num])

Refused(r, t) == HeldElsewhere(r, t) \/ Conflict(r.node, t.num, r.users)

RejectRegister(m) ==
    /\ pc[m] = "register" /\ writeOrderMu = Free
    /\ \E t \in Targets(req[m]) : Refused(req[m], t)
    /\ Goto(m, "idle") /\ Local(m, NoReq)
    /\ UNCHANGED <<memory, writeOrderMu, stalePending, store, machines, counters, history>>

\* Users the node used to host and did not report.
Missing(r, i) == UsersOn(i) \ r.users
Purged(r, i) == IF AllowUserPurge THEN Missing(r, i) ELSE {}

\* The registration commits in memory as numeric id i.
Commit(m, i, label) ==
    LET r == req[m]
        purged == Purged(r, i)
        hosted == r.users \cup OrphansOf(r.node)
        homes == [u \in Users |-> IF u \in hosted THEN i
                                  ELSE IF u \in purged THEN None ELSE users[u]]
    IN  /\ users' = homes
        /\ orphanedUsers' = [u \in Users |-> IF orphanedUsers[u] = r.node
                                             THEN None ELSE orphanedUsers[u]]
        /\ shared' = (shared \ (Involving(purged) \cup OwnedBy(r.users))) \cup r.grants
        /\ fileservers' = [fileservers EXCEPT ![i] =
              [node |-> r.node, addr |-> r.addr, fresh |-> TRUE, status |-> "healthy",
               userCount |-> countUsers(homes, i)]]
        /\ Local(m, [r EXCEPT !.num = i, !.purged = purged])
        /\ Goto(m, label)
        /\ released' = released \cup purged
        /\ revoked' = revoked \ r.grants

\* A node that memory knows, or one that adopts a legacy entry.
RegisterKnown(m) ==
    /\ pc[m] = "register" /\ Lock(m)
    /\ \E t \in Targets(req[m]) :
          /\ t.num # None /\ ~Refused(req[m], t)
          /\ Commit(m, t.num, IF t.adopt THEN "rename" ELSE "upsert")
          /\ unsettled' = IF t.adopt THEN unsettled \cup {req[m].node, LegacyNodeID(m)}
                                     ELSE unsettled
    /\ UNCHANGED <<stalePending, store, machines, counters>>

\* A node seen for the first time: ms.mu is released for the allocation.
RegisterNew(m) ==
    /\ pc[m] = "register" /\ Lock(m)
    /\ \E t \in Targets(req[m]) : t.num = None /\ ~Refused(req[m], t)
    /\ Goto(m, "alloc")
    /\ UNCHANGED <<memory, stalePending, store, req, machines, counters, history>>

\* Everything a registration was about to write.
RegisterScope(r) == {r.node, LegacyNodeID(r.addr)} \cup r.users \cup OwnedBy(r.users)
                      \cup r.purged \cup Involving(r.purged)

\* A store error: no rollback, the sync loop will retry.
AbortRegister(m) ==
    /\ Return(m, "idle")
    /\ unsettled' = unsettled \cup RegisterScope(req[m])
    /\ UNCHANGED registered

FinishRegister(m) ==
    /\ Return(m, "idle")
    /\ registered' = [registered EXCEPT ![m] = TRUE]
    /\ unsettled' = unsettled \ RegisterScope(req[m])

\* Go on to the next deferred write, if there is one.
Proceed(m, label) ==
    IF label = "done"
    THEN FinishRegister(m)
    ELSE Goto(m, label) /\ UNCHANGED <<req, writeOrderMu, registered, unsettled>>

AfterPurge(r) == IF r.users # {} THEN "assign" ELSE "done"
AfterUpsert(r) == IF r.purged # {} THEN "purgeUsers" ELSE AfterPurge(r)
AfterClear(r) == IF r.grants # {} THEN "grant" ELSE "done"

RegisterWrite(m, here, applied, outcomes, label) ==
    /\ pc[m] = here
    /\ \/ Applied(applied) /\ Proceed(m, label)
       \/ Failed(outcomes) /\ AbortRegister(m)
    /\ UNCHANGED <<memory, stalePending, upgraded, disk, released, revoked>>

AllocateNode(m) ==
    LET r == req[m] IN
    /\ pc[m] = "alloc"
    /\ Allocates(store, r.node) => store.next < MaxNum
    /\ \/ /\ Applied(UpsertFileServer(store, r.node, m))
          /\ Local(m, [r EXCEPT !.num = store'.nodes[r.node].num])
          /\ Goto(m, "commit")
          /\ UNCHANGED <<writeOrderMu, registered, unsettled>>
       \/ Failed(UpsertFileServerPartial(store, r.node, m)) /\ AbortRegister(m)
    /\ UNCHANGED <<memory, stalePending, upgraded, disk, released, revoked>>

\* Back under ms.mu: the slot must still be free and the users unclaimed.
\* RecheckNeverFails shows that the refusals of this re-check are dead code.
RecheckPasses(r) ==
    /\ fileservers[r.num] = None
    /\ ~Conflict(r.node, r.num, r.users)

CommitNew(m) ==
    /\ pc[m] = "commit"
    /\ RecheckPasses(req[m])
    /\ Commit(m, req[m].num, "upsert")
    /\ UNCHANGED <<writeOrderMu, stalePending, store, machines, counters, unsettled>>

\* RenameFileServer: the lookup and the first of its three writes...
RenameUsers(m) ==
    LET r == req[m]  old == LegacyNodeID(m) IN
    /\ pc[m] = "rename"
    /\ \/ /\ store.nodes[old] = None          \* ErrNotFound is ignored
          /\ Goto(m, "upsert")
          /\ UNCHANGED <<store, req, writeOrderMu, registered, unsettled, counters>>
       \/ /\ store.nodes[old] # None
          /\ Applied(RenameMoveUsers(store, old, r.node))
          /\ Local(m, [r EXCEPT !.oldDoc = store.nodes[old]])
          /\ Goto(m, "renameRemove")
          /\ UNCHANGED <<writeOrderMu, registered, unsettled>>
       \/ /\ store.nodes[old] # None
          /\ Failed(RenameMoveUsersPartial(store, old, r.node))
          /\ AbortRegister(m)
    /\ UNCHANGED <<memory, stalePending, upgraded, disk, released, revoked>>

\* ...the second...
RenameRemove(m) ==
    LET st == RenameRemoveOld(store, LegacyNodeID(m)) IN
    RegisterWrite(m, "renameRemove", st, {store, st}, "renameInsert")

\* ...and the third.
RenameInsert(m) ==
    LET st == RenameInsertNew(store, req[m].oldDoc, req[m].node) IN
    RegisterWrite(m, "renameInsert", st, {store, st}, "upsert")

PersistNode(m) ==
    /\ pc[m] = "upsert"
    /\ Allocates(store, req[m].node) => store.next < MaxNum
    /\ RegisterWrite(m, "upsert", UpsertFileServer(store, req[m].node, m),
                     UpsertFileServerPartial(store, req[m].node, m),
                     AfterUpsert(req[m]))

PurgeUsers(m) ==
    RegisterWrite(m, "purgeUsers", RemoveUsers(store, req[m].purged),
                  RemoveUsersPartial(store, req[m].purged), "purgeShares")

PurgeShares(m) ==
    RegisterWrite(m, "purgeShares", RemoveSharesInvolving(store, req[m].purged),
                  DropSharesPartial(store, Involving(req[m].purged)),
                  AfterPurge(req[m]))

PersistUsers(m) ==
    RegisterWrite(m, "assign", AssignUsers(store, req[m].node, req[m].users),
                  AssignUsersPartial(store, req[m].node, req[m].users), "clear")

ClearShares(m) ==
    RegisterWrite(m, "clear", RemoveSharesByOwner(store, req[m].users),
                  DropSharesPartial(store, OwnedBy(req[m].users)),
                  AfterClear(req[m]))

PersistShares(m) ==
    RegisterWrite(m, "grant", AddShares(store, req[m].grants),
                  AddSharesPartial(store, req[m].grants), "done")
-----------------------------------------------------------------------------
(* Heartbeat, the heartbeat monitor, and the passage of time *)

Accepted(m, i) == i \in ByNodeID(resolveNodeID(m)) /\ fileservers[i].addr = m

\* Mutant: the heartbeat time is refreshed but a stale mark stays.
HeartbeatKeepsStatus(m) ==
    /\ pc[m] = "idle" /\ registered[m]
    /\ \E i \in Numerics :
          /\ Accepted(m, i)
          /\ fileservers' = [fileservers EXCEPT ![i].fresh = TRUE]
          /\ Local(m, [NoReq EXCEPT !.node = fileservers[i].node])
    /\ Goto(m, "beat")
    /\ UNCHANGED <<users, shared, orphanedUsers, writeOrderMu, stalePending, store,
                   machines, counters, history>>

Heartbeat(m) ==
    /\ pc[m] = "idle" /\ registered[m]
    /\ \E i \in Numerics :
          /\ Accepted(m, i)
          /\ fileservers' = [fileservers EXCEPT ![i].fresh = TRUE, ![i].status = "healthy"]
          /\ Local(m, [NoReq EXCEPT !.node = fileservers[i].node])
    /\ Goto(m, "beat")
    /\ UNCHANGED <<users, shared, orphanedUsers, writeOrderMu, stalePending, store,
                   machines, counters, history>>

\* Unknown, or known at another address: the sync loop must register again.
HeartbeatRejected(m) ==
    /\ pc[m] = "idle" /\ registered[m]
    /\ \A i \in Numerics : ~Accepted(m, i)
    /\ registered' = [registered EXCEPT ![m] = FALSE]
    /\ UNCHANGED <<memory, writeOrderMu, stalePending, store, pc, req, upgraded, disk,
                   counters, history>>

\* Best effort: the handler answers with success either way.
PersistHeartbeat(m) ==
    LET st == RecordHeartbeat(store, req[m].node) IN
    /\ pc[m] = "beat"
    /\ Applied(st) \/ Failed({store, st})
    /\ Goto(m, "idle") /\ Local(m, NoReq)
    /\ UNCHANGED <<memory, writeOrderMu, stalePending, machines, history>>

\* heartbeatTimeout elapses since a node's last heartbeat.
Expire(i) ==
    /\ fileservers[i] # None /\ fileservers[i].fresh
    /\ timeouts < MaxTimeouts
    /\ timeouts' = timeouts + 1
    /\ fileservers' = [fileservers EXCEPT ![i].fresh = FALSE]
    /\ UNCHANGED <<users, shared, orphanedUsers, writeOrderMu, stalePending, store,
                   pc, req, machines, faults, crashes, deregs, history>>

\* One tick of the monitor: markStaleFileServersLocked under ms.mu...
MarkStale ==
    LET silent == {i \in Numerics : fileservers[i] # None /\ ~isHealthy(fileservers[i])
                                      /\ fileservers[i].status # "stale"} IN
    /\ stalePending = {} /\ silent # {}
    /\ fileservers' = [i \in Numerics |->
                          IF i \in silent THEN [fileservers[i] EXCEPT !.status = "stale"]
                                          ELSE fileservers[i]]
    /\ stalePending' = {fileservers[i].node : i \in silent}
    /\ UNCHANGED <<users, shared, orphanedUsers, writeOrderMu, store, pc, req,
                   machines, counters, history>>

\* ...and the store writes after it, without any lock.
PersistStale(n) ==
    LET st == SetFileServerStatus(store, n, "stale") IN
    /\ n \in stalePending
    /\ Applied(st) \/ Failed({store, st})
    /\ stalePending' = stalePending \ {n}
    /\ UNCHANGED <<memory, writeOrderMu, pc, req, machines, history>>
-----------------------------------------------------------------------------
(* GetRoots, Navigate, and what the client then does *)

\* A user who has a home needs no write.
GetRootsKnown(c) ==
    /\ pc[c] = "idle"
    /\ users[UserOf[c]] # None
    /\ Goto(c, "in")
    /\ UNCHANGED <<memory, writeOrderMu, stalePending, store, req, machines, counters, history>>

\* A first login is placed on a least loaded healthy node.  An orphaned user,
\* and anyone while no node is healthy, is refused: nothing changes.
GetRootsPlace(c) ==
    LET u == UserOf[c] IN
    /\ pc[c] = "idle"
    /\ users[u] = None
    /\ Lock(c)
    /\ orphanedUsers[u] = None
    /\ \E i \in LeastLoaded :
          /\ users' = [users EXCEPT ![u] = i]
          /\ fileservers' = [fileservers EXCEPT ![i].userCount = @ + 1]
          /\ Local(c, [NoReq EXCEPT !.num = i, !.node = fileservers[i].node])
    /\ shared' = {g \in shared : g.grantee # u}
    /\ Goto(c, "place")
    /\ UNCHANGED <<orphanedUsers, stalePending, store, machines, counters, history>>

\* Mutant: the load is not taken back.
RollBackUserOnly(c) ==
    /\ users' = [users EXCEPT ![UserOf[c]] = None]
    /\ shared' = {g \in shared : g.grantee # UserOf[c]}
    /\ UNCHANGED <<fileservers, orphanedUsers>>

\* The store refused the assignment: take it out of memory again.
RollBackPlacement(c) ==
    LET u == UserOf[c]  i == req[c].num IN
    /\ users' = [users EXCEPT ![u] = None]
    /\ shared' = {g \in shared : g.grantee # u}
    /\ fileservers' = IF fileservers[i] # None /\ fileservers[i].userCount > 0
                      THEN [fileservers EXCEPT ![i].userCount = @ - 1]
                      ELSE fileservers
    /\ UNCHANGED orphanedUsers

\* Mutant: the login succeeds although the assignment was not stored.
PersistPlacementBestEffort(c) ==
    LET st == AssignUser(store, req[c].node, UserOf[c]) IN
    /\ pc[c] = "place"
    /\ Applied(st) \/ Failed({store, st})
    /\ Return(c, "in")
    /\ UNCHANGED <<memory, stalePending, machines, history>>

PersistPlacement(c) ==
    LET u == UserOf[c]  st == AssignUser(store, req[c].node, u) IN
    /\ pc[c] = "place"
    /\ \/ /\ Applied(st)
          /\ Return(c, "in")
          /\ unsettled' = unsettled \ {u}
          /\ UNCHANGED memory
       \/ /\ Failed({store, st})
          /\ RollBackPlacement(c)
          /\ Return(c, "idle")
          /\ unsettled' = unsettled \cup {u}
    /\ UNCHANGED <<stalePending, machines, released, revoked>>

\* Navigate to one's own root.  A failed Navigate changes nothing.
Navigate(c) ==
    LET i == users[UserOf[c]] IN
    /\ pc[c] = "in"
    /\ i # None
    /\ isHealthy(fileservers[i])
    /\ Local(c, [NoReq EXCEPT !.addr = fileservers[i].addr])
    /\ Goto(c, "routed")
    /\ UNCHANGED <<memory, writeOrderMu, stalePending, store, machines, counters, history>>

\* The client opens the address it was given and the fileserver there creates
\* the user's directory (FileServer.GetUserRoot).
Connect(c) ==
    /\ pc[c] = "routed"
    /\ disk' = [disk EXCEPT ![IdOf[req[c].addr]] = @ \cup {UserOf[c]}]
    /\ Goto(c, "idle") /\ Local(c, NoReq)
    /\ UNCHANGED <<memory, writeOrderMu, stalePending, store, registered, upgraded,
                   counters, history>>
-----------------------------------------------------------------------------
(* RootShare and RootUnshare *)

BothKnown(g) == users[g.owner] # None /\ users[g.grantee] # None

\* A grant that is already visible is answered without a write.
RootShare(s) ==
    /\ pc[s] = "idle" /\ Lock(s)
    /\ \E g \in Grants :
          /\ BothKnown(g) /\ g \notin shared
          /\ shared' = shared \cup {g}
          /\ Local(s, [NoReq EXCEPT !.grants = {g}])
          /\ revoked' = revoked \ {g}
    /\ Goto(s, "addShare")
    /\ UNCHANGED <<fileservers, users, orphanedUsers, stalePending, store, machines,
                   counters, released, unsettled>>

\* Mutant: a failed write is acknowledged too.
PersistShareBestEffort(s) ==
    LET g == CHOOSE x \in req[s].grants : TRUE
        st == AddShare(store, g) IN
    /\ pc[s] = "addShare"
    /\ Applied(st) \/ Failed({store, st})
    /\ unsettled' = unsettled \ {g}
    /\ Return(s, "idle")
    /\ UNCHANGED <<memory, stalePending, machines, released, revoked>>
PersistShare(s) ==
    LET g == CHOOSE x \in req[s].grants : TRUE
        st == AddShare(store, g) IN
    /\ pc[s] = "addShare"
    /\ \/ /\ Applied(st)
          /\ unsettled' = unsettled \ {g}
          /\ UNCHANGED shared
       \/ /\ Failed({store, st})
          /\ shared' = shared \ {g}
          /\ unsettled' = unsettled \cup {g}
    /\ Return(s, "idle")
    /\ UNCHANGED <<fileservers, users, orphanedUsers, stalePending, machines,
                   released, revoked>>

RootUnshare(s) ==
    /\ pc[s] = "idle" /\ Lock(s)
    /\ \E g \in Grants :
          /\ BothKnown(g)
          /\ shared' = shared \ {g}
          /\ Local(s, [NoReq EXCEPT !.grants = {g}])
    /\ Goto(s, "removeShare")
    /\ UNCHANGED <<fileservers, users, orphanedUsers, stalePending, store, machines,
                   counters, history>>

\* The delete is issued whether or not memory held the grant, and memory is
\* not restored when it fails.  Success acknowledges the revocation.
PersistUnshare(s) ==
    LET g == CHOOSE x \in req[s].grants : TRUE
        st == RemoveShare(store, g) IN
    /\ pc[s] = "removeShare"
    /\ \/ /\ Applied(st)
          /\ revoked' = revoked \cup {g}
          /\ unsettled' = unsettled \ {g}
       \/ /\ Failed({store, st})
          /\ unsettled' = unsettled \cup {g}
          /\ UNCHANGED revoked
    /\ Return(s, "idle")
    /\ UNCHANGED <<memory, stalePending, machines, released>>
-----------------------------------------------------------------------------
(* DeregisterFileServer *)

\* The console names a node id, or only an address.  `i' is the entry found
\* (None: the node is not registered, but it may still have orphans).
DeregTargets ==
    {[node |-> n, num |-> i] : n \in NodeIds, i \in Numerics \cup {None}}

Found(t) ==
    \/ t.num # None /\ t.num \in ByNodeID(t.node)
    \/ t.num = None /\ ByNodeID(t.node) = {}

DeregisterFileServer ==
    /\ pc[Admin] = "idle" /\ deregs < MaxDeregs /\ Lock(Admin)
    /\ \E t \in DeregTargets :
         LET routed == IF t.num = None THEN {} ELSE UsersOn(t.num)
             removed == routed \cup OrphansOf(t.node) IN
          /\ Found(t)
          /\ t.num # None \/ removed # {}
          /\ Local(Admin, [NoReq EXCEPT
                !.node = t.node, !.num = t.num, !.users = removed,
                !.prev = [info |-> IF t.num = None THEN None ELSE fileservers[t.num],
                          users |-> users, orphanedUsers |-> orphanedUsers,
                          shared |-> shared]])
          /\ users' = [u \in Users |-> IF u \in removed THEN None ELSE users[u]]
          /\ orphanedUsers' = [u \in Users |-> IF u \in removed THEN None
                                               ELSE orphanedUsers[u]]
          /\ shared' = shared \ Involving(removed)
          /\ fileservers' = IF t.num = None THEN fileservers
                            ELSE [fileservers EXCEPT ![t.num] = None]
          /\ Goto(Admin, IF removed # {} THEN "dropUsers" ELSE "dropNode")
          /\ released' = released \cup removed
    /\ deregs' = deregs + 1
    /\ UNCHANGED <<stalePending, store, machines, faults, crashes, timeouts, revoked,
                   unsettled>>

\* What a removal writes: without an entry, the node's document is left alone.
DeregScope(r) == (IF r.num = None THEN {} ELSE {r.node}) \cup r.users \cup Involving(r.users)

\* Any store error puts the snapshot back.
RollBackDeregister ==
    LET r == req[Admin] IN
    /\ fileservers' = IF r.prev.info = None THEN fileservers
                      ELSE [fileservers EXCEPT ![r.num] = r.prev.info]
    /\ users' = [u \in Users |-> IF u \in r.users /\ r.prev.users[u] # None
                                 THEN r.prev.users[u] ELSE users[u]]
    /\ orphanedUsers' = [u \in Users |->
                            IF u \in r.users /\ r.prev.orphanedUsers[u] # None
                            THEN r.prev.orphanedUsers[u] ELSE orphanedUsers[u]]
    /\ shared' = r.prev.shared

DeregWrite(here, applied, outcomes, label) ==
    /\ pc[Admin] = here
    /\ \/ /\ Applied(applied)
          /\ IF label = "done"
             THEN Return(Admin, "idle") /\ unsettled' = unsettled \ DeregScope(req[Admin])
             ELSE Goto(Admin, label) /\ UNCHANGED <<req, writeOrderMu, unsettled>>
          /\ UNCHANGED memory
       \/ /\ Failed(outcomes)
          /\ RollBackDeregister
          /\ Return(Admin, "idle")
          /\ unsettled' = unsettled \cup DeregScope(req[Admin])
    /\ UNCHANGED <<stalePending, machines, released, revoked>>

\* Mutant: only shares and the node are removed from the store.
DropNoUsers == DeregWrite("dropUsers", store, {store}, "dropShares")
\* Users, then shares, then the node document last.
DropUsers ==
    DeregWrite("dropUsers", RemoveUsers(store, req[Admin].users),
               RemoveUsersPartial(store, req[Admin].users), "dropShares")
DropShares ==
    DeregWrite("dropShares", RemoveSharesInvolving(store, req[Admin].users),
               DropSharesPartial(store, Involving(req[Admin].users)),
               IF req[Admin].num # None THEN "dropNode" ELSE "done")
DropNode ==
    LET st == RemoveFileServer(store, req[Admin].node) IN
    DeregWrite("dropNode", st, {store, st}, "done")
-----------------------------------------------------------------------------
(* Restarts *)

\* The fileserver process restarts, perhaps on a build that sends fs_id; a
\* heartbeat or registration call that never arrives has the same effect.
RestartFileServer(m) ==
    /\ pc[m] = "idle"
    /\ registered' = [registered EXCEPT ![m] = FALSE]
    /\ upgraded' \in {upgraded, upgraded \cup {m}}
    /\ UNCHANGED <<memory, writeOrderMu, stalePending, store, pc, req, disk,
                   counters, history>>

\* The nodes of the store, by numeric id.
StoredAs(i) == {n \in NodeIds : store.nodes[n] # None /\ store.nodes[n].num = i}

\* hydrate.  F is the set of nodes whose stored heartbeat is still recent when
\* the metaserver is back.
Hydrate(F) ==
    /\ fileservers' = [i \in Numerics |->
          IF StoredAs(i) = {} THEN None
          ELSE LET n == CHOOSE x \in StoredAs(i) : TRUE IN
               [node |-> n, addr |-> store.nodes[n].addr, fresh |-> n \in F,
                status |-> store.nodes[n].status,
                userCount |-> Cardinality({u \in Users : store.users[u] = n})]]
    /\ users' = [u \in Users |->
          IF store.users[u] # None /\ store.nodes[store.users[u]] # None
          THEN store.nodes[store.users[u]].num ELSE None]
    /\ orphanedUsers' = [u \in Users |->
          IF store.users[u] # None /\ store.nodes[store.users[u]] = None
          THEN store.users[u] ELSE None]
    /\ shared' = store.shares

\* Users the store homes on a node it does not have.
Homeless == {u \in Users : store.users[u] # None /\ store.nodes[store.users[u]] = None}

\* The metaserver dies and restarts: requests in flight end with an error.
Crash ==
    /\ crashes < MaxCrashes
    /\ crashes' = crashes + 1
    /\ \E old \in {{}} \cup (IF timeouts < MaxTimeouts THEN SUBSET NodeIds ELSE {}) :
          Hydrate(NodeIds \ old) /\ timeouts' = IF old = {} THEN timeouts ELSE timeouts + 1
    /\ pc' = [a \in Callers |-> IF pc[a] \in {"in", "routed"} THEN pc[a] ELSE "idle"]
    /\ req' = [a \in Callers |-> IF pc[a] \in {"in", "routed"} THEN req[a] ELSE NoReq]
    /\ registered' = [m \in Machines |-> registered[m] /\ pc[m] = "idle"]
    /\ writeOrderMu' = Free
    /\ stalePending' = {}
    /\ unsettled' = unsettled \cap (NodeIds \cup Homeless)
    /\ UNCHANGED <<store, upgraded, disk, faults, deregs, released, revoked>>
-----------------------------------------------------------------------------
Init ==
    /\ fileservers = [i \in Numerics |-> None]
    /\ users = [u \in Users |-> None]
    /\ shared = {}
    /\ orphanedUsers = [u \in Users |-> None]
    /\ writeOrderMu = Free
    /\ stalePending = {}
    /\ store = EmptyStore
    /\ pc = [a \in Callers |-> "idle"]
    /\ req = [a \in Callers |-> NoReq]
    /\ registered = [m \in Machines |-> FALSE]
    /\ upgraded = Machines \ LegacyMachines
    /\ disk = [f \in FsIds |-> {}]
    /\ faults = 0 /\ crashes = 0 /\ deregs = 0 /\ timeouts = 0
    /\ released = {} /\ revoked = {} /\ unsettled = {}

RegisterStep(m) ==
    \/ RegisterKnown(m) \/ RegisterNew(m) \/ RejectRegister(m)
    \/ AllocateNode(m) \/ CommitNew(m)
    \/ RenameUsers(m) \/ RenameRemove(m) \/ RenameInsert(m)
    \/ PersistNode(m) \/ PurgeUsers(m) \/ PurgeShares(m)
    \/ PersistUsers(m) \/ ClearShares(m) \/ PersistShares(m)

HeartbeatStep(m) == Heartbeat(m) \/ HeartbeatRejected(m) \/ PersistHeartbeat(m)

ClientStep(c) ==
    \/ GetRootsKnown(c) \/ GetRootsPlace(c) \/ PersistPlacement(c)
    \/ Navigate(c) \/ Connect(c)

ShareStep(s) ==
    \/ RootShare(s) \/ PersistShare(s) \/ RootUnshare(s) \/ PersistUnshare(s)

DeregisterStep == DeregisterFileServer \/ DropUsers \/ DropShares \/ DropNode

MonitorStep == MarkStale \/ \E n \in NodeIds : PersistStale(n)

Next ==
    \/ \E m \in Machines : SendRegister(m) \/ RegisterStep(m) \/ HeartbeatStep(m)
                             \/ RestartFileServer(m)
    \/ \E c \in Clients : ClientStep(c)
    \/ \E s \in Sharers : ShareStep(s)
    \/ DeregisterStep
    \/ MonitorStep
    \/ \E i \in Numerics : Expire(i)
    \/ Crash

Spec == Init /\ [][Next]_vars

\* Handlers run to their end, the sync loop's ticker and the monitor's keep
\* firing, and a Go mutex does not starve a waiter (hence SF for the steps
\* that may wait for writeOrderMu).  Nobody is obliged to log in, to share, to
\* remove a node, to fall silent or to crash.
Fairness ==
    /\ \A m \in Machines : /\ WF_vars(SendRegister(m))
                            /\ SF_vars(RegisterStep(m))
                            /\ WF_vars(HeartbeatStep(m))
    /\ \A c \in Clients : WF_vars(PersistPlacement(c))
    /\ \A s \in Sharers : WF_vars(PersistShare(s) \/ PersistUnshare(s))
    /\ WF_vars(DropUsers \/ DropShares \/ DropNode)
    /\ WF_vars(MonitorStep)

FairSpec == Spec /\ Fairness
-----------------------------------------------------------------------------
(* Properties *)

Labels == {"idle", "register", "alloc", "commit", "rename", "renameRemove",
           "renameInsert", "upsert", "purgeUsers", "purgeShares", "assign", "clear",
           "grant", "beat", "in", "place", "routed", "addShare", "removeShare",
           "dropUsers", "dropShares", "dropNode"}

Snapshots == [info : NodeInfos \cup {None}, users : [Users -> Numerics \cup {None}],
              orphanedUsers : [Users -> NodeIds \cup {None}], shared : SUBSET Grants]

Requests == [node : NodeIds \cup {None}, addr : Machines \cup {None},
             num : Numerics \cup {None}, users : SUBSET Users, grants : SUBSET Grants,
             purged : SUBSET Users, oldDoc : NodeDocs \cup {None},
             prev : Snapshots \cup {None}]

\* The type of every variable: memory, store, requests and history.
TypeOK ==
    /\ fileservers \in [Numerics -> NodeInfos \cup {None}]
    /\ users \in [Users -> Numerics \cup {None}]
    /\ shared \subseteq Grants
    /\ orphanedUsers \in [Users -> NodeIds \cup {None}]
    /\ writeOrderMu \in Callers \cup {Free}
    /\ stalePending \subseteq NodeIds
    /\ store \in Stores
    /\ pc \in [Callers -> Labels]
    /\ req \in [Callers -> Requests]
    /\ registered \in [Machines -> BOOLEAN]
    /\ upgraded \subseteq Machines
    /\ disk \in [FsIds -> SUBSET Users]
    /\ faults \in 0 .. MaxFaults /\ crashes \in 0 .. MaxCrashes 
    /\ deregs \in 0 .. MaxDeregs /\ timeouts \in 0 .. MaxTimeouts
    /\ released \subseteq Users
    /\ revoked \subseteq Grants
    /\ unsettled \subseteq Users \cup Grants \cup NodeIds

\* No structural request is between its first and its last step.
Quiet == writeOrderMu = Free

\* Between structural requests, memory and the store agree on which nodes
\* exist: registration, deregistration and a late heartbeat or stale mark never
\* leave one that the other lacks.  Nodes of a request that the store failed
\* are excused until a later request on them succeeds.
NodeTableIsDurable ==
    Quiet => \A n \in NodeIds \ unsettled : ByNodeID(n) # {} <=> store.nodes[n] # None

MemoryHome(u) == IF users[u] # None THEN fileservers[users[u]].node ELSE orphanedUsers[u]

\* Between structural requests, memory routes (or orphans) every user where
\* the store homes them, so a restart routes nobody elsewhere: "if it is lost,
\* the user is re-assigned and may land on a different node from their data".
RoutingIsDurable ==
    Quiet => \A u \in Users \ unsettled : MemoryHome(u) = store.users[u]

\* Between structural requests, every grant memory shows is in the store: an
\* acknowledged RootShare or registration survives a restart.
GrantsAreDurable == Quiet => shared \ unsettled \subseteq store.shares

\* An acknowledged RootUnshare stays revoked, in memory and in the store,
\* through races, failed writes, deregistration rollbacks and restarts, until
\* some request grants the directory again.
RevocationIsFinal == revoked \cap (shared \cup store.shares) = {}

\* The store never homes a user on a node it does not have: nodes are written
\* before users and removed after them, also when a crash or a failed write
\* cuts the sequence short.
HomesAreRegistered ==
    \A u \in Homeless : u \in unsettled \/ store.users[u] \in unsettled

\* Placement weighs nodes by UserCount, so it must equal the number of users
\* routed there, in every state, and every route must lead to a node.
LoadIsExact ==
    /\ \A i \in Numerics : fileservers[i] # None =>
          fileservers[i].userCount = Cardinality(UsersOn(i))
    /\ \A u \in Users : users[u] # None => fileservers[users[u]] # None

\* The store's allocator never hands out a numeric id in use, and no other
\* request claims the users while ms.mu is released for the allocation: the
\* refusals after AllocateNode in RegisterFileServer cannot happen.
RecheckNeverFails == \A m \in Machines : pc[m] = "commit" => RecheckPasses(req[m])

\* A user has files on one node only, unless an administrator or a purge
\* released them: a lost or repeated placement never splits a home.
NoStranding == \A u \in Users \ released : \A f, g \in FsIds :
    u \in disk[f] /\ u \in disk[g] => f = g

\* While a node is alive, no other process takes over its identity: its
\* address only changes once its registration has expired.
AddressIsStable ==
    [][crashes' = crashes =>
         \A i \in Numerics : isHealthy(fileservers[i]) /\ fileservers'[i] # None =>
            fileservers'[i].addr = fileservers[i].addr]_vars

\* Once failures stop, every fileserver's sync loop gets it registered, at its
\* address and alive, and keeps it so.
NodesRecover == \A m \in Machines :
    <>[](\E i \in Numerics : Accepted(m, i) /\ isHealthy(fileservers[i]))

\* Once failures stop, the stored status of every node settles on healthy: a
\* heartbeat or stale mark that was lost, or written in the wrong order, "is
\* corrected by the next heartbeat".
HeartbeatsRepairTheStore == \A m \in Machines :
    <>[](LET doc == store.nodes[resolveNodeID(m)] IN doc # None /\ doc.status = "healthy")

\* What the comments of RegisterFileServer say of numbers: a legacy entry is
\* re-keyed "so the record keeps its numeric id" (handler.go:330) and after a
\* failed write "the retry re-applies exactly this state" (handler.go:353).
\* Between structural requests, once a node's failed registration has been
\* followed by one that was acknowledged, the store knows the node by the
\* number memory has given it.  The code does not do this: the retry of a
\* failed re-keying finds the node under its new name and skips the re-keying,
\* and the upsert allocates another number.
RetriesKeepTheNumber ==
    Quiet => \A n \in NodeIds \ unsettled : \A i \in ByNodeID(n) :
                store.nodes[n] # None => store.nodes[n].num = i
=============================================================================
