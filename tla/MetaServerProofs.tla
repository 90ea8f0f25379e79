-------------------------- MODULE MetaServerProofs --------------------------
(***************************************************************************)
(* Proofs about MetaServer, for every value of its constants: types,       *)
(* mutual exclusion and revocations; then the table of nodes, the numbers  *)
(* nodes hold, the load each entry carries and the address it keeps.       *)
(***************************************************************************)
EXTENDS MetaServer, FiniteSetTheorems, TLAPS

-----------------------------------------------------------------------------
(* The store's methods keep the shape of the store *)

\* Registering a node keeps the store well formed while a numeric id is left.
LEMMA UpsertTypes ==
    ASSUME NEW st \in Stores, NEW n \in NodeIds, NEW addr \in Machines,
           Allocates(st, n) => st.next < MaxNum
    PROVE  /\ UpsertFileServer(st, n, addr) \in Stores
           /\ UpsertFileServerPartial(st, n, addr) \subseteq Stores
           /\ UpsertFileServer(st, n, addr).nodes[n].num \in Numerics
<1>1. UpsertFileServer(st, n, addr) \in Stores
      /\ UpsertFileServer(st, n, addr).nodes[n].num \in Numerics
  <2>1. CASE Allocates(st, n)
    <3>1. st.next \in Numerics /\ st.next + 1 \in 0 .. MaxNum
      BY <2>1, MetaStoreAssumption DEF Stores, Numerics
    <3>2. [num |-> st.next, addr |-> addr, status |-> "healthy"] \in NodeDocs
      BY <3>1 DEF NodeDocs, Statuses
    <3> QED BY <2>1, <3>1, <3>2 DEF UpsertFileServer, Stores
  <2>2. CASE ~Allocates(st, n)
    <3>1. st.nodes[n] \in NodeDocs
      BY <2>2 DEF Allocates, Stores
    <3> DEFINE doc == [num |-> st.nodes[n].num, addr |-> addr, status |-> "healthy"]
    <3>2. doc \in NodeDocs
      BY <3>1 DEF NodeDocs, Statuses
    <3>3. UpsertFileServer(st, n, addr) = [st EXCEPT !.nodes[n] = doc]
      BY <2>2, <3>1 DEF UpsertFileServer, Stores, NodeDocs
    <3>4. doc.num \in Numerics
      BY <3>2 DEF NodeDocs
    <3> HIDE DEF doc
    <3>5. [st EXCEPT !.nodes[n] = doc] \in Stores /\ [st EXCEPT !.nodes[n] = doc].nodes[n] = doc
      BY <3>2 DEF Stores
    <3> QED BY <3>3, <3>4, <3>5
  <2> QED BY <2>1, <2>2
<1>2. UpsertFileServerPartial(st, n, addr) \subseteq Stores
  <2>1. Allocates(st, n) => [st EXCEPT !.next = @ + 1] \in Stores
    BY MetaStoreAssumption DEF Stores
  <2> QED BY <1>1, <2>1 DEF UpsertFileServerPartial
<1> QED BY <1>1, <1>2

\* So do the other writes, and none of them touches more than it says.
LEMMA StoreTypes ==
    ASSUME NEW st \in Stores
    PROVE  /\ \A n \in NodeIds : RemoveFileServer(st, n) \in Stores
           /\ \A n \in NodeIds : RenameRemoveOld(st, n) \in Stores
           /\ \A n \in NodeIds, doc \in NodeDocs \cup {None} :
                RenameInsertNew(st, doc, n) \in Stores
           /\ \A old, n \in NodeIds : /\ RenameMoveUsers(st, old, n) \in Stores
                                      /\ RenameMoveUsersPartial(st, old, n) \subseteq Stores
           /\ \A n \in NodeIds, s \in Statuses : SetStatus(st, n, s) \in Stores
           /\ \A n \in NodeIds, U \in SUBSET Users :
                /\ AssignUsers(st, n, U) \in Stores
                /\ AssignUsersPartial(st, n, U) \subseteq Stores
           /\ \A U \in SUBSET Users :
                /\ RemoveUsers(st, U) \in Stores
                /\ RemoveUsersPartial(st, U) \subseteq Stores
           /\ \A S \in SUBSET Grants :
                /\ AddShares(st, S) \in Stores
                /\ AddSharesPartial(st, S) \subseteq Stores
                /\ DropSharesPartial(st, S) \subseteq Stores
                /\ [st EXCEPT !.shares = @ \ S] \in Stores
<1>1. \A n \in NodeIds : RemoveFileServer(st, n) \in Stores /\ RenameRemoveOld(st, n) \in Stores
  BY DEF RemoveFileServer, RenameRemoveOld, Stores
<1>2. \A n \in NodeIds, doc \in NodeDocs \cup {None} : RenameInsertNew(st, doc, n) \in Stores
  BY DEF RenameInsertNew, Stores
<1>3. ASSUME NEW old \in NodeIds, NEW n \in NodeIds
      PROVE  /\ RenameMoveUsers(st, old, n) \in Stores
             /\ RenameMoveUsersPartial(st, old, n) \subseteq Stores
  <2>1. RenameMoveUsers(st, old, n) \in Stores
    BY DEF RenameMoveUsers, Stores
  <2>2. ASSUME NEW U \in SUBSET Users
        PROVE  [st EXCEPT !.users = [u \in Users |-> IF u \in U /\ @[u] = old THEN n ELSE @[u]]]
                 \in Stores
    BY DEF Stores
  <2> QED BY <2>1, <2>2 DEF RenameMoveUsersPartial
<1>4. ASSUME NEW n \in NodeIds, NEW s \in Statuses PROVE SetStatus(st, n, s) \in Stores
  <2>1. CASE st.nodes[n] # None
    <3>1. [st.nodes[n] EXCEPT !.status = s] \in NodeDocs
      BY <2>1 DEF Stores, NodeDocs
    <3>2. SetStatus(st, n, s) = [st EXCEPT !.nodes[n] = [st.nodes[n] EXCEPT !.status = s]]
      BY <2>1 DEF SetStatus, Stores
    <3> QED BY <3>1, <3>2 DEF Stores
  <2> QED BY <2>1 DEF SetStatus
<1>5. ASSUME NEW n \in NodeIds \cup {None}, NEW U \in SUBSET Users
      PROVE  AssignUsers(st, n, U) \in Stores /\ RemoveUsers(st, U) \in Stores
  BY DEF AssignUsers, RemoveUsers, Stores
<1>6. ASSUME NEW S \in SUBSET Grants
      PROVE  AddShares(st, S) \in Stores /\ [st EXCEPT !.shares = @ \ S] \in Stores
  BY DEF AddShares, Stores
<1> QED
  BY <1>1, <1>2, <1>3, <1>4, <1>5, <1>6
  DEF AssignUsersPartial, RemoveUsersPartial, AddSharesPartial, DropSharesPartial

-----------------------------------------------------------------------------
(* What a request in flight looks like *)

RegisterWriting == {"rename", "renameRemove", "renameInsert", "upsert", "purgeUsers",
                    "purgeShares", "assign", "clear", "grant"}
Registering == RegisterWriting \cup {"alloc", "commit"}
Dropping == {"dropUsers", "dropShares", "dropNode"}

\* The handler's local variables, by the point the handler has reached.
Fits(a, label, r) ==
    /\ a \in Machines =>
          /\ label \in Registering \cup {"register"} => r.node \in NodeIds /\ r.addr = a
          /\ label = "commit" => r.num \in Numerics
          /\ label = "beat" => r.node \in NodeIds
    /\ a \in Clients /\ label = "place" => r.node \in NodeIds /\ r.num \in Numerics
    /\ a \in Sharers /\ label \in {"addShare", "removeShare"} =>
          \E g \in Grants : r.grants = {g}
    /\ a = Admin /\ label \in Dropping => r.node \in NodeIds /\ r.prev \in Snapshots

RequestOK == \A a \in Callers : Fits(a, pc[a], req[a])

TypeInv == TypeOK /\ RequestOK

\* The empty request is a request.
LEMMA NoReqType == NoReq \in Requests
BY DEF NoReq, Requests

\* A caller plays one role.
LEMMA CallersDisjoint ==
    /\ Machines \subseteq Callers /\ Clients \subseteq Callers /\ Sharers \subseteq Callers
    /\ Admin \in Callers
    /\ Clients \cap Machines = {} /\ Clients \cap Sharers = {} /\ Machines \cap Sharers = {}
    /\ Admin \notin Clients /\ Admin \notin Machines /\ Admin \notin Sharers
BY CallersAssumption DEF Callers

\* resolveNodeID names a node, on either build.
LEMMA NodeIdTypes ==
    /\ \A m \in Machines : LegacyNodeID(m) \in NodeIds
    /\ \A m \in Machines : resolveNodeID(m) \in NodeIds
BY MetaServerAssumption DEF NodeIds, LegacyIds, resolveNodeID

\* The metaserver starts well formed, on an empty store.
LEMMA TypeInit == Init => TypeInv
<1> SUFFICES ASSUME Init PROVE TypeInv
  OBVIOUS
<1>1. EmptyStore \in Stores
  BY MetaStoreAssumption DEF EmptyStore, Stores
<1>2. TypeOK
  BY <1>1, NoReqType, MetaStoreAssumption, MetaServerAssumption DEF Init, TypeOK, Labels
<1>3. RequestOK
  BY CallersDisjoint DEF Init, RequestOK, Fits, Registering, RegisterWriting, Dropping
<1> QED BY <1>2, <1>3 DEF TypeInv

\* One caller's request moves on; the others' stay as they are.
LEMMA RequestStep ==
    ASSUME TypeInv, NEW a \in Callers, NEW label \in Labels, NEW r \in Requests,
           Fits(a, label, r),
           pc' = [pc EXCEPT ![a] = label], req' = [req EXCEPT ![a] = r]
    PROVE  pc' \in [Callers -> Labels] /\ req' \in [Callers -> Requests] /\ RequestOK'
<1>1. pc' \in [Callers -> Labels] /\ req' \in [Callers -> Requests]
  BY DEF TypeInv, TypeOK
<1>2. ASSUME NEW b \in Callers PROVE Fits(b, pc'[b], req'[b])
  <2>1. CASE b = a
    BY <2>1 DEF TypeInv, TypeOK
  <2>2. CASE b # a
    <3>1. pc'[b] = pc[b] /\ req'[b] = req[b]
      BY <2>2 DEF TypeInv, TypeOK
    <3> QED BY <3>1 DEF TypeInv, RequestOK
  <2> QED BY <2>1, <2>2
<1>3. RequestOK'
  BY <1>2 DEF RequestOK, Fits
<1> QED BY <1>1, <1>3

\* A handler that returns leaves nothing behind.
LEMMA ReturnTypes ==
    ASSUME TypeInv, NEW a \in Callers, NEW label \in {"idle", "in"},
           Goto(a, label), Local(a, NoReq)
    PROVE  pc' \in [Callers -> Labels] /\ req' \in [Callers -> Requests] /\ RequestOK'
<1>1. Fits(a, label, NoReq) /\ label \in Labels
  BY DEF Fits, Labels, Registering, RegisterWriting, Dropping
<1> QED BY <1>1, NoReqType, RequestStep DEF Goto, Local

\* The sync loop's call carries the node's own identity and address.
LEMMA TypeSendRegister ==
    ASSUME TypeInv, NEW m \in Machines, SendRegister(m)
    PROVE  TypeInv'
<1>1. PICK U \in SUBSET Users, S \in SUBSET Grants :
        Local(m, [NoReq EXCEPT !.node = resolveNodeID(m), !.addr = m, !.users = U, !.grants = S])
  BY MetaServerAssumption DEF SendRegister, TypeInv, TypeOK, OwnedBy
<1> DEFINE r == [NoReq EXCEPT !.node = resolveNodeID(m), !.addr = m, !.users = U, !.grants = S]
<1>2. r \in Requests /\ r.node \in NodeIds /\ r.addr = m
  BY NodeIdTypes DEF NoReq, Requests
<1> HIDE DEF r
<1>3. req' = [req EXCEPT ![m] = r] /\ pc' = [pc EXCEPT ![m] = "register"]
  BY <1>1 DEF SendRegister, Local, Goto, r
<1>4. Fits(m, "register", r)
  BY <1>2, CallersDisjoint DEF Fits, Registering, RegisterWriting, Dropping
<1>5. pc' \in [Callers -> Labels] /\ req' \in [Callers -> Requests] /\ RequestOK'
  BY <1>2, <1>3, <1>4, RequestStep, CallersDisjoint DEF Labels
<1> QED
  BY <1>5 DEF SendRegister, TypeInv, TypeOK, memory, machines, counters, history

\* A refused registration changes nothing.
LEMMA TypeReject ==
    ASSUME TypeInv, NEW m \in Machines, RejectRegister(m)
    PROVE  TypeInv'
<1>1. pc' \in [Callers -> Labels] /\ req' \in [Callers -> Requests] /\ RequestOK'
  BY ReturnTypes, CallersDisjoint DEF RejectRegister
<1> QED
  BY <1>1 DEF RejectRegister, TypeInv, TypeOK, memory, machines, counters, history

\* The memory part of a registration.
LEMMA CommitTypes ==
    ASSUME TypeInv, NEW m \in Machines, NEW i \in Numerics,
           NEW label \in {"rename", "upsert"},
           req[m].node \in NodeIds, req[m].addr = m, Commit(m, i, label)
    PROVE  /\ fileservers' \in [Numerics -> NodeInfos \cup {None}]
           /\ users' \in [Users -> Numerics \cup {None}]
           /\ shared' \subseteq Grants
           /\ orphanedUsers' \in [Users -> NodeIds \cup {None}]
           /\ released' \subseteq Users /\ revoked' \subseteq Grants
           /\ pc' \in [Callers -> Labels] /\ req' \in [Callers -> Requests] /\ RequestOK'
<1> DEFINE r == req[m]
           purged == Purged(r, i)
           homes == [u \in Users |-> IF u \in r.users \cup OrphansOf(r.node) THEN i
                                     ELSE IF u \in purged THEN None ELSE users[u]]
           load == countUsers(homes, i)
           info == [node |-> r.node, addr |-> r.addr, fresh |-> TRUE, status |-> "healthy",
                    userCount |-> load]
<1>1. r \in Requests /\ purged \subseteq Users
  BY CallersDisjoint DEF TypeInv, TypeOK, Purged, Missing, UsersOn
<1>2. load \in Nat
  <2>1. {u \in Users : homes[u] = i} \subseteq Users
    OBVIOUS
  <2>2. IsFiniteSet({u \in Users : homes[u] = i})
    BY <2>1, FS_Subset, MetaServerAssumption
  <2> QED BY <2>2, FS_CardinalityType DEF countUsers
<1>3. homes \in [Users -> Numerics \cup {None}]
  BY DEF TypeInv, TypeOK
<1>4. info \in NodeInfos
  BY <1>2 DEF NodeInfos, Statuses
<1>5. /\ users' = homes
      /\ fileservers' = [fileservers EXCEPT ![i] = info]
      /\ shared' = (shared \ (Involving(purged) \cup OwnedBy(r.users))) \cup r.grants
      /\ orphanedUsers' = [u \in Users |-> IF orphanedUsers[u] = r.node
                                           THEN None ELSE orphanedUsers[u]]
      /\ released' = released \cup purged /\ revoked' = revoked \ r.grants
      /\ req' = [req EXCEPT ![m] = [r EXCEPT !.num = i, !.purged = purged]]
      /\ pc' = [pc EXCEPT ![m] = label]
  BY DEF Commit, Local, Goto
<1> HIDE DEF purged, homes, load, info
<1>6. [r EXCEPT !.num = i, !.purged = purged] \in Requests
  BY <1>1 DEF Requests
<1>7. Fits(m, label, [r EXCEPT !.num = i, !.purged = purged])
  BY <1>1, CallersDisjoint DEF Fits, Requests, Registering, RegisterWriting, Dropping
<1>8. pc' \in [Callers -> Labels] /\ req' \in [Callers -> Requests] /\ RequestOK'
  <2>1. label \in Labels /\ m \in Callers
    BY CallersDisjoint DEF Labels
  <2> HIDE DEF r
  <2> QED BY <1>5, <1>6, <1>7, <2>1, RequestStep
<1>9. fileservers' \in [Numerics -> NodeInfos \cup {None}]
  BY <1>4, <1>5 DEF TypeInv, TypeOK
<1>10. /\ users' \in [Users -> Numerics \cup {None}]
       /\ orphanedUsers' \in [Users -> NodeIds \cup {None}]
  BY <1>3, <1>5 DEF TypeInv, TypeOK
<1>11. shared' \subseteq Grants /\ released' \subseteq Users /\ revoked' \subseteq Grants
  BY <1>1, <1>5 DEF TypeInv, TypeOK, Requests
<1> QED BY <1>8, <1>9, <1>10, <1>11

\* What a registration resolves to is an entry of the table, or nothing.
LEMMA TargetTypes ==
    ASSUME NEW r, NEW t \in Targets(r)
    PROVE  t.num \in Numerics \cup {None} /\ t.adopt \in BOOLEAN
<1>1. CASE ByNodeID(r.node) # {}
  <2>1. PICK i \in ByNodeID(r.node) : t = [num |-> i, adopt |-> FALSE]
    BY <1>1 DEF Targets
  <2> QED BY <2>1 DEF ByNodeID
<1>2. CASE ByNodeID(r.node) = {} /\ r.node \in FsIds /\ ByAddress(r.addr) # {}
  <2>1. PICK i \in ByAddress(r.addr) :
          t = IF fileservers[i].node \in LegacyIds
              THEN [num |-> i, adopt |-> TRUE] ELSE [num |-> None, adopt |-> FALSE]
    BY <1>2 DEF Targets
  <2> QED BY <2>1 DEF ByAddress
<1>3. CASE ByNodeID(r.node) = {} /\ ~(r.node \in FsIds /\ ByAddress(r.addr) # {})
  <2>1. t = [num |-> None, adopt |-> FALSE]
    BY <1>3 DEF Targets
  <2> QED BY <2>1
<1> QED BY <1>1, <1>2, <1>3

\* RegisterFileServer for an entry memory has.
LEMMA TypeRegisterKnown ==
    ASSUME TypeInv, NEW m \in Machines, RegisterKnown(m)
    PROVE  TypeInv'
<1>1. req[m].node \in NodeIds /\ req[m].addr = m
  BY CallersDisjoint DEF RegisterKnown, TypeInv, RequestOK, Fits
<1>2. PICK t \in Targets(req[m]) :
        /\ t.num # None
        /\ Commit(m, t.num, IF t.adopt THEN "rename" ELSE "upsert")
        /\ unsettled' = IF t.adopt THEN unsettled \cup {req[m].node, LegacyNodeID(m)}
                                   ELSE unsettled
  BY DEF RegisterKnown
<1>3. t.num \in Numerics
  BY <1>2, TargetTypes
<1>4. /\ fileservers' \in [Numerics -> NodeInfos \cup {None}]
      /\ users' \in [Users -> Numerics \cup {None}]
      /\ shared' \subseteq Grants
      /\ orphanedUsers' \in [Users -> NodeIds \cup {None}]
      /\ released' \subseteq Users /\ revoked' \subseteq Grants
      /\ pc' \in [Callers -> Labels] /\ req' \in [Callers -> Requests] /\ RequestOK'
  BY <1>1, <1>2, <1>3, CommitTypes
<1>5. unsettled' \subseteq Users \cup Grants \cup NodeIds
  BY <1>1, <1>2, NodeIdTypes DEF TypeInv, TypeOK
<1>6. writeOrderMu' \in Callers
  BY CallersDisjoint DEF RegisterKnown, Lock
<1> QED BY <1>4, <1>5, <1>6 DEF RegisterKnown, TypeInv, TypeOK, machines, counters

\* RegisterFileServer after the store has allocated the numeric id.
LEMMA TypeCommitNew ==
    ASSUME TypeInv, NEW m \in Machines, CommitNew(m)
    PROVE  TypeInv'
<1>1. req[m].node \in NodeIds /\ req[m].addr = m /\ req[m].num \in Numerics
  BY CallersDisjoint DEF CommitNew, TypeInv, RequestOK, Fits, Registering
<1>2. Commit(m, req[m].num, "upsert")
  BY DEF CommitNew
<1>3. /\ fileservers' \in [Numerics -> NodeInfos \cup {None}]
      /\ users' \in [Users -> Numerics \cup {None}]
      /\ shared' \subseteq Grants
      /\ orphanedUsers' \in [Users -> NodeIds \cup {None}]
      /\ released' \subseteq Users /\ revoked' \subseteq Grants
      /\ pc' \in [Callers -> Labels] /\ req' \in [Callers -> Requests] /\ RequestOK'
  BY <1>1, <1>2, CommitTypes
<1> QED BY <1>3 DEF CommitNew, TypeInv, TypeOK, machines, counters

\* RegisterFileServer releasing ms.mu for the allocation.
LEMMA TypeRegisterNew ==
    ASSUME TypeInv, NEW m \in Machines, RegisterNew(m)
    PROVE  TypeInv'
<1>1. req[m].node \in NodeIds /\ req[m].addr = m /\ req[m] \in Requests /\ m \in Callers
  BY CallersDisjoint DEF RegisterNew, TypeInv, TypeOK, RequestOK, Fits
<1>2. Fits(m, "alloc", req[m]) /\ "alloc" \in Labels
  BY <1>1, CallersDisjoint DEF Fits, Labels, Dropping
<1>3. pc' = [pc EXCEPT ![m] = "alloc"] /\ req' = [req EXCEPT ![m] = req[m]]
  BY <1>1 DEF RegisterNew, Goto, TypeInv, TypeOK
<1>4. pc' \in [Callers -> Labels] /\ req' \in [Callers -> Requests] /\ RequestOK'
  BY <1>1, <1>2, <1>3, RequestStep
<1> QED
  BY <1>1, <1>4 DEF RegisterNew, Lock, TypeInv, TypeOK, memory, machines, counters, history

\* What a registration may leave unsettled.
LEMMA RegisterScopeType ==
    ASSUME TypeInv, NEW m \in Machines, req[m].node \in NodeIds, req[m].addr = m
    PROVE  RegisterScope(req[m]) \subseteq Users \cup Grants \cup NodeIds
<1>1. req[m].users \subseteq Users /\ req[m].purged \subseteq Users
  BY CallersDisjoint DEF TypeInv, TypeOK, Requests
<1> QED BY <1>1, NodeIdTypes DEF RegisterScope, OwnedBy, Involving

\* Success or failure of a store call keeps the counters in bounds.
LEMMA CounterTypes ==
    ASSUME TypeInv, NEW st, NEW outcomes, Applied(st) \/ Failed(outcomes)
    PROVE  /\ faults' \in 0 .. MaxFaults /\ crashes' \in 0 .. MaxCrashes
           /\ deregs' \in 0 .. MaxDeregs /\ timeouts' \in 0 .. MaxTimeouts
           /\ store' = st \/ store' \in outcomes
BY MetaServerAssumption DEF TypeInv, TypeOK, Applied, Failed, counters

\* A registration that ends, one way or the other.
LEMMA EndTypes ==
    ASSUME TypeInv, NEW m \in Machines, req[m].node \in NodeIds, req[m].addr = m,
           AbortRegister(m) \/ FinishRegister(m)
    PROVE  /\ pc' \in [Callers -> Labels] /\ req' \in [Callers -> Requests] /\ RequestOK'
           /\ writeOrderMu' \in Callers \cup {Free}
           /\ registered' \in [Machines -> BOOLEAN]
           /\ unsettled' \subseteq Users \cup Grants \cup NodeIds
<1>1. pc' \in [Callers -> Labels] /\ req' \in [Callers -> Requests] /\ RequestOK'
  BY ReturnTypes, CallersDisjoint DEF AbortRegister, FinishRegister, Return
<1>2. unsettled' \subseteq Users \cup Grants \cup NodeIds
  BY RegisterScopeType DEF AbortRegister, FinishRegister, TypeInv, TypeOK
<1> QED BY <1>1, <1>2 DEF AbortRegister, FinishRegister, Return, TypeInv, TypeOK

\* Every deferred write of a registration.
LEMMA TypeRegisterWrite ==
    ASSUME TypeInv, NEW m \in Machines, NEW here \in RegisterWriting,
           NEW st \in Stores, NEW outcomes \in SUBSET Stores,
           NEW label \in RegisterWriting \cup {"done"},
           RegisterWrite(m, here, st, outcomes, label)
    PROVE  TypeInv'
<1>1. /\ req[m].node \in NodeIds /\ req[m].addr = m
      /\ req[m] \in Requests /\ m \in Callers
  BY CallersDisjoint DEF RegisterWrite, TypeInv, TypeOK, RequestOK, Fits, Registering
<1>2. /\ pc' \in [Callers -> Labels] /\ req' \in [Callers -> Requests] /\ RequestOK'
      /\ writeOrderMu' \in Callers \cup {Free}
      /\ registered' \in [Machines -> BOOLEAN]
      /\ unsettled' \subseteq Users \cup Grants \cup NodeIds
  <2>1. CASE AbortRegister(m) \/ FinishRegister(m)
    BY <1>1, <2>1, EndTypes
  <2>2. CASE Goto(m, label) /\ label # "done"
             /\ UNCHANGED <<req, writeOrderMu, registered, unsettled>>
    <3>1. Fits(m, label, req[m]) /\ label \in Labels
      BY <1>1, <2>2, CallersDisjoint DEF Fits, Labels, Registering, RegisterWriting, Dropping
    <3>2. pc' = [pc EXCEPT ![m] = label] /\ req' = [req EXCEPT ![m] = req[m]]
      BY <1>1, <2>2 DEF Goto, TypeInv, TypeOK
    <3>3. pc' \in [Callers -> Labels] /\ req' \in [Callers -> Requests] /\ RequestOK'
      BY <1>1, <3>1, <3>2, RequestStep
    <3> QED BY <2>2, <3>3 DEF TypeInv, TypeOK
  <2> QED BY <2>1, <2>2 DEF RegisterWrite, Proceed
<1>3. /\ faults' \in 0 .. MaxFaults /\ crashes' \in 0 .. MaxCrashes
      /\ deregs' \in 0 .. MaxDeregs /\ timeouts' \in 0 .. MaxTimeouts
      /\ store' \in Stores
  BY CounterTypes DEF RegisterWrite
<1> QED BY <1>2, <1>3 DEF RegisterWrite, TypeInv, TypeOK, memory

\* The allocation itself: the id it draws is one the table can hold.
LEMMA TypeAllocate ==
    ASSUME TypeInv, NEW m \in Machines, AllocateNode(m)
    PROVE  TypeInv'
<1> DEFINE r == req[m]
           st == UpsertFileServer(store, r.node, m)
<1>1. r.node \in NodeIds /\ r.addr = m /\ r \in Requests /\ m \in Callers /\ store \in Stores
  BY CallersDisjoint DEF AllocateNode, TypeInv, TypeOK, RequestOK, Fits, Registering
<1>2. /\ st \in Stores /\ st.nodes[r.node].num \in Numerics
      /\ UpsertFileServerPartial(store, r.node, m) \subseteq Stores
  BY <1>1, UpsertTypes DEF AllocateNode
<1>3. /\ pc' \in [Callers -> Labels] /\ req' \in [Callers -> Requests] /\ RequestOK'
      /\ writeOrderMu' \in Callers \cup {Free}
      /\ registered' \in [Machines -> BOOLEAN]
      /\ unsettled' \subseteq Users \cup Grants \cup NodeIds
  <2>1. CASE AbortRegister(m)
    BY <1>1, <2>1, EndTypes
  <2>2. CASE /\ Applied(st)
             /\ Local(m, [r EXCEPT !.num = store'.nodes[r.node].num])
             /\ Goto(m, "commit")
             /\ UNCHANGED <<writeOrderMu, registered, unsettled>>
    <3> DEFINE q == [r EXCEPT !.num = st.nodes[r.node].num]
    <3>1. pc' = [pc EXCEPT ![m] = "commit"] /\ req' = [req EXCEPT ![m] = q]
      BY <2>2 DEF Goto, Local, Applied
    <3>2. q \in Requests /\ Fits(m, "commit", q) /\ "commit" \in Labels
      <4> HIDE DEF st
      <4> QED BY <1>1, <1>2, CallersDisjoint DEF Requests, Fits, Labels, Dropping
    <3> HIDE DEF q
    <3>3. pc' \in [Callers -> Labels] /\ req' \in [Callers -> Requests] /\ RequestOK'
      BY <1>1, <3>1, <3>2, RequestStep
    <3> QED BY <2>2, <3>3 DEF TypeInv, TypeOK
  <2> QED BY <2>1, <2>2 DEF AllocateNode
<1>4. /\ faults' \in 0 .. MaxFaults /\ crashes' \in 0 .. MaxCrashes
      /\ deregs' \in 0 .. MaxDeregs /\ timeouts' \in 0 .. MaxTimeouts
      /\ store' \in Stores
  BY <1>2, CounterTypes DEF AllocateNode
<1> QED BY <1>3, <1>4 DEF AllocateNode, TypeInv, TypeOK, memory

\* The first write of RenameFileServer, which keeps the old document.
LEMMA TypeRenameUsers ==
    ASSUME TypeInv, NEW m \in Machines, RenameUsers(m)
    PROVE  TypeInv'
<1> DEFINE r == req[m]
           old == LegacyNodeID(m)
           st == RenameMoveUsers(store, old, r.node)
           q == [r EXCEPT !.oldDoc = store.nodes[old]]
<1>1. /\ r.node \in NodeIds /\ r.addr = m /\ r \in Requests /\ m \in Callers
      /\ store \in Stores /\ old \in NodeIds
  BY CallersDisjoint, NodeIdTypes
  DEF RenameUsers, TypeInv, TypeOK, RequestOK, Fits, Registering, RegisterWriting
<1> HIDE DEF old
<1>2. st \in Stores /\ RenameMoveUsersPartial(store, old, r.node) \subseteq Stores
  BY <1>1, StoreTypes
<1>3. q \in Requests /\ Fits(m, "renameRemove", q) /\ Fits(m, "upsert", r)
  BY <1>1, CallersDisjoint DEF Requests, Stores, Fits, Registering, RegisterWriting, Dropping
<1>4. "renameRemove" \in Labels /\ "upsert" \in Labels
  BY DEF Labels
<1> HIDE DEF st, q
<1>5. /\ pc' \in [Callers -> Labels] /\ req' \in [Callers -> Requests] /\ RequestOK'
      /\ writeOrderMu' \in Callers \cup {Free}
      /\ registered' \in [Machines -> BOOLEAN]
      /\ unsettled' \subseteq Users \cup Grants \cup NodeIds
  <2>1. CASE AbortRegister(m)
    BY <1>1, <2>1, EndTypes
  <2>2. CASE Goto(m, "upsert") /\ UNCHANGED <<req, writeOrderMu, registered, unsettled>>
    <3>1. pc' = [pc EXCEPT ![m] = "upsert"] /\ req' = [req EXCEPT ![m] = r]
      BY <1>1, <2>2 DEF Goto, TypeInv, TypeOK
    <3>2. pc' \in [Callers -> Labels] /\ req' \in [Callers -> Requests] /\ RequestOK'
      <4> HIDE DEF r
      <4> QED BY <1>1, <1>3, <1>4, <3>1, RequestStep
    <3> QED BY <2>2, <3>2 DEF TypeInv, TypeOK
  <2>3. CASE Local(m, q) /\ Goto(m, "renameRemove")
             /\ UNCHANGED <<writeOrderMu, registered, unsettled>>
    <3>1. pc' = [pc EXCEPT ![m] = "renameRemove"] /\ req' = [req EXCEPT ![m] = q]
      BY <2>3 DEF Goto, Local
    <3>2. pc' \in [Callers -> Labels] /\ req' \in [Callers -> Requests] /\ RequestOK'
      BY <1>1, <1>3, <1>4, <3>1, RequestStep
    <3> QED BY <2>3, <3>2 DEF TypeInv, TypeOK
  <2> QED BY <2>1, <2>2, <2>3 DEF RenameUsers, q, old
<1>6. /\ faults' \in 0 .. MaxFaults /\ crashes' \in 0 .. MaxCrashes
      /\ deregs' \in 0 .. MaxDeregs /\ timeouts' \in 0 .. MaxTimeouts
      /\ store' \in Stores
  <2>1. CASE UNCHANGED <<store, counters>>
    BY <1>1, <2>1 DEF counters, TypeInv, TypeOK
  <2>2. CASE Applied(st) \/ Failed(RenameMoveUsersPartial(store, old, r.node))
    BY <1>2, <2>2, CounterTypes
  <2> QED BY <2>1, <2>2 DEF RenameUsers, st, old
<1> QED BY <1>5, <1>6 DEF RenameUsers, TypeInv, TypeOK, memory

\* The deferred writes, one by one, are writes of well-formed stores.
LEMMA TypeDeferred ==
    ASSUME TypeInv, NEW m \in Machines,
           \/ RenameRemove(m) \/ RenameInsert(m) \/ PersistNode(m)
           \/ PurgeUsers(m) \/ PurgeShares(m)
           \/ PersistUsers(m) \/ ClearShares(m) \/ PersistShares(m)
    PROVE  TypeInv'
<1> DEFINE r == req[m]
<1>1. /\ r \in Requests /\ r.users \subseteq Users /\ r.purged \subseteq Users
      /\ r.grants \subseteq Grants /\ r.oldDoc \in NodeDocs \cup {None}
      /\ store \in Stores /\ LegacyNodeID(m) \in NodeIds
  BY CallersDisjoint, NodeIdTypes DEF TypeInv, TypeOK, Requests
<1>2. pc[m] \in RegisterWriting => r.node \in NodeIds
  BY CallersDisjoint DEF TypeInv, RequestOK, Fits, Registering
<1>3. /\ AfterPurge(r) \in RegisterWriting \cup {"done"}
      /\ AfterUpsert(r) \in RegisterWriting \cup {"done"}
      /\ AfterClear(r) \in RegisterWriting \cup {"done"}
  BY DEF AfterPurge, AfterUpsert, AfterClear, RegisterWriting
<1>4. CASE RenameRemove(m)
  <2> DEFINE st == RenameRemoveOld(store, LegacyNodeID(m))
  <2>1. st \in Stores
    BY <1>1, StoreTypes
  <2>2. RegisterWrite(m, "renameRemove", st, {store, st}, "renameInsert")
    BY <1>4 DEF RenameRemove
  <2> HIDE DEF st
  <2> QED BY <1>1, <2>1, <2>2, TypeRegisterWrite DEF RegisterWriting
<1>5. CASE RenameInsert(m)
  <2> DEFINE st == RenameInsertNew(store, r.oldDoc, r.node)
  <2>1. RegisterWrite(m, "renameInsert", st, {store, st}, "upsert")
    BY <1>5 DEF RenameInsert
  <2>2. st \in Stores
    BY <1>1, <1>2, <2>1, StoreTypes DEF RegisterWrite, RegisterWriting
  <2> HIDE DEF st
  <2> QED BY <1>1, <2>1, <2>2, TypeRegisterWrite DEF RegisterWriting
<1>6. CASE PersistNode(m)
  <2> DEFINE st == UpsertFileServer(store, r.node, m)
             outcomes == UpsertFileServerPartial(store, r.node, m)
  <2>1. RegisterWrite(m, "upsert", st, outcomes, AfterUpsert(r))
        /\ (Allocates(store, r.node) => store.next < MaxNum)
    BY <1>6 DEF PersistNode
  <2>2. r.node \in NodeIds
    BY <1>2, <2>1 DEF RegisterWrite, RegisterWriting
  <2>3. st \in Stores /\ outcomes \subseteq Stores
    BY <1>1, <2>1, <2>2, UpsertTypes
  <2> HIDE DEF st, outcomes
  <2> QED BY <1>3, <2>1, <2>3, TypeRegisterWrite DEF RegisterWriting
<1>7. CASE PurgeUsers(m)
  <2> DEFINE st == RemoveUsers(store, r.purged)
             outcomes == RemoveUsersPartial(store, r.purged)
  <2>1. RegisterWrite(m, "purgeUsers", st, outcomes, "purgeShares")
    BY <1>7 DEF PurgeUsers
  <2>2. st \in Stores /\ outcomes \subseteq Stores
    BY <1>1, StoreTypes
  <2> HIDE DEF st, outcomes
  <2> QED BY <2>1, <2>2, TypeRegisterWrite DEF RegisterWriting
<1>8. CASE PurgeShares(m)
  <2> DEFINE st == RemoveSharesInvolving(store, r.purged)
             outcomes == DropSharesPartial(store, Involving(r.purged))
  <2>1. RegisterWrite(m, "purgeShares", st, outcomes, AfterPurge(r))
    BY <1>8 DEF PurgeShares
  <2>2. Involving(r.purged) \subseteq Grants
    BY DEF Involving
  <2>3. st \in Stores /\ outcomes \subseteq Stores
    BY <1>1, <2>2, StoreTypes DEF RemoveSharesInvolving
  <2> HIDE DEF st, outcomes
  <2> QED BY <1>3, <2>1, <2>3, TypeRegisterWrite DEF RegisterWriting
<1>9. CASE PersistUsers(m)
  <2> DEFINE st == AssignUsers(store, r.node, r.users)
             outcomes == AssignUsersPartial(store, r.node, r.users)
  <2>1. RegisterWrite(m, "assign", st, outcomes, "clear")
    BY <1>9 DEF PersistUsers
  <2>2. r.node \in NodeIds
    BY <1>2, <2>1 DEF RegisterWrite, RegisterWriting
  <2>3. st \in Stores /\ outcomes \subseteq Stores
    BY <1>1, <2>2, StoreTypes
  <2> HIDE DEF st, outcomes
  <2> QED BY <2>1, <2>3, TypeRegisterWrite DEF RegisterWriting
<1>10. CASE ClearShares(m)
  <2> DEFINE st == RemoveSharesByOwner(store, r.users)
             outcomes == DropSharesPartial(store, OwnedBy(r.users))
  <2>1. RegisterWrite(m, "clear", st, outcomes, AfterClear(r))
    BY <1>10 DEF ClearShares
  <2>2. OwnedBy(r.users) \subseteq Grants
    BY DEF OwnedBy
  <2>3. st \in Stores /\ outcomes \subseteq Stores
    BY <1>1, <2>2, StoreTypes DEF RemoveSharesByOwner
  <2> HIDE DEF st, outcomes
  <2> QED BY <1>3, <2>1, <2>3, TypeRegisterWrite DEF RegisterWriting
<1>11. CASE PersistShares(m)
  <2> DEFINE st == AddShares(store, r.grants)
             outcomes == AddSharesPartial(store, r.grants)
  <2>1. RegisterWrite(m, "grant", st, outcomes, "done")
    BY <1>11 DEF PersistShares
  <2>2. st \in Stores /\ outcomes \subseteq Stores
    BY <1>1, StoreTypes
  <2> HIDE DEF st, outcomes
  <2> QED BY <2>1, <2>2, TypeRegisterWrite DEF RegisterWriting
<1> QED BY <1>4, <1>5, <1>6, <1>7, <1>8, <1>9, <1>10, <1>11

\* Every step of RegisterFileServer.
LEMMA TypeRegisterStep ==
    ASSUME TypeInv, NEW m \in Machines, RegisterStep(m)
    PROVE  TypeInv'
BY TypeRegisterKnown, TypeRegisterNew, TypeReject, TypeAllocate, TypeCommitNew,
   TypeRenameUsers, TypeDeferred DEF RegisterStep

\* Every step of Heartbeat.
LEMMA TypeHeartbeatStep ==
    ASSUME TypeInv, NEW m \in Machines, HeartbeatStep(m)
    PROVE  TypeInv'
<1>1. CASE Heartbeat(m)
  <2>1. PICK i \in Numerics :
          /\ Accepted(m, i)
          /\ fileservers' = [fileservers EXCEPT ![i].fresh = TRUE, ![i].status = "healthy"]
          /\ Local(m, [NoReq EXCEPT !.node = fileservers[i].node])
    BY <1>1 DEF Heartbeat
  <2> DEFINE q == [NoReq EXCEPT !.node = fileservers[i].node]
  <2>2. fileservers[i] \in NodeInfos
    BY <2>1 DEF Accepted, ByNodeID, TypeInv, TypeOK
  <2>3. [[fileservers[i] EXCEPT !.fresh = TRUE] EXCEPT !.status = "healthy"] \in NodeInfos
    BY <2>2 DEF NodeInfos, Statuses
  <2>4. fileservers' \in [Numerics -> NodeInfos \cup {None}]
    BY <2>1, <2>2, <2>3 DEF TypeInv, TypeOK
  <2>5. q \in Requests /\ Fits(m, "beat", q) /\ "beat" \in Labels /\ m \in Callers
    BY <2>2, CallersDisjoint
    DEF NoReq, Requests, NodeInfos, Fits, Labels, Registering, RegisterWriting, Dropping
  <2> HIDE DEF q
  <2>6. pc' = [pc EXCEPT ![m] = "beat"] /\ req' = [req EXCEPT ![m] = q]
    BY <1>1, <2>1 DEF Heartbeat, Goto, Local, q
  <2>7. pc' \in [Callers -> Labels] /\ req' \in [Callers -> Requests] /\ RequestOK'
    BY <2>5, <2>6, RequestStep
  <2> QED BY <1>1, <2>4, <2>7 DEF Heartbeat, TypeInv, TypeOK, machines, counters, history
<1>2. CASE HeartbeatRejected(m)
  BY <1>2 DEF HeartbeatRejected, TypeInv, TypeOK, RequestOK, Fits, memory, counters, history
<1>3. CASE PersistHeartbeat(m)
  <2> DEFINE st == RecordHeartbeat(store, req[m].node)
  <2>1. st \in Stores /\ store \in Stores
    BY <1>3, StoreTypes, CallersDisjoint
    DEF PersistHeartbeat, RecordHeartbeat, TypeInv, TypeOK, RequestOK, Fits, Statuses
  <2>2. /\ faults' \in 0 .. MaxFaults /\ crashes' \in 0 .. MaxCrashes
        /\ deregs' \in 0 .. MaxDeregs /\ timeouts' \in 0 .. MaxTimeouts
        /\ store' \in Stores
    <3> HIDE DEF st
    <3>1. Applied(st) \/ Failed({store, st})
      BY <1>3 DEF PersistHeartbeat, st
    <3> QED BY <2>1, <3>1, CounterTypes
  <2>3. pc' \in [Callers -> Labels] /\ req' \in [Callers -> Requests] /\ RequestOK'
    BY <1>3, ReturnTypes, CallersDisjoint DEF PersistHeartbeat
  <2> QED BY <1>3, <2>2, <2>3 DEF PersistHeartbeat, TypeInv, TypeOK, memory, machines, history
<1> QED BY <1>1, <1>2, <1>3 DEF HeartbeatStep

\* Every step of the heartbeat monitor.
LEMMA TypeMonitorStep ==
    ASSUME TypeInv, MonitorStep
    PROVE  TypeInv'
<1>1. CASE MarkStale
  <2> DEFINE silent == {i \in Numerics : fileservers[i] # None /\ ~isHealthy(fileservers[i])
                                           /\ fileservers[i].status # "stale"}
  <2>1. \A i \in silent : /\ fileservers[i] \in NodeInfos
                          /\ [fileservers[i] EXCEPT !.status = "stale"] \in NodeInfos
                          /\ fileservers[i].node \in NodeIds
    BY DEF TypeInv, TypeOK, NodeInfos, Statuses
  <2>2. /\ fileservers' = [i \in Numerics |->
                             IF i \in silent THEN [fileservers[i] EXCEPT !.status = "stale"]
                                             ELSE fileservers[i]]
        /\ stalePending' = {fileservers[i].node : i \in silent}
    BY <1>1 DEF MarkStale
  <2> HIDE DEF silent
  <2>3. fileservers' \in [Numerics -> NodeInfos \cup {None}] /\ stalePending' \subseteq NodeIds
    BY <2>1, <2>2 DEF TypeInv, TypeOK
  <2> QED
    BY <1>1, <2>3 DEF MarkStale, TypeInv, TypeOK, RequestOK, Fits, machines, counters, history
<1>2. ASSUME NEW n \in NodeIds, PersistStale(n) PROVE TypeInv'
  <2> DEFINE st == SetFileServerStatus(store, n, "stale")
  <2>1. st \in Stores /\ store \in Stores
    BY StoreTypes DEF SetFileServerStatus, TypeInv, TypeOK, Statuses
  <2>2. Applied(st) \/ Failed({store, st})
    BY <1>2 DEF PersistStale
  <2> HIDE DEF st
  <2>3. /\ faults' \in 0 .. MaxFaults /\ crashes' \in 0 .. MaxCrashes
        /\ deregs' \in 0 .. MaxDeregs /\ timeouts' \in 0 .. MaxTimeouts
        /\ store' \in Stores
    BY <2>1, <2>2, CounterTypes
  <2> QED
    BY <1>2, <2>3 DEF PersistStale, TypeInv, TypeOK, RequestOK, Fits, memory, machines, history
<1> QED BY <1>1, <1>2 DEF MonitorStep

\* A login: routed as known, placed, persisted or rolled back.
LEMMA TypeClientStep ==
    ASSUME TypeInv, NEW c \in Clients, ClientStep(c)
    PROVE  TypeInv'
<1> DEFINE u == UserOf[c]
<1>1. u \in Users /\ c \in Callers /\ req[c] \in Requests /\ store \in Stores
  BY MetaServerAssumption, CallersDisjoint DEF TypeInv, TypeOK
<1> HIDE DEF u
<1>2. CASE GetRootsKnown(c)
  <2>1. Fits(c, "in", req[c]) /\ "in" \in Labels
    BY DEF Fits, Labels, Registering, RegisterWriting, Dropping
  <2>2. pc' = [pc EXCEPT ![c] = "in"] /\ req' = [req EXCEPT ![c] = req[c]]
    BY <1>1, <1>2 DEF GetRootsKnown, Goto, TypeInv, TypeOK
  <2>3. pc' \in [Callers -> Labels] /\ req' \in [Callers -> Requests] /\ RequestOK'
    BY <1>1, <2>1, <2>2, RequestStep
  <2> QED BY <1>2, <2>3
      DEF GetRootsKnown, TypeInv, TypeOK, memory, machines, counters, history
<1>3. CASE GetRootsPlace(c)
  <2>1. PICK i \in LeastLoaded :
          /\ users' = [users EXCEPT ![u] = i]
          /\ fileservers' = [fileservers EXCEPT ![i].userCount = @ + 1]
          /\ Local(c, [NoReq EXCEPT !.num = i, !.node = fileservers[i].node])
    BY <1>3 DEF GetRootsPlace, u
  <2>2. i \in Numerics /\ fileservers[i] \in NodeInfos
    BY DEF LeastLoaded, isHealthy, TypeInv, TypeOK
  <2>3. [fileservers[i] EXCEPT !.userCount = @ + 1] \in NodeInfos
    BY <2>2 DEF NodeInfos
  <2>4. fileservers' \in [Numerics -> NodeInfos \cup {None}]
        /\ users' \in [Users -> Numerics \cup {None}]
    BY <2>1, <2>2, <2>3 DEF TypeInv, TypeOK
  <2> DEFINE q == [NoReq EXCEPT !.num = i, !.node = fileservers[i].node]
  <2>5. q \in Requests /\ Fits(c, "place", q) /\ "place" \in Labels
    BY <2>2, CallersDisjoint
    DEF NoReq, Requests, NodeInfos, Fits, Labels, Registering, RegisterWriting, Dropping
  <2> HIDE DEF q
  <2>6. pc' = [pc EXCEPT ![c] = "place"] /\ req' = [req EXCEPT ![c] = q]
    BY <1>3, <2>1 DEF GetRootsPlace, Goto, Local, q
  <2>7. pc' \in [Callers -> Labels] /\ req' \in [Callers -> Requests] /\ RequestOK'
    BY <1>1, <2>5, <2>6, RequestStep
  <2>8. shared' \subseteq Grants /\ writeOrderMu' \in Callers
    BY <1>1, <1>3 DEF GetRootsPlace, Lock, TypeInv, TypeOK
  <2> QED BY <1>3, <2>4, <2>7, <2>8
      DEF GetRootsPlace, TypeInv, TypeOK, machines, counters, history
<1>4. CASE PersistPlacement(c)
  <2> DEFINE st == AssignUser(store, req[c].node, u)
  <2>1. req[c].node \in NodeIds /\ req[c].num \in Numerics
    BY <1>1, <1>4 DEF PersistPlacement, TypeInv, RequestOK, Fits
  <2>2. st \in Stores
    BY <1>1, <2>1, StoreTypes DEF AssignUser
  <2>3. /\ Applied(st) \/ Failed({store, st})
        /\ UNCHANGED memory \/ RollBackPlacement(c)
        /\ \/ Goto(c, "in") /\ Local(c, NoReq)
           \/ Goto(c, "idle") /\ Local(c, NoReq)
        /\ writeOrderMu' = Free
        /\ unsettled' = unsettled \ {u} \/ unsettled' = unsettled \cup {u}
        /\ UNCHANGED <<stalePending, machines, released, revoked>>
    BY <1>4 DEF PersistPlacement, Return, u
  <2> HIDE DEF st
  <2>4. /\ faults' \in 0 .. MaxFaults /\ crashes' \in 0 .. MaxCrashes
        /\ deregs' \in 0 .. MaxDeregs /\ timeouts' \in 0 .. MaxTimeouts
        /\ store' \in Stores
    BY <1>1, <2>2, <2>3, CounterTypes
  <2>5. pc' \in [Callers -> Labels] /\ req' \in [Callers -> Requests] /\ RequestOK'
    BY <1>1, <2>3, ReturnTypes
  <2>6. /\ fileservers' \in [Numerics -> NodeInfos \cup {None}]
        /\ users' \in [Users -> Numerics \cup {None}]
        /\ shared' \subseteq Grants
        /\ orphanedUsers' \in [Users -> NodeIds \cup {None}]
    <3>1. CASE UNCHANGED memory
      BY <3>1 DEF memory, TypeInv, TypeOK
    <3>2. CASE RollBackPlacement(c)
      <4> DEFINE i == req[c].num
      <4>1. CASE fileservers[i] # None /\ fileservers[i].userCount > 0
        <5>1. fileservers[i] \in NodeInfos
          BY <2>1, <4>1 DEF TypeInv, TypeOK
        <5>2. [fileservers[i] EXCEPT !.userCount = @ - 1] \in NodeInfos
          BY <4>1, <5>1 DEF NodeInfos
        <5>3. fileservers' = [fileservers EXCEPT ![i].userCount = @ - 1]
          BY <3>2, <4>1 DEF RollBackPlacement
        <5>4. fileservers' \in [Numerics -> NodeInfos \cup {None}]
          BY <2>1, <5>2, <5>3 DEF TypeInv, TypeOK
        <5> QED BY <3>2, <5>4 DEF RollBackPlacement, TypeInv, TypeOK
      <4>2. CASE ~(fileservers[i] # None /\ fileservers[i].userCount > 0)
        BY <3>2, <4>2 DEF RollBackPlacement, TypeInv, TypeOK
      <4> QED BY <4>1, <4>2
    <3> QED BY <2>3, <3>1, <3>2
  <2>7. unsettled' \subseteq Users \cup Grants \cup NodeIds
    BY <1>1, <2>3 DEF TypeInv, TypeOK
  <2> QED BY <2>3, <2>4, <2>5, <2>6, <2>7 DEF TypeInv, TypeOK, machines
<1>5. CASE Navigate(c)
  <2> DEFINE i == users[u]
             q == [NoReq EXCEPT !.addr = fileservers[i].addr]
  <2>1. i \in Numerics /\ fileservers[i] \in NodeInfos
    BY <1>1, <1>5 DEF Navigate, isHealthy, TypeInv, TypeOK, u
  <2>2. q \in Requests /\ Fits(c, "routed", q) /\ "routed" \in Labels
    BY <2>1 DEF NoReq, Requests, NodeInfos, Fits, Labels, Registering, RegisterWriting, Dropping
  <2>3. pc' = [pc EXCEPT ![c] = "routed"] /\ req' = [req EXCEPT ![c] = q]
    BY <1>5 DEF Navigate, Goto, Local, u
  <2> HIDE DEF q
  <2>4. pc' \in [Callers -> Labels] /\ req' \in [Callers -> Requests] /\ RequestOK'
    BY <1>1, <2>2, <2>3, RequestStep
  <2> QED BY <1>5, <2>4 DEF Navigate, TypeInv, TypeOK, memory, machines, counters, history
<1>6. CASE Connect(c)
  <2>1. pc' \in [Callers -> Labels] /\ req' \in [Callers -> Requests] /\ RequestOK'
    BY <1>1, <1>6, ReturnTypes DEF Connect
  <2>2. disk' \in [FsIds -> SUBSET Users]
    BY <1>1, <1>6 DEF Connect, TypeInv, TypeOK, u
  <2> QED BY <1>6, <2>1, <2>2 DEF Connect, TypeInv, TypeOK, memory, counters, history
<1> QED BY <1>2, <1>3, <1>4, <1>5, <1>6 DEF ClientStep

\* A handler that takes writeOrderMu with one grant in hand.
LEMMA ShareRequest ==
    ASSUME TypeInv, NEW s \in Sharers, NEW label \in {"addShare", "removeShare"},
           NEW g \in Grants, Goto(s, label), Local(s, [NoReq EXCEPT !.grants = {g}]), Lock(s)
    PROVE  /\ pc' \in [Callers -> Labels] /\ req' \in [Callers -> Requests] /\ RequestOK'
           /\ writeOrderMu' \in Callers
<1> DEFINE q == [NoReq EXCEPT !.grants = {g}]
<1>1. q \in Requests /\ Fits(s, label, q)
  BY CallersDisjoint DEF NoReq, Requests, Fits, Registering, RegisterWriting, Dropping
<1>2. label \in Labels /\ s \in Callers
  BY CallersDisjoint DEF Labels
<1> HIDE DEF q
<1>3. pc' = [pc EXCEPT ![s] = label] /\ req' = [req EXCEPT ![s] = q]
  BY DEF Goto, Local, q
<1> QED BY <1>1, <1>2, <1>3, RequestStep DEF Lock

\* The grant a publication or a revocation is about.
LEMMA OneGrant ==
    ASSUME TypeInv, NEW s \in Sharers, pc[s] \in {"addShare", "removeShare"}
    PROVE  \E g \in Grants : req[s].grants = {g} /\ (CHOOSE x \in req[s].grants : TRUE) = g
<1>1. PICK g \in Grants : req[s].grants = {g}
  BY CallersDisjoint DEF TypeInv, RequestOK, Fits
<1>2. (CHOOSE x \in {g} : TRUE) = g
  OBVIOUS
<1> QED BY <1>1, <1>2

\* Publishing and revoking grants.
LEMMA TypeShareStep ==
    ASSUME TypeInv, NEW s \in Sharers, ShareStep(s)
    PROVE  TypeInv'
<1>1. CASE RootShare(s)
  <2>1. PICK g \in Grants : /\ shared' = shared \cup {g}
                            /\ Local(s, [NoReq EXCEPT !.grants = {g}])
                            /\ revoked' = revoked \ {g}
    BY <1>1 DEF RootShare
  <2>2. /\ pc' \in [Callers -> Labels] /\ req' \in [Callers -> Requests] /\ RequestOK'
        /\ writeOrderMu' \in Callers
    BY <1>1, <2>1, ShareRequest DEF RootShare
  <2> QED BY <1>1, <2>1, <2>2 DEF RootShare, TypeInv, TypeOK, machines, counters
<1>2. CASE RootUnshare(s)
  <2>1. PICK g \in Grants : /\ shared' = shared \ {g}
                            /\ Local(s, [NoReq EXCEPT !.grants = {g}])
    BY <1>2 DEF RootUnshare
  <2>2. /\ pc' \in [Callers -> Labels] /\ req' \in [Callers -> Requests] /\ RequestOK'
        /\ writeOrderMu' \in Callers
    BY <1>2, <2>1, ShareRequest DEF RootUnshare
  <2> QED BY <1>2, <2>1, <2>2 DEF RootUnshare, TypeInv, TypeOK, machines, counters, history
<1>3. CASE PersistShare(s)
  <2>1. PICK g \in Grants : (CHOOSE x \in req[s].grants : TRUE) = g
    BY <1>3, OneGrant DEF PersistShare
  <2> DEFINE st == AddShare(store, g)
  <2>2. st \in Stores /\ store \in Stores
    BY StoreTypes DEF AddShare, TypeInv, TypeOK
  <2>3. /\ Applied(st) \/ Failed({store, st})
        /\ shared' = shared \/ shared' = shared \ {g}
        /\ unsettled' = unsettled \ {g} \/ unsettled' = unsettled \cup {g}
    BY <1>3, <2>1 DEF PersistShare
  <2> HIDE DEF st
  <2>4. /\ faults' \in 0 .. MaxFaults /\ crashes' \in 0 .. MaxCrashes
        /\ deregs' \in 0 .. MaxDeregs /\ timeouts' \in 0 .. MaxTimeouts
        /\ store' \in Stores
    BY <2>2, <2>3, CounterTypes
  <2>5. pc' \in [Callers -> Labels] /\ req' \in [Callers -> Requests] /\ RequestOK'
        /\ writeOrderMu' = Free
    BY <1>3, ReturnTypes, CallersDisjoint DEF PersistShare, Return
  <2>6. shared' \subseteq Grants /\ unsettled' \subseteq Users \cup Grants \cup NodeIds
    BY <2>3 DEF TypeInv, TypeOK
  <2> QED BY <1>3, <2>4, <2>5, <2>6 DEF PersistShare, TypeInv, TypeOK, machines
<1>4. CASE PersistUnshare(s)
  <2>1. PICK g \in Grants : (CHOOSE x \in req[s].grants : TRUE) = g
    BY <1>4, OneGrant DEF PersistUnshare
  <2> DEFINE st == RemoveShare(store, g)
  <2>2. st \in Stores /\ store \in Stores
    <3>1. {g} \in SUBSET Grants
      OBVIOUS
    <3> QED BY <3>1, StoreTypes DEF RemoveShare, TypeInv, TypeOK
  <2>3. /\ Applied(st) \/ Failed({store, st})
        /\ revoked' = revoked \/ revoked' = revoked \cup {g}
        /\ unsettled' = unsettled \ {g} \/ unsettled' = unsettled \cup {g}
    BY <1>4, <2>1 DEF PersistUnshare
  <2> HIDE DEF st
  <2>4. /\ faults' \in 0 .. MaxFaults /\ crashes' \in 0 .. MaxCrashes
        /\ deregs' \in 0 .. MaxDeregs /\ timeouts' \in 0 .. MaxTimeouts
        /\ store' \in Stores
    BY <2>2, <2>3, CounterTypes
  <2>5. pc' \in [Callers -> Labels] /\ req' \in [Callers -> Requests] /\ RequestOK'
        /\ writeOrderMu' = Free
    BY <1>4, ReturnTypes, CallersDisjoint DEF PersistUnshare, Return
  <2>6. revoked' \subseteq Grants /\ unsettled' \subseteq Users \cup Grants \cup NodeIds
    BY <2>3 DEF TypeInv, TypeOK
  <2> QED BY <1>4, <2>4, <2>5, <2>6 DEF PersistUnshare, TypeInv, TypeOK, memory, machines
<1> QED BY <1>1, <1>2, <1>3, <1>4 DEF ShareStep

\* Every removal of a deregistration: applied, or failed and rolled back.
LEMMA TypeDeregWrite ==
    ASSUME TypeInv, NEW here \in Dropping, NEW st \in Stores, NEW outcomes \in SUBSET Stores,
           NEW label \in {"dropShares", "dropNode", "done"},
           DeregWrite(here, st, outcomes, label)
    PROVE  TypeInv'
<1> DEFINE r == req[Admin]
<1>1. /\ r.node \in NodeIds /\ r.prev \in Snapshots /\ r \in Requests /\ Admin \in Callers
      /\ r.users \subseteq Users
  BY CallersDisjoint DEF DeregWrite, TypeInv, TypeOK, RequestOK, Fits, Requests
<1>2. /\ faults' \in 0 .. MaxFaults /\ crashes' \in 0 .. MaxCrashes
      /\ deregs' \in 0 .. MaxDeregs /\ timeouts' \in 0 .. MaxTimeouts
      /\ store' \in Stores
  BY CounterTypes DEF DeregWrite
<1>3. DeregScope(r) \subseteq Users \cup Grants \cup NodeIds
  BY <1>1 DEF DeregScope, Involving
<1>4. /\ pc' \in [Callers -> Labels] /\ req' \in [Callers -> Requests] /\ RequestOK'
      /\ writeOrderMu' \in Callers \cup {Free}
      /\ unsettled' \subseteq Users \cup Grants \cup NodeIds
  <2>1. CASE Return(Admin, "idle") /\ (\/ unsettled' = unsettled \ DeregScope(r)
                                       \/ unsettled' = unsettled \cup DeregScope(r))
    <3>1. pc' \in [Callers -> Labels] /\ req' \in [Callers -> Requests] /\ RequestOK'
      BY <1>1, <2>1, ReturnTypes DEF Return
    <3> QED BY <1>3, <2>1, <3>1 DEF Return, TypeInv, TypeOK
  <2>2. CASE label # "done" /\ Goto(Admin, label) /\ UNCHANGED <<req, writeOrderMu, unsettled>>
    <3>1. Fits(Admin, label, r) /\ label \in Labels
      BY <1>1, <2>2, CallersDisjoint DEF Fits, Labels, Dropping
    <3>2. pc' = [pc EXCEPT ![Admin] = label] /\ req' = [req EXCEPT ![Admin] = r]
      BY <1>1, <2>2 DEF Goto, TypeInv, TypeOK
    <3> HIDE DEF r
    <3>3. pc' \in [Callers -> Labels] /\ req' \in [Callers -> Requests] /\ RequestOK'
      BY <1>1, <3>1, <3>2, RequestStep
    <3> QED BY <2>2, <3>3 DEF TypeInv, TypeOK
  <2> QED BY <2>1, <2>2 DEF DeregWrite
<1>5. /\ fileservers' \in [Numerics -> NodeInfos \cup {None}]
      /\ users' \in [Users -> Numerics \cup {None}]
      /\ shared' \subseteq Grants
      /\ orphanedUsers' \in [Users -> NodeIds \cup {None}]
  <2>1. CASE UNCHANGED memory
    BY <2>1 DEF memory, TypeInv, TypeOK
  <2>2. CASE RollBackDeregister
    BY <1>1, <2>2 DEF RollBackDeregister, Snapshots, TypeInv, TypeOK
  <2> QED BY <2>1, <2>2 DEF DeregWrite
<1> QED BY <1>2, <1>4, <1>5 DEF DeregWrite, TypeInv, TypeOK, machines

\* Removing a node.
LEMMA TypeDeregisterStep ==
    ASSUME TypeInv, DeregisterStep
    PROVE  TypeInv'
<1>1. store \in Stores /\ req[Admin] \in Requests /\ req[Admin].users \subseteq Users
      /\ Admin \in Callers
  BY CallersDisjoint DEF TypeInv, TypeOK, Requests
<1>2. CASE DeregisterFileServer
  <2>1. PICK t \in DeregTargets :
         LET routed == IF t.num = None THEN {} ELSE UsersOn(t.num)
             removed == routed \cup OrphansOf(t.node) IN
          /\ Found(t)
          /\ Local(Admin, [NoReq EXCEPT
                !.node = t.node, !.num = t.num, !.users = removed,
                !.prev = [info |-> IF t.num = None THEN None ELSE fileservers[t.num],
                          users |-> users, orphanedUsers |-> orphanedUsers,
                          shared |-> shared]])
          /\ users' = [u \in Users |-> IF u \in removed THEN None ELSE users[u]]
          /\ orphanedUsers' = [u \in Users |-> IF u \in removed THEN None
                                               ELSE orphanedUsers[u]]
          /\ shared' = shared \ Involving(removed)
          /\ fileservers' = IF t.num = None THEN fileservers
                            ELSE [fileservers EXCEPT ![t.num] = None]
          /\ Goto(Admin, IF removed # {} THEN "dropUsers" ELSE "dropNode")
          /\ released' = released \cup removed
    BY <1>2 DEF DeregisterFileServer
  <2> DEFINE removed == (IF t.num = None THEN {} ELSE UsersOn(t.num)) \cup OrphansOf(t.node)
             info == IF t.num = None THEN None ELSE fileservers[t.num]
             prev == [info |-> info, users |-> users, orphanedUsers |-> orphanedUsers,
                      shared |-> shared]
             q == [NoReq EXCEPT !.node = t.node, !.num = t.num, !.users = removed, !.prev = prev]
             label == IF removed # {} THEN "dropUsers" ELSE "dropNode"
  <2>2. t.node \in NodeIds /\ t.num \in Numerics \cup {None} /\ removed \subseteq Users
    BY DEF DeregTargets, UsersOn, OrphansOf
  <2>3. prev \in Snapshots
    BY <2>2 DEF Snapshots, TypeInv, TypeOK
  <2>4. /\ req' = [req EXCEPT ![Admin] = q] /\ pc' = [pc EXCEPT ![Admin] = label]
        /\ users' = [u \in Users |-> IF u \in removed THEN None ELSE users[u]]
        /\ orphanedUsers' = [u \in Users |-> IF u \in removed THEN None ELSE orphanedUsers[u]]
        /\ shared' = shared \ Involving(removed)
        /\ fileservers' = IF t.num = None THEN fileservers
                          ELSE [fileservers EXCEPT ![t.num] = None]
        /\ released' = released \cup removed
    BY <2>1 DEF Local, Goto
  <2> HIDE DEF removed, prev
  <2>5. q \in Requests /\ Fits(Admin, label, q) /\ label \in Labels
    BY <2>2, <2>3, CallersDisjoint DEF NoReq, Requests, Fits, Labels, Dropping
  <2> HIDE DEF q, label
  <2>6. pc' \in [Callers -> Labels] /\ req' \in [Callers -> Requests] /\ RequestOK'
    BY <1>1, <2>4, <2>5, RequestStep
  <2>7. /\ fileservers' \in [Numerics -> NodeInfos \cup {None}]
        /\ users' \in [Users -> Numerics \cup {None}]
        /\ shared' \subseteq Grants
        /\ orphanedUsers' \in [Users -> NodeIds \cup {None}]
        /\ released' \subseteq Users
    BY <2>2, <2>4 DEF TypeInv, TypeOK
  <2>8. deregs' \in 0 .. MaxDeregs /\ writeOrderMu' \in Callers
    BY <1>1, <1>2, MetaServerAssumption DEF DeregisterFileServer, Lock, TypeInv, TypeOK
  <2> QED BY <1>2, <2>6, <2>7, <2>8 DEF DeregisterFileServer, TypeInv, TypeOK, machines
<1>3. CASE DropUsers
  <2> DEFINE st == RemoveUsers(store, req[Admin].users)
             outcomes == RemoveUsersPartial(store, req[Admin].users)
  <2>1. DeregWrite("dropUsers", st, outcomes, "dropShares")
    BY <1>3 DEF DropUsers
  <2>2. st \in Stores /\ outcomes \subseteq Stores
    BY <1>1, StoreTypes
  <2> HIDE DEF st, outcomes
  <2> QED BY <2>1, <2>2, TypeDeregWrite DEF Dropping
<1>4. CASE DropShares
  <2> DEFINE st == RemoveSharesInvolving(store, req[Admin].users)
             outcomes == DropSharesPartial(store, Involving(req[Admin].users))
             label == IF req[Admin].num # None THEN "dropNode" ELSE "done"
  <2>1. DeregWrite("dropShares", st, outcomes, label)
    BY <1>4 DEF DropShares
  <2>2. Involving(req[Admin].users) \subseteq Grants
    BY DEF Involving
  <2>3. st \in Stores /\ outcomes \subseteq Stores
    BY <1>1, <2>2, StoreTypes DEF RemoveSharesInvolving
  <2>4. label \in {"dropNode", "done"}
    OBVIOUS
  <2> HIDE DEF st, outcomes, label
  <2> QED BY <2>1, <2>3, <2>4, TypeDeregWrite DEF Dropping
<1>5. CASE DropNode
  <2> DEFINE st == RemoveFileServer(store, req[Admin].node)
  <2>1. DeregWrite("dropNode", st, {store, st}, "done")
    BY <1>5 DEF DropNode
  <2>2. st \in Stores
    BY <1>1, <2>1, StoreTypes DEF DeregWrite, TypeInv, RequestOK, Fits, Dropping
  <2> HIDE DEF st
  <2> QED BY <1>1, <2>1, <2>2, TypeDeregWrite DEF Dropping
<1> QED BY <1>2, <1>3, <1>4, <1>5 DEF DeregisterStep

\* A timed-out heartbeat and a restarted fileserver.
LEMMA TypeEnvironment ==
    ASSUME TypeInv,
           (\E i \in Numerics : Expire(i)) \/ (\E m \in Machines : RestartFileServer(m))
    PROVE  TypeInv'
<1>1. ASSUME NEW i \in Numerics, Expire(i) PROVE TypeInv'
  <2>1. fileservers[i] \in NodeInfos
    BY <1>1 DEF Expire, TypeInv, TypeOK
  <2>2. [fileservers[i] EXCEPT !.fresh = FALSE] \in NodeInfos
    BY <2>1 DEF NodeInfos
  <2>3. fileservers' \in [Numerics -> NodeInfos \cup {None}] /\ timeouts' \in 0 .. MaxTimeouts
    BY <1>1, <2>2, MetaServerAssumption DEF Expire, TypeInv, TypeOK
  <2> QED BY <1>1, <2>3 DEF Expire, TypeInv, TypeOK, RequestOK, Fits, machines, history
<1>2. ASSUME NEW m \in Machines, RestartFileServer(m) PROVE TypeInv'
  BY <1>2 DEF RestartFileServer, TypeInv, TypeOK, RequestOK, Fits, memory, counters, history
<1> QED BY <1>1, <1>2

\* What hydration builds from a well-formed store.
LEMMA HydrateTypes ==
    ASSUME TypeInv, NEW F, Hydrate(F)
    PROVE  /\ fileservers' \in [Numerics -> NodeInfos \cup {None}]
           /\ users' \in [Users -> Numerics \cup {None}]
           /\ shared' \subseteq Grants
           /\ orphanedUsers' \in [Users -> NodeIds \cup {None}]
<1>1. store \in Stores
  BY DEF TypeInv, TypeOK
<1>2. ASSUME NEW i \in Numerics PROVE fileservers'[i] \in NodeInfos \cup {None}
  <2>1. CASE StoredAs(i) = {}
    BY <2>1 DEF Hydrate
  <2>2. CASE StoredAs(i) # {}
    <3> DEFINE n == CHOOSE x \in StoredAs(i) : TRUE
               load == Cardinality({u \in Users : store.users[u] = n})
    <3>1. n \in NodeIds /\ store.nodes[n] \in NodeDocs
      BY <1>1, <2>2 DEF StoredAs, Stores
    <3>2. load \in Nat
      <4>1. {u \in Users : store.users[u] = n} \subseteq Users
        OBVIOUS
      <4>2. IsFiniteSet({u \in Users : store.users[u] = n})
        BY <4>1, FS_Subset, MetaServerAssumption
      <4> QED BY <4>2, FS_CardinalityType
    <3>3. fileservers'[i] = [node |-> n, addr |-> store.nodes[n].addr, fresh |-> n \in F,
                             status |-> store.nodes[n].status, userCount |-> load]
      BY <2>2 DEF Hydrate
    <3> HIDE DEF n, load
    <3>4. (n \in F) \in BOOLEAN
      OBVIOUS
    <3> QED BY <3>1, <3>2, <3>3, <3>4 DEF NodeInfos, NodeDocs
  <2> QED BY <2>1, <2>2
<1>3. fileservers' \in [Numerics -> NodeInfos \cup {None}]
  BY <1>2 DEF Hydrate
<1>4. ASSUME NEW u \in Users
      PROVE  /\ users'[u] \in Numerics \cup {None}
             /\ orphanedUsers'[u] \in NodeIds \cup {None}
  BY <1>1 DEF Hydrate, Stores, NodeDocs
<1>5. /\ users' \in [Users -> Numerics \cup {None}]
      /\ orphanedUsers' \in [Users -> NodeIds \cup {None}]
  BY <1>4 DEF Hydrate
<1> QED BY <1>1, <1>3, <1>5 DEF Hydrate, Stores

\* A crash of the metaserver, and its restart.
LEMMA TypeCrash ==
    ASSUME TypeInv, Crash
    PROVE  TypeInv'
<1>1. PICK old \in {{}} \cup (IF timeouts < MaxTimeouts THEN SUBSET NodeIds ELSE {}) :
        Hydrate(NodeIds \ old) /\ timeouts' = IF old = {} THEN timeouts ELSE timeouts + 1
  BY DEF Crash
<1>2. /\ fileservers' \in [Numerics -> NodeInfos \cup {None}]
      /\ users' \in [Users -> Numerics \cup {None}]
      /\ shared' \subseteq Grants
      /\ orphanedUsers' \in [Users -> NodeIds \cup {None}]
  BY <1>1, HydrateTypes
<1>3. timeouts' \in 0 .. MaxTimeouts /\ crashes' \in 0 .. MaxCrashes
  BY <1>1, MetaServerAssumption DEF Crash, TypeInv, TypeOK
<1>4. pc' \in [Callers -> Labels] /\ req' \in [Callers -> Requests]
  BY NoReqType DEF Crash, TypeInv, TypeOK, Labels
<1>5. ASSUME NEW a \in Callers PROVE Fits(a, pc'[a], req'[a])
  <2>1. pc'[a] \in {"idle", "in", "routed"}
    BY DEF Crash, TypeInv, TypeOK
  <2> QED BY <2>1 DEF Fits, Registering, RegisterWriting, Dropping
<1>6. RequestOK'
  BY <1>5 DEF RequestOK, Fits
<1>7. registered' \in [Machines -> BOOLEAN]
  BY DEF Crash, TypeInv, TypeOK
<1> QED BY <1>2, <1>3, <1>4, <1>6, <1>7 DEF Crash, TypeInv, TypeOK

\* A step that changes nothing.
LEMMA TypeStutter ==
    ASSUME TypeInv, UNCHANGED vars
    PROVE  TypeInv'
BY DEF vars, memory, machines, counters, history, TypeInv, TypeOK, RequestOK, Fits

\* Every step of the system keeps the type invariant and the shape of requests.
LEMMA TypeStep ==
    ASSUME TypeInv, [Next]_vars
    PROVE  TypeInv'
<1>1. ASSUME NEW m \in Machines, SendRegister(m) \/ RegisterStep(m) \/ HeartbeatStep(m)
      PROVE  TypeInv'
  BY <1>1, TypeSendRegister, TypeRegisterStep, TypeHeartbeatStep
<1>2. ASSUME NEW m \in Machines, RestartFileServer(m) PROVE TypeInv'
  BY <1>2, TypeEnvironment
<1>3. ASSUME NEW c \in Clients, ClientStep(c) PROVE TypeInv'
  BY <1>3, TypeClientStep
<1>4. ASSUME NEW s \in Sharers, ShareStep(s) PROVE TypeInv'
  BY <1>4, TypeShareStep
<1>5. CASE DeregisterStep
  BY <1>5, TypeDeregisterStep
<1>6. CASE MonitorStep
  BY <1>6, TypeMonitorStep
<1>7. ASSUME NEW i \in Numerics, Expire(i) PROVE TypeInv'
  BY <1>7, TypeEnvironment
<1>8. CASE Crash
  BY <1>8, TypeCrash
<1>9. CASE UNCHANGED vars
  BY <1>9, TypeStutter
<1> QED BY <1>1, <1>2, <1>3, <1>4, <1>5, <1>6, <1>7, <1>8, <1>9 DEF Next

\* The type invariant, for any number of users, nodes, sessions and failures:
\* every critical section, store write, rollback and restart of the metaserver
\* leaves memory, store and requests well formed.
THEOREM TypeCorrect == Spec => []TypeOK
<1>1. Init => TypeInv
  BY TypeInit
<1>2. TypeInv /\ [Next]_vars => TypeInv'
  BY TypeStep
<1>3. TypeInv => TypeOK
  BY DEF TypeInv
<1> QED BY <1>1, <1>2, <1>3, PTL DEF Spec
-----------------------------------------------------------------------------
(* Revocation is final *)

\* The points of a handler at which it holds writeOrderMu.
Holding == Registering \cup Dropping \cup {"place", "addShare", "removeShare"}

\* What the holder carries with it never brings a revoked grant back: the
\* grants it is about to store, and the snapshot it may roll back to, hold none,
\* and memory no longer has the grant it is about to revoke.
Harmless(label, r) ==
    /\ label \in RegisterWriting \cup {"addShare"} => r.grants \cap revoked = {}
    /\ label \in Dropping => r.prev.shared \cap revoked = {}
    /\ label = "removeShare" => r.grants \cap shared = {}

\* At most one caller is inside a structural request.
HolderOK == \A a \in Callers :
    pc[a] \in Holding => writeOrderMu = a /\ Harmless(pc[a], req[a])

RevocationInv == TypeInv /\ HolderOK /\ RevocationIsFinal

\* Steps outside structural requests: nobody enters one, and neither the
\* visibility index nor the stored shares change.
LEMMA RevocationUnlocked ==
    ASSUME RevocationInv, TypeInv',
           shared' = shared, store'.shares = store.shares, revoked' = revoked,
           writeOrderMu' = writeOrderMu,
           \A b \in Callers : pc'[b] \in Holding => pc'[b] = pc[b] /\ req'[b] = req[b]
    PROVE  RevocationInv'
<1>1. HolderOK'
  BY DEF HolderOK, Harmless, RevocationInv
<1> QED BY <1>1 DEF RevocationInv, RevocationIsFinal

\* Steps of a structural request, by the caller that holds or takes the lock.
LEMMA RevocationLocked ==
    ASSUME RevocationInv, TypeInv', NEW a \in Callers,
           writeOrderMu = a \/ writeOrderMu = Free,
           \A b \in Callers \ {a} : pc'[b] = pc[b] /\ req'[b] = req[b],
           pc'[a] \in Holding => writeOrderMu' = a /\ Harmless(pc[a], req[a])',
           RevocationIsFinal'
    PROVE  RevocationInv'
<1>1. \A b \in Callers \ {a} : pc[b] \notin Holding
  BY CallersAssumption DEF RevocationInv, HolderOK
<1>2. HolderOK'
  BY <1>1 DEF HolderOK
<1> QED BY <1>2 DEF RevocationInv

\* Moving one caller leaves the others where they are.
LEMMA OthersStay ==
    ASSUME TypeInv, NEW a \in Callers, NEW label, NEW r, Goto(a, label), Local(a, r)
    PROVE  /\ pc'[a] = label /\ req'[a] = r
           /\ \A b \in Callers \ {a} : pc'[b] = pc[b] /\ req'[b] = req[b]
BY DEF Goto, Local, TypeInv, TypeOK

\* A store call that does not concern shares.
LEMMA SharesUntouched ==
    ASSUME NEW st \in Stores
    PROVE  /\ \A n \in NodeIds : RemoveFileServer(st, n).shares = st.shares
           /\ \A n \in NodeIds : RenameRemoveOld(st, n).shares = st.shares
           /\ \A n \in NodeIds : \A doc : RenameInsertNew(st, doc, n).shares = st.shares
           /\ \A old, n \in NodeIds : RenameMoveUsers(st, old, n).shares = st.shares
           /\ \A old, n \in NodeIds : \A x \in RenameMoveUsersPartial(st, old, n) :
                x.shares = st.shares
           /\ \A n \in NodeIds, s \in Statuses : SetStatus(st, n, s).shares = st.shares
           /\ \A n \in NodeIds, U \in SUBSET Users :
                /\ AssignUsers(st, n, U).shares = st.shares
                /\ \A x \in AssignUsersPartial(st, n, U) : x.shares = st.shares
           /\ \A U \in SUBSET Users :
                /\ RemoveUsers(st, U).shares = st.shares
                /\ \A x \in RemoveUsersPartial(st, U) : x.shares = st.shares
           /\ \A n \in NodeIds, addr \in Machines :
                /\ UpsertFileServer(st, n, addr).shares = st.shares
                /\ \A x \in UpsertFileServerPartial(st, n, addr) : x.shares = st.shares
BY DEF Stores, RemoveFileServer, RenameRemoveOld, RenameInsertNew, RenameMoveUsers,
       RenameMoveUsersPartial, SetStatus, AssignUsers, AssignUsersPartial, RemoveUsers,
       RemoveUsersPartial, UpsertFileServer, UpsertFileServerPartial

\* A store call that concerns shares removes some, or adds the given ones.
LEMMA SharesBounded ==
    ASSUME NEW st \in Stores, NEW S \in SUBSET Grants
    PROVE  /\ AddShares(st, S).shares = st.shares \cup S
           /\ \A x \in AddSharesPartial(st, S) : x.shares \subseteq st.shares \cup S
           /\ [st EXCEPT !.shares = @ \ S].shares = st.shares \ S
           /\ \A x \in DropSharesPartial(st, S) : x.shares \subseteq st.shares
BY DEF Stores, AddShares, AddSharesPartial, DropSharesPartial

\* Steps that take no part in a structural request.
LEMMA RevocationOutside ==
    ASSUME RevocationInv, TypeInv',
           \/ \E m \in Machines : \/ SendRegister(m) \/ RejectRegister(m) \/ HeartbeatStep(m)
                                  \/ RestartFileServer(m)
           \/ \E c \in Clients : GetRootsKnown(c) \/ Navigate(c) \/ Connect(c)
           \/ MonitorStep \/ (\E i \in Numerics : Expire(i)) \/ UNCHANGED vars
    PROVE  RevocationInv'
<1>1. TypeInv /\ store \in Stores
  BY DEF RevocationInv, TypeInv, TypeOK
<1> DEFINE Outside == \A b \in Callers : pc'[b] \in Holding => pc'[b] = pc[b] /\ req'[b] = req[b]
<1>2. ASSUME NEW a \in Callers,
             NEW label \in {"idle", "in", "routed", "register", "beat"}, Goto(a, label),
             \A b \in Callers \ {a} : req'[b] = req[b]
      PROVE  Outside
  <2>1. label \notin Holding
    BY DEF Holding, Registering, RegisterWriting, Dropping
  <2>2. \A b \in Callers : b # a => pc'[b] = pc[b]
    BY <1>1, <1>2 DEF Goto, TypeInv, TypeOK
  <2>3. pc'[a] = label
    BY <1>1, <1>2 DEF Goto, TypeInv, TypeOK
  <2> QED BY <1>2, <2>1, <2>2, <2>3
<1>3. ASSUME NEW a \in Callers, NEW r, Local(a, r) PROVE \A b \in Callers \ {a} : req'[b] = req[b]
  BY <1>1, <1>3 DEF Local, TypeInv, TypeOK
<1> HIDE DEF Outside
<1>4. ASSUME Outside, shared' = shared, store'.shares = store.shares, revoked' = revoked,
             writeOrderMu' = writeOrderMu
      PROVE  RevocationInv'
  BY <1>4, RevocationUnlocked DEF Outside
<1>5. ASSUME NEW m \in Machines, SendRegister(m) PROVE RevocationInv'
  <2>1. Outside
    BY <1>2, <1>3, <1>5, CallersDisjoint DEF SendRegister
  <2> QED BY <1>4, <1>5, <2>1 DEF SendRegister, memory, history
<1>6. ASSUME NEW m \in Machines, RejectRegister(m) PROVE RevocationInv'
  <2>1. Outside
    BY <1>2, <1>3, <1>6, CallersDisjoint DEF RejectRegister
  <2> QED BY <1>4, <1>6, <2>1 DEF RejectRegister, memory, history
<1>7. ASSUME NEW m \in Machines, HeartbeatStep(m) PROVE RevocationInv'
  <2>1. CASE Heartbeat(m)
    <3>1. Outside
      BY <1>2, <1>3, <2>1, CallersDisjoint DEF Heartbeat
    <3> QED BY <1>4, <2>1, <3>1 DEF Heartbeat, history
  <2>2. CASE HeartbeatRejected(m)
    <3>1. Outside
      BY <2>2 DEF Outside, HeartbeatRejected
    <3> QED BY <1>4, <2>2, <3>1 DEF HeartbeatRejected, memory, history
  <2>3. CASE PersistHeartbeat(m)
    <3>1. Outside
      BY <1>2, <1>3, <2>3, CallersDisjoint DEF PersistHeartbeat
    <3>2. req[m].node \in NodeIds
      BY <1>1, <2>3, CallersDisjoint DEF PersistHeartbeat, TypeInv, RequestOK, Fits
    <3>3. RecordHeartbeat(store, req[m].node).shares = store.shares
      BY <1>1, <3>2, SharesUntouched DEF RecordHeartbeat, Statuses
    <3>4. store'.shares = store.shares
      BY <2>3, <3>3 DEF PersistHeartbeat, Applied, Failed
    <3> QED BY <1>4, <2>3, <3>1, <3>4 DEF PersistHeartbeat, memory, history
  <2> QED BY <1>7, <2>1, <2>2, <2>3 DEF HeartbeatStep
<1>8. ASSUME NEW m \in Machines, RestartFileServer(m) PROVE RevocationInv'
  <2>1. Outside
    BY <1>8 DEF Outside, RestartFileServer
  <2> QED BY <1>4, <1>8, <2>1 DEF RestartFileServer, memory, history
<1>9. ASSUME NEW c \in Clients, GetRootsKnown(c) PROVE RevocationInv'
  <2>1. Outside
    BY <1>2, <1>9, CallersDisjoint DEF GetRootsKnown
  <2> QED BY <1>4, <1>9, <2>1 DEF GetRootsKnown, memory, history
<1>10. ASSUME NEW c \in Clients, Navigate(c) PROVE RevocationInv'
  <2>1. Outside
    BY <1>2, <1>3, <1>10, CallersDisjoint DEF Navigate
  <2> QED BY <1>4, <1>10, <2>1 DEF Navigate, memory, history
<1>11. ASSUME NEW c \in Clients, Connect(c) PROVE RevocationInv'
  <2>1. Outside
    BY <1>2, <1>3, <1>11, CallersDisjoint DEF Connect
  <2> QED BY <1>4, <1>11, <2>1 DEF Connect, memory, history
<1>12. CASE MarkStale
  <2>1. Outside
    BY <1>12 DEF Outside, MarkStale
  <2> QED BY <1>4, <1>12, <2>1 DEF MarkStale, history
<1>13. ASSUME NEW n \in NodeIds, PersistStale(n) PROVE RevocationInv'
  <2>1. Outside
    BY <1>13 DEF Outside, PersistStale
  <2>2. SetFileServerStatus(store, n, "stale").shares = store.shares
    BY <1>1, SharesUntouched DEF SetFileServerStatus, Statuses
  <2>3. store'.shares = store.shares
    BY <1>13, <2>2 DEF PersistStale, Applied, Failed
  <2> QED BY <1>4, <1>13, <2>1, <2>3 DEF PersistStale, memory, history
<1>14. ASSUME NEW i \in Numerics, Expire(i) PROVE RevocationInv'
  <2>1. Outside
    BY <1>14 DEF Outside, Expire
  <2> QED BY <1>4, <1>14, <2>1 DEF Expire, history
<1>15. CASE UNCHANGED vars
  <2>1. Outside
    BY <1>15 DEF Outside, vars
  <2> QED BY <1>4, <1>15, <2>1 DEF vars, memory, history
<1> QED BY <1>5, <1>6, <1>7, <1>8, <1>9, <1>10, <1>11, <1>12, <1>13, <1>14, <1>15
        DEF MonitorStep

\* A registration commits in memory: its own grants stop being revoked, every
\* other grant it leaves visible already was.
LEMMA RevocationCommit ==
    ASSUME RevocationInv, TypeInv', NEW m \in Machines, NEW i \in Numerics,
           NEW label \in {"rename", "upsert"}, Commit(m, i, label),
           writeOrderMu = m \/ writeOrderMu = Free, writeOrderMu' = m, store' = store
    PROVE  RevocationInv'
<1> DEFINE q == [req[m] EXCEPT !.num = i, !.purged = Purged(req[m], i)]
<1>1. TypeInv /\ m \in Callers /\ req[m] \in Requests
  BY CallersDisjoint DEF RevocationInv, TypeInv, TypeOK
<1>2. /\ Goto(m, label) /\ Local(m, q)
      /\ shared' = (shared \ (Involving(Purged(req[m], i)) \cup OwnedBy(req[m].users)))
                     \cup req[m].grants
      /\ revoked' = revoked \ req[m].grants
  BY DEF Commit
<1>3. q.grants = req[m].grants
  BY <1>1 DEF Requests
<1> HIDE DEF q
<1>4. /\ pc'[m] = label /\ req'[m] = q
      /\ \A b \in Callers \ {m} : pc'[b] = pc[b] /\ req'[b] = req[b]
  BY <1>1, <1>2, OthersStay
<1>5. label \notin Dropping /\ label # "removeShare"
  BY DEF Dropping
<1>6. Harmless(pc[m], req[m])'
  BY <1>2, <1>3, <1>4, <1>5 DEF Harmless
<1>7. RevocationIsFinal'
  <2>1. store'.shares \cap revoked = {} /\ shared \cap revoked = {}
    BY DEF RevocationInv, RevocationIsFinal
  <2> QED BY <1>2, <2>1 DEF RevocationIsFinal
<1> QED BY <1>1, <1>4, <1>6, <1>7, RevocationLocked

\* A deferred write of a registration stores at most the grants it carries.
LEMMA RevocationRegisterWrite ==
    ASSUME RevocationInv, TypeInv', NEW m \in Machines, NEW label \in RegisterWriting \cup {"commit"},
           pc[m] \in Registering,
           \/ Goto(m, label) /\ UNCHANGED writeOrderMu
                /\ ((pc[m] = "alloc" /\ label = "commit") \/ pc[m] \in RegisterWriting)
                /\ req'[m].grants = req[m].grants
           \/ Return(m, "idle"),
           \A b \in Callers \ {m} : req'[b] = req[b],
           UNCHANGED <<shared, revoked>>,
           \/ store'.shares \subseteq store.shares
           \/ pc[m] \in RegisterWriting /\ store'.shares \subseteq store.shares \cup req[m].grants
    PROVE  RevocationInv'
<1>1. TypeInv /\ m \in Callers /\ writeOrderMu = m
  BY CallersDisjoint DEF RevocationInv, HolderOK, Holding
<1>2. pc[m] \in RegisterWriting => req[m].grants \cap revoked = {}
  BY <1>1 DEF RevocationInv, HolderOK, Holding, Harmless, Registering
<1>3. RevocationIsFinal'
  BY <1>2 DEF RevocationInv, RevocationIsFinal
<1>4. \A b \in Callers \ {m} : pc'[b] = pc[b] /\ req'[b] = req[b]
  BY <1>1 DEF Return, Goto, TypeInv, TypeOK
<1>5. CASE Return(m, "idle")
  <2>1. pc'[m] = "idle"
    BY <1>1, <1>5 DEF Return, Goto, TypeInv, TypeOK
  <2>2. pc'[m] \notin Holding
    BY <2>1 DEF Holding, Registering, RegisterWriting, Dropping
  <2> QED BY <1>1, <1>3, <1>4, <2>2, RevocationLocked
<1>6. CASE Goto(m, label) /\ UNCHANGED writeOrderMu
           /\ ((pc[m] = "alloc" /\ label = "commit") \/ pc[m] \in RegisterWriting)
           /\ req'[m].grants = req[m].grants
  <2>1. pc'[m] = label
    BY <1>1, <1>6 DEF Goto, TypeInv, TypeOK
  <2>2. label \notin Dropping /\ label # "removeShare" /\ label # "addShare"
    BY DEF Dropping, RegisterWriting
  <2>3. label = "commit" => label \notin RegisterWriting
    BY DEF RegisterWriting
  <2>4. Harmless(pc[m], req[m])'
    BY <1>2, <1>6, <2>1, <2>2, <2>3 DEF Harmless
  <2> QED BY <1>1, <1>3, <1>4, <1>6, <2>4, RevocationLocked
<1> QED BY <1>5, <1>6

\* The chain of a registration.
LEMMA RevocationRegister ==
    ASSUME RevocationInv, TypeInv', NEW m \in Machines, RegisterStep(m)
    PROVE  RevocationInv'
<1> DEFINE r == req[m]
<1>1. /\ TypeInv /\ m \in Callers /\ store \in Stores /\ r \in Requests
      /\ r.users \subseteq Users /\ r.purged \subseteq Users /\ r.grants \subseteq Grants
      /\ LegacyNodeID(m) \in NodeIds
  BY CallersDisjoint, NodeIdTypes DEF RevocationInv, TypeInv, TypeOK, Requests
<1>2. pc[m] \in Registering => r.node \in NodeIds
  BY <1>1 DEF TypeInv, RequestOK, Fits
<1>3. CASE RegisterKnown(m)
  <2>1. PICK t \in Targets(r) :
          t.num # None /\ Commit(m, t.num, IF t.adopt THEN "rename" ELSE "upsert")
    BY <1>3 DEF RegisterKnown
  <2>2. t.num \in Numerics
    BY <2>1, TargetTypes
  <2> QED BY <1>3, <2>1, <2>2, RevocationCommit DEF RegisterKnown, Lock
<1>4. CASE RegisterNew(m)
  <2>1. pc'[m] = "alloc" /\ \A b \in Callers \ {m} : pc'[b] = pc[b] /\ req'[b] = req[b]
    BY <1>1, <1>4 DEF RegisterNew, Goto, TypeInv, TypeOK
  <2>2. Harmless(pc[m], req[m])'
    BY <2>1 DEF Harmless, RegisterWriting, Dropping
  <2>3. RevocationIsFinal'
    BY <1>4 DEF RegisterNew, memory, history, RevocationInv, RevocationIsFinal
  <2> QED BY <1>1, <1>4, <2>1, <2>2, <2>3, RevocationLocked DEF RegisterNew, Lock
<1>5. CASE RejectRegister(m)
  BY <1>5, RevocationOutside
<1>6. CASE AllocateNode(m)
  <2>1. r.node \in NodeIds
    BY <1>2, <1>6 DEF AllocateNode, Registering
  <2>2. store'.shares = store.shares
    BY <1>1, <1>6, <2>1, SharesUntouched DEF AllocateNode, Applied, Failed
  <2>3. \/ Goto(m, "commit") /\ UNCHANGED writeOrderMu /\ req'[m].grants = r.grants
        \/ Return(m, "idle")
    BY <1>1, <1>6 DEF AllocateNode, Local, AbortRegister, TypeInv, TypeOK, Requests
  <2>4. \A b \in Callers \ {m} : req'[b] = req[b]
    BY <1>1, <1>6 DEF AllocateNode, Local, AbortRegister, Return, TypeInv, TypeOK
  <2>5. UNCHANGED <<shared, revoked>> /\ pc[m] = "alloc"
    BY <1>6 DEF AllocateNode, memory
  <2> QED BY <2>2, <2>3, <2>4, <2>5, RevocationRegisterWrite DEF Registering
<1>7. CASE CommitNew(m)
  <2>1. r.num \in Numerics
    BY <1>1, <1>7 DEF CommitNew, TypeInv, RequestOK, Fits
  <2>2. writeOrderMu = m
    BY <1>1, <1>7 DEF CommitNew, RevocationInv, HolderOK, Holding, Registering
  <2> QED BY <1>7, <2>1, <2>2, RevocationCommit DEF CommitNew
<1>8. CASE RenameUsers(m)
  <2>1. r.node \in NodeIds
    BY <1>2, <1>8 DEF RenameUsers, Registering, RegisterWriting
  <2>2. store'.shares = store.shares
    BY <1>1, <1>8, <2>1, SharesUntouched DEF RenameUsers, Applied, Failed
  <2>3. \/ Goto(m, "upsert") /\ UNCHANGED writeOrderMu /\ req'[m].grants = r.grants
        \/ Goto(m, "renameRemove") /\ UNCHANGED writeOrderMu /\ req'[m].grants = r.grants
        \/ Return(m, "idle")
    BY <1>1, <1>8 DEF RenameUsers, Local, AbortRegister, TypeInv, TypeOK, Requests
  <2>4. \A b \in Callers \ {m} : req'[b] = req[b]
    BY <1>1, <1>8 DEF RenameUsers, Local, AbortRegister, Return, TypeInv, TypeOK
  <2>5. UNCHANGED <<shared, revoked>> /\ pc[m] = "rename"
    BY <1>8 DEF RenameUsers, memory
  <2>6. "upsert" \in RegisterWriting /\ "renameRemove" \in RegisterWriting
        /\ pc[m] \in RegisterWriting /\ pc[m] \in Registering
    BY <2>5 DEF RegisterWriting, Registering
  <2> QED BY <2>2, <2>3, <2>4, <2>5, <2>6, RevocationRegisterWrite
<1>9. ASSUME NEW here \in RegisterWriting, NEW st, NEW outcomes,
             NEW label \in RegisterWriting \cup {"done"},
             RegisterWrite(m, here, st, outcomes, label),
             \A x \in {st} \cup outcomes : \/ x.shares \subseteq store.shares
                                           \/ x.shares \subseteq store.shares \cup r.grants
      PROVE  RevocationInv'
  <2>1. store'.shares \subseteq store.shares \/ store'.shares \subseteq store.shares \cup r.grants
    BY <1>9 DEF RegisterWrite, Applied, Failed
  <2>2. \/ label # "done" /\ Goto(m, label) /\ UNCHANGED <<writeOrderMu, req>>
        \/ Return(m, "idle")
    BY <1>9 DEF RegisterWrite, Proceed, AbortRegister, FinishRegister
  <2>3. \A b \in Callers \ {m} : req'[b] = req[b]
    BY <1>1, <2>2 DEF Return, Local, TypeInv, TypeOK
  <2>4. UNCHANGED <<shared, revoked>> /\ pc[m] \in RegisterWriting /\ pc[m] \in Registering
    BY <1>9 DEF RegisterWrite, memory, Registering
  <2>5. label # "done" => label \in RegisterWriting
    OBVIOUS
  <2> QED BY <2>1, <2>2, <2>3, <2>4, <2>5, RevocationRegisterWrite DEF RegisterWriting
<1>10. /\ AfterPurge(r) \in RegisterWriting \cup {"done"}
       /\ AfterUpsert(r) \in RegisterWriting \cup {"done"}
       /\ AfterClear(r) \in RegisterWriting \cup {"done"}
  BY DEF AfterPurge, AfterUpsert, AfterClear, RegisterWriting
<1>11. Involving(r.purged) \subseteq Grants /\ OwnedBy(r.users) \subseteq Grants
  BY DEF Involving, OwnedBy
<1>12. /\ "renameRemove" \in RegisterWriting /\ "renameInsert" \in RegisterWriting
       /\ "upsert" \in RegisterWriting /\ "purgeUsers" \in RegisterWriting
       /\ "purgeShares" \in RegisterWriting /\ "assign" \in RegisterWriting
       /\ "clear" \in RegisterWriting /\ "grant" \in RegisterWriting
  BY DEF RegisterWriting
<1>13. ASSUME NEW st, NEW outcomes, NEW here \in RegisterWriting, NEW label,
              RegisterWrite(m, here, st, outcomes, label)
       PROVE  r.node \in NodeIds
  BY <1>2, <1>13 DEF RegisterWrite, Registering
<1>14. CASE RenameRemove(m)
  <2> DEFINE st == RenameRemoveOld(store, LegacyNodeID(m))
  <2>1. RegisterWrite(m, "renameRemove", st, {store, st}, "renameInsert")
    BY <1>14 DEF RenameRemove
  <2>2. st.shares = store.shares
    BY <1>1, SharesUntouched
  <2> HIDE DEF st
  <2> QED BY <1>9, <1>12, <2>1, <2>2
<1>15. CASE RenameInsert(m)
  <2> DEFINE st == RenameInsertNew(store, r.oldDoc, r.node)
  <2>1. RegisterWrite(m, "renameInsert", st, {store, st}, "upsert")
    BY <1>15 DEF RenameInsert
  <2>2. st.shares = store.shares
    BY <1>1, <1>12, <1>13, <2>1, SharesUntouched
  <2> HIDE DEF st
  <2> QED BY <1>9, <1>12, <2>1, <2>2
<1>16. CASE PersistNode(m)
  <2> DEFINE st == UpsertFileServer(store, r.node, m)
             outcomes == UpsertFileServerPartial(store, r.node, m)
  <2>1. RegisterWrite(m, "upsert", st, outcomes, AfterUpsert(r))
    BY <1>16 DEF PersistNode
  <2>2. r.node \in NodeIds
    BY <1>12, <1>13, <2>1
  <2>3. \A x \in {st} \cup outcomes : x.shares = store.shares
    BY <1>1, <2>2, SharesUntouched
  <2> HIDE DEF st, outcomes
  <2> QED BY <1>9, <1>10, <1>12, <2>1, <2>3
<1>17. CASE PurgeUsers(m)
  <2> DEFINE st == RemoveUsers(store, r.purged)
             outcomes == RemoveUsersPartial(store, r.purged)
  <2>1. RegisterWrite(m, "purgeUsers", st, outcomes, "purgeShares")
    BY <1>17 DEF PurgeUsers
  <2>2. \A x \in {st} \cup outcomes : x.shares = store.shares
    BY <1>1, SharesUntouched
  <2> HIDE DEF st, outcomes
  <2> QED BY <1>9, <1>12, <2>1, <2>2
<1>18. CASE PurgeShares(m)
  <2> DEFINE st == RemoveSharesInvolving(store, r.purged)
             outcomes == DropSharesPartial(store, Involving(r.purged))
  <2>1. RegisterWrite(m, "purgeShares", st, outcomes, AfterPurge(r))
    BY <1>18 DEF PurgeShares
  <2>2. \A x \in {st} \cup outcomes : x.shares \subseteq store.shares
    <3>1. st = [store EXCEPT !.shares = @ \ Involving(r.purged)]
      BY DEF RemoveSharesInvolving
    <3> HIDE DEF st
    <3>2. st.shares \subseteq store.shares
      BY <1>1, <1>11, <3>1, SharesBounded
    <3>3. \A x \in outcomes : x.shares \subseteq store.shares
      BY <1>1, <1>11, SharesBounded
    <3> QED BY <3>2, <3>3
  <2> HIDE DEF st, outcomes
  <2> QED BY <1>9, <1>10, <1>12, <2>1, <2>2
<1>19. CASE PersistUsers(m)
  <2> DEFINE st == AssignUsers(store, r.node, r.users)
             outcomes == AssignUsersPartial(store, r.node, r.users)
  <2>1. RegisterWrite(m, "assign", st, outcomes, "clear")
    BY <1>19 DEF PersistUsers
  <2>2. r.node \in NodeIds
    BY <1>12, <1>13, <2>1
  <2>3. \A x \in {st} \cup outcomes : x.shares = store.shares
    BY <1>1, <2>2, SharesUntouched
  <2> HIDE DEF st, outcomes
  <2> QED BY <1>9, <1>12, <2>1, <2>3
<1>20. CASE ClearShares(m)
  <2> DEFINE st == RemoveSharesByOwner(store, r.users)
             outcomes == DropSharesPartial(store, OwnedBy(r.users))
  <2>1. RegisterWrite(m, "clear", st, outcomes, AfterClear(r))
    BY <1>20 DEF ClearShares
  <2>2. \A x \in {st} \cup outcomes : x.shares \subseteq store.shares
    <3>1. st = [store EXCEPT !.shares = @ \ OwnedBy(r.users)]
      BY DEF RemoveSharesByOwner
    <3> HIDE DEF st
    <3>2. st.shares \subseteq store.shares
      BY <1>1, <1>11, <3>1, SharesBounded
    <3>3. \A x \in outcomes : x.shares \subseteq store.shares
      BY <1>1, <1>11, SharesBounded
    <3> QED BY <3>2, <3>3
  <2> HIDE DEF st, outcomes
  <2> QED BY <1>9, <1>10, <1>12, <2>1, <2>2
<1>21. CASE PersistShares(m)
  <2> DEFINE st == AddShares(store, r.grants)
             outcomes == AddSharesPartial(store, r.grants)
  <2>1. RegisterWrite(m, "grant", st, outcomes, "done")
    BY <1>21 DEF PersistShares
  <2>2. \A x \in {st} \cup outcomes : x.shares \subseteq store.shares \cup r.grants
    BY <1>1, SharesBounded
  <2> HIDE DEF st, outcomes
  <2> QED BY <1>9, <1>12, <2>1, <2>2
<1> QED BY <1>3, <1>4, <1>5, <1>6, <1>7, <1>8, <1>14, <1>15, <1>16, <1>17, <1>18, <1>19,
           <1>20, <1>21 DEF RegisterStep

\* A handler that returns, holding the lock: memory and store only lose grants.
LEMMA RevocationReturn ==
    ASSUME RevocationInv, TypeInv', NEW a \in Callers, NEW label \in {"idle", "in"},
           pc[a] \in Holding, Return(a, label), RevocationIsFinal'
    PROVE  RevocationInv'
<1>1. TypeInv /\ writeOrderMu = a
  BY DEF RevocationInv, HolderOK
<1>2. pc'[a] = label /\ \A b \in Callers \ {a} : pc'[b] = pc[b] /\ req'[b] = req[b]
  BY <1>1, OthersStay DEF Return
<1>3. label \notin Holding
  BY DEF Holding, Registering, RegisterWriting, Dropping
<1> QED BY <1>1, <1>2, <1>3, RevocationLocked

\* A first login.
LEMMA RevocationPlacement ==
    ASSUME RevocationInv, TypeInv', NEW c \in Clients, GetRootsPlace(c) \/ PersistPlacement(c)
    PROVE  RevocationInv'
<1>1. TypeInv /\ c \in Callers /\ store \in Stores
  BY CallersDisjoint DEF RevocationInv, TypeInv, TypeOK
<1>2. CASE GetRootsPlace(c)
  <2>1. PICK r : Local(c, r)
    BY <1>2 DEF GetRootsPlace
  <2>2. pc'[c] = "place" /\ \A b \in Callers \ {c} : pc'[b] = pc[b] /\ req'[b] = req[b]
    BY <1>1, <1>2, <2>1, OthersStay DEF GetRootsPlace
  <2>3. Harmless(pc[c], req[c])'
    BY <2>2 DEF Harmless, RegisterWriting, Dropping
  <2>4. RevocationIsFinal'
    BY <1>2 DEF GetRootsPlace, history, RevocationInv, RevocationIsFinal
  <2> QED BY <1>1, <1>2, <2>2, <2>3, <2>4, RevocationLocked DEF GetRootsPlace, Lock
<1>3. CASE PersistPlacement(c)
  <2>1. req[c].node \in NodeIds /\ UserOf[c] \in Users
    BY <1>1, <1>3, MetaServerAssumption DEF PersistPlacement, TypeInv, RequestOK, Fits
  <2>2. AssignUser(store, req[c].node, UserOf[c]).shares = store.shares
    BY <1>1, <2>1, SharesUntouched DEF AssignUser
  <2>3. store'.shares = store.shares
    BY <1>3, <2>2 DEF PersistPlacement, Applied, Failed
  <2>4. shared' \subseteq shared /\ revoked' = revoked
    BY <1>3 DEF PersistPlacement, RollBackPlacement, memory
  <2>5. RevocationIsFinal'
    BY <2>3, <2>4 DEF RevocationInv, RevocationIsFinal
  <2>6. pc[c] \in Holding /\ (Return(c, "in") \/ Return(c, "idle"))
    BY <1>3 DEF PersistPlacement, Holding
  <2> QED BY <1>1, <2>5, <2>6, RevocationReturn
<1> QED BY <1>2, <1>3

\* Publishing and revoking a grant.
LEMMA RevocationShare ==
    ASSUME RevocationInv, TypeInv', NEW s \in Sharers, ShareStep(s)
    PROVE  RevocationInv'
<1>1. TypeInv /\ s \in Callers /\ store \in Stores
  BY CallersDisjoint DEF RevocationInv, TypeInv, TypeOK
<1>2. ASSUME NEW g \in Grants, Local(s, [NoReq EXCEPT !.grants = {g}])
      PROVE  req'[s].grants = {g}
  BY <1>1, <1>2 DEF Local, NoReq, TypeInv, TypeOK
<1>3. revoked \cap shared = {} /\ revoked \cap store.shares = {}
  BY DEF RevocationInv, RevocationIsFinal
<1>4. CASE RootShare(s)
  <2>1. PICK g \in Grants : /\ shared' = shared \cup {g}
                            /\ Local(s, [NoReq EXCEPT !.grants = {g}])
                            /\ revoked' = revoked \ {g}
    BY <1>4 DEF RootShare
  <2>2. pc'[s] = "addShare" /\ \A b \in Callers \ {s} : pc'[b] = pc[b] /\ req'[b] = req[b]
    BY <1>1, <1>4, <2>1, OthersStay DEF RootShare
  <2>3. req'[s].grants = {g}
    BY <1>2, <2>1
  <2>4. Harmless(pc[s], req[s])'
    BY <2>1, <2>2, <2>3 DEF Harmless, Dropping
  <2>5. RevocationIsFinal'
    BY <1>3, <1>4, <2>1 DEF RootShare, RevocationIsFinal
  <2> QED BY <1>1, <1>4, <2>2, <2>4, <2>5, RevocationLocked DEF RootShare, Lock
<1>5. CASE RootUnshare(s)
  <2>1. PICK g \in Grants : /\ shared' = shared \ {g}
                            /\ Local(s, [NoReq EXCEPT !.grants = {g}])
    BY <1>5 DEF RootUnshare
  <2>2. pc'[s] = "removeShare" /\ \A b \in Callers \ {s} : pc'[b] = pc[b] /\ req'[b] = req[b]
    BY <1>1, <1>5, <2>1, OthersStay DEF RootUnshare
  <2>3. req'[s].grants = {g}
    BY <1>2, <2>1
  <2>4. Harmless(pc[s], req[s])'
    BY <2>1, <2>2, <2>3 DEF Harmless, Dropping, RegisterWriting
  <2>5. RevocationIsFinal'
    BY <1>3, <1>5, <2>1 DEF RootUnshare, history, RevocationIsFinal
  <2> QED BY <1>1, <1>5, <2>2, <2>4, <2>5, RevocationLocked DEF RootUnshare, Lock
<1>6. CASE PersistShare(s)
  <2>1. PICK g \in Grants : req[s].grants = {g} /\ (CHOOSE x \in req[s].grants : TRUE) = g
    BY <1>1, <1>6, OneGrant DEF PersistShare
  <2>2. pc[s] \in Holding /\ g \notin revoked
    BY <1>1, <1>6, <2>1 DEF PersistShare, Holding, RevocationInv, HolderOK, Harmless
  <2>3. AddShare(store, g).shares = store.shares \cup {g}
    BY <1>1, SharesBounded DEF AddShare
  <2>4. /\ store'.shares \subseteq store.shares \cup {g}
        /\ shared' \subseteq shared /\ revoked' = revoked /\ Return(s, "idle")
    BY <1>6, <2>1, <2>3 DEF PersistShare, Applied, Failed
  <2>5. RevocationIsFinal'
    BY <1>3, <2>2, <2>4 DEF RevocationIsFinal
  <2> QED BY <1>1, <2>2, <2>4, <2>5, RevocationReturn
<1>7. CASE PersistUnshare(s)
  <2>1. PICK g \in Grants : req[s].grants = {g} /\ (CHOOSE x \in req[s].grants : TRUE) = g
    BY <1>1, <1>7, OneGrant DEF PersistUnshare
  <2>2. pc[s] \in Holding /\ g \notin shared
    BY <1>1, <1>7, <2>1 DEF PersistUnshare, Holding, RevocationInv, HolderOK, Harmless
  <2>3. RemoveShare(store, g).shares = store.shares \ {g}
    BY <1>1 DEF RemoveShare, Stores
  <2>4. /\ \/ store'.shares = store.shares \ {g} /\ revoked' = revoked \cup {g}
           \/ store'.shares \subseteq store.shares /\ revoked' = revoked
        /\ shared' = shared /\ Return(s, "idle")
    BY <1>7, <2>1, <2>3 DEF PersistUnshare, Applied, Failed, memory
  <2>5. RevocationIsFinal'
    BY <1>3, <2>2, <2>4 DEF RevocationIsFinal
  <2> QED BY <1>1, <2>2, <2>4, <2>5, RevocationReturn
<1> QED BY <1>4, <1>5, <1>6, <1>7 DEF ShareStep

\* Removing a node: the snapshot a failure restores holds no revoked grant.
LEMMA RevocationDeregister ==
    ASSUME RevocationInv, TypeInv', DeregisterStep
    PROVE  RevocationInv'
<1> DEFINE r == req[Admin]
<1>1. TypeInv /\ Admin \in Callers /\ store \in Stores /\ r \in Requests /\ r.users \subseteq Users
  BY CallersDisjoint DEF RevocationInv, TypeInv, TypeOK, Requests
<1>2. revoked \cap shared = {} /\ revoked \cap store.shares = {}
  BY DEF RevocationInv, RevocationIsFinal
<1>3. CASE DeregisterFileServer
  <2>1. PICK q : /\ Local(Admin, q) /\ q.prev.shared = shared
                 /\ shared' \subseteq shared
                 /\ Goto(Admin, "dropUsers") \/ Goto(Admin, "dropNode")
    <3>1. PICK t, removed :
            /\ Local(Admin, [NoReq EXCEPT
                !.node = t.node, !.num = t.num, !.users = removed,
                !.prev = [info |-> IF t.num = None THEN None ELSE fileservers[t.num],
                          users |-> users, orphanedUsers |-> orphanedUsers,
                          shared |-> shared]])
            /\ shared' = shared \ Involving(removed)
            /\ Goto(Admin, IF removed # {} THEN "dropUsers" ELSE "dropNode")
      BY <1>3 DEF DeregisterFileServer
    <3> QED BY <3>1 DEF NoReq
  <2>2. /\ pc'[Admin] \in Dropping /\ req'[Admin] = q
        /\ \A b \in Callers \ {Admin} : pc'[b] = pc[b] /\ req'[b] = req[b]
    BY <1>1, <2>1, OthersStay DEF Dropping
  <2>3. store' = store /\ revoked' = revoked /\ writeOrderMu = Free /\ writeOrderMu' = Admin
    BY <1>3 DEF DeregisterFileServer, Lock
  <2>4. Harmless(pc[Admin], req[Admin])'
    BY <1>2, <2>1, <2>2, <2>3 DEF Harmless, Dropping, RegisterWriting
  <2>5. RevocationIsFinal'
    BY <1>2, <2>1, <2>3 DEF RevocationIsFinal
  <2> QED BY <1>1, <2>2, <2>3, <2>4, <2>5, RevocationLocked
<1>4. ASSUME NEW here \in Dropping, NEW st, NEW outcomes, NEW label \in Dropping \cup {"done"},
             DeregWrite(here, st, outcomes, label),
             \A x \in {st} \cup outcomes : x.shares \subseteq store.shares
      PROVE  RevocationInv'
  <2>1. /\ pc[Admin] \in Dropping /\ pc[Admin] \in Holding
        /\ writeOrderMu = Admin /\ r.prev.shared \cap revoked = {}
    BY <1>1, <1>4 DEF DeregWrite, Holding, RevocationInv, HolderOK, Harmless
  <2>2. store'.shares \subseteq store.shares /\ revoked' = revoked
    BY <1>4 DEF DeregWrite, Applied, Failed
  <2>3. shared' = shared \/ shared' = r.prev.shared
    BY <1>4 DEF DeregWrite, RollBackDeregister, memory
  <2>4. RevocationIsFinal'
    BY <1>2, <2>1, <2>2, <2>3 DEF RevocationIsFinal
  <2>5. CASE Return(Admin, "idle")
    BY <1>1, <2>1, <2>4, <2>5, RevocationReturn
  <2>6. CASE label # "done" /\ Goto(Admin, label) /\ UNCHANGED <<req, writeOrderMu>>
    <3>1. pc'[Admin] = label /\ label \in Dropping
          /\ \A b \in Callers \ {Admin} : pc'[b] = pc[b] /\ req'[b] = req[b]
      BY <1>1, <2>6 DEF Goto, TypeInv, TypeOK
    <3>2. Harmless(pc[Admin], req[Admin])'
      BY <2>1, <2>2, <2>6, <3>1 DEF Harmless, Dropping, RegisterWriting
    <3> QED BY <1>1, <2>1, <2>4, <2>6, <3>1, <3>2, RevocationLocked
  <2> QED BY <1>4, <2>5, <2>6 DEF DeregWrite
<1>5. CASE DropUsers
  <2> DEFINE st == RemoveUsers(store, r.users)
             outcomes == RemoveUsersPartial(store, r.users)
  <2>1. DeregWrite("dropUsers", st, outcomes, "dropShares")
    BY <1>5 DEF DropUsers
  <2>2. \A x \in {st} \cup outcomes : x.shares = store.shares
    BY <1>1, SharesUntouched
  <2> HIDE DEF st, outcomes
  <2> QED BY <1>4, <2>1, <2>2 DEF Dropping
<1>6. CASE DropShares
  <2> DEFINE st == RemoveSharesInvolving(store, r.users)
             outcomes == DropSharesPartial(store, Involving(r.users))
             label == IF r.num # None THEN "dropNode" ELSE "done"
  <2>1. DeregWrite("dropShares", st, outcomes, label)
    BY <1>6 DEF DropShares
  <2>2. Involving(r.users) \subseteq Grants /\ label \in Dropping \cup {"done"}
    BY DEF Involving, Dropping
  <2>3. \A x \in {st} \cup outcomes : x.shares \subseteq store.shares
    <3>1. st = [store EXCEPT !.shares = @ \ Involving(r.users)]
      BY DEF RemoveSharesInvolving
    <3> HIDE DEF st
    <3>2. st.shares \subseteq store.shares
      BY <1>1, <2>2, <3>1, SharesBounded
    <3>3. \A x \in outcomes : x.shares \subseteq store.shares
      BY <1>1, <2>2, SharesBounded
    <3> QED BY <3>2, <3>3
  <2> HIDE DEF st, outcomes, label
  <2> QED BY <1>4, <2>1, <2>2, <2>3 DEF Dropping
<1>7. CASE DropNode
  <2> DEFINE st == RemoveFileServer(store, r.node)
  <2>1. DeregWrite("dropNode", st, {store, st}, "done")
    BY <1>7 DEF DropNode
  <2>2. r.node \in NodeIds
    BY <1>1, <2>1 DEF DeregWrite, TypeInv, RequestOK, Fits, Dropping
  <2>3. st.shares = store.shares
    BY <1>1, <2>2, SharesUntouched
  <2> HIDE DEF st
  <2> QED BY <1>4, <2>1, <2>3 DEF Dropping
<1> QED BY <1>3, <1>5, <1>6, <1>7 DEF DeregisterStep

\* A restart shows what the store holds, and no request survives it.
LEMMA RevocationCrash ==
    ASSUME RevocationInv, TypeInv', Crash
    PROVE  RevocationInv'
<1>1. shared' = store.shares /\ store' = store /\ revoked' = revoked
  BY DEF Crash, Hydrate
<1>2. \A a \in Callers : pc'[a] \in {"idle", "in", "routed"}
  BY DEF Crash, RevocationInv, TypeInv, TypeOK
<1>3. HolderOK'
  BY <1>2 DEF HolderOK, Holding, Registering, RegisterWriting, Dropping
<1> QED BY <1>1, <1>3 DEF RevocationInv, RevocationIsFinal

\* Nothing is revoked at the start.
LEMMA RevocationInit == Init => RevocationInv
<1> SUFFICES ASSUME Init PROVE RevocationInv
  OBVIOUS
<1>1. HolderOK
  BY DEF Init, HolderOK, Holding, Registering, RegisterWriting, Dropping
<1>2. RevocationIsFinal
  BY DEF Init, RevocationIsFinal
<1> QED BY <1>1, <1>2, TypeInit DEF RevocationInv

\* Every step keeps one holder of writeOrderMu, and revoked grants revoked.
LEMMA RevocationStep ==
    ASSUME RevocationInv, [Next]_vars
    PROVE  RevocationInv'
<1>1. TypeInv'
  BY TypeStep DEF RevocationInv
<1>2. ASSUME NEW m \in Machines,
             SendRegister(m) \/ HeartbeatStep(m) \/ RestartFileServer(m)
      PROVE  RevocationInv'
  BY <1>1, <1>2, RevocationOutside
<1>3. ASSUME NEW m \in Machines, RegisterStep(m) PROVE RevocationInv'
  BY <1>1, <1>3, RevocationRegister
<1>4. ASSUME NEW c \in Clients, ClientStep(c) PROVE RevocationInv'
  BY <1>1, <1>4, RevocationOutside, RevocationPlacement DEF ClientStep
<1>5. ASSUME NEW s \in Sharers, ShareStep(s) PROVE RevocationInv'
  BY <1>1, <1>5, RevocationShare
<1>6. CASE DeregisterStep
  BY <1>1, <1>6, RevocationDeregister
<1>7. CASE MonitorStep \/ (\E i \in Numerics : Expire(i)) \/ UNCHANGED vars
  BY <1>1, <1>7, RevocationOutside
<1>8. CASE Crash
  BY <1>1, <1>8, RevocationCrash
<1> QED BY <1>2, <1>3, <1>4, <1>5, <1>6, <1>7, <1>8 DEF Next

\* An acknowledged revocation is final, for any number of nodes, users,
\* sessions, failed writes and crashes: neither a registration, a placement, a
\* deregistration that rolls back nor a restart brings the grant back; only a
\* request that grants it again does.
THEOREM RevocationStands == Spec => []RevocationIsFinal
<1>1. Init => RevocationInv
  BY RevocationInit
<1>2. RevocationInv /\ [Next]_vars => RevocationInv'
  BY RevocationStep
<1>3. RevocationInv => RevocationIsFinal
  BY DEF RevocationInv
<1> QED BY <1>1, <1>2, <1>3, PTL DEF Spec

-----------------------------------------------------------------------------
(* Numbering: the store's numeric ids and the slots of the table *)

Renaming == {"rename", "renameRemove", "renameInsert"}

\* The table as it would be if the deregistration in flight rolled back.
Restored ==
    IF pc[Admin] \in Dropping /\ req[Admin].num # None
    THEN [fileservers EXCEPT ![req[Admin].num] = req[Admin].prev.info]
    ELSE fileservers

Absent(T, n) == \A i \in Numerics : T[i] # None => T[i].node # n

\* A legacy identity that no process uses any more and the table has dropped.
Retired(T, up, n) == (\E m \in up : n = LegacyNodeID(m)) /\ Absent(T, n)

\* A node has one slot, a slot was drawn from the store's counter, and a legacy
\* identity sits at its own address.
Numbered(T, st) ==
    /\ \A i, j \in Numerics : T[i] # None /\ T[j] # None /\ T[i].node = T[j].node => i = j
    /\ \A i \in Numerics : T[i] # None => i < st.next
    /\ \A i \in Numerics : T[i] # None /\ T[i].node \in LegacyIds =>
          T[i].node = LegacyNodeID(T[i].addr)

\* The slot of a stored number is empty or holds the node the store says, unless
\* that node is a legacy identity some upgraded process has left behind.
SlotsAgree(T, st, up) == \A n \in NodeIds :
    st.nodes[n] # None /\ T[st.nodes[n].num] # None =>
       T[st.nodes[n].num].node = n \/ Retired(T, up, n)

\* No two documents share a number, and every number came from the counter.
StoreNumbered(st) ==
    /\ \A n \in NodeIds : st.nodes[n] # None =>
          /\ st.nodes[n].num < st.next
          /\ n \in LegacyIds => n = LegacyNodeID(st.nodes[n].addr)
    /\ \A n, o \in NodeIds :
          st.nodes[n] # None /\ st.nodes[o] # None /\ st.nodes[n].num = st.nodes[o].num => n = o

\* Slot k is empty or belongs to node n.
OwnSlot(k, n) == fileservers[k] # None => fileservers[k].node = n

\* What a registration relies on, by the point it has reached.
RegisterFacts(m, label, r) ==
    LET old == LegacyNodeID(m) IN
    /\ label \in Registering \cup {"register"} => r.node = resolveNodeID(m)
    /\ label \in {"alloc", "commit"} => Absent(fileservers, r.node)
    /\ label = "commit" => store.nodes[r.node] # None /\ store.nodes[r.node].num = r.num
    /\ label \in Renaming => r.node \in FsIds
    /\ label = "rename" /\ store.nodes[old] # None => OwnSlot(store.nodes[old].num, r.node)
    /\ label = "renameRemove" => /\ store.nodes[old] # None /\ r.oldDoc # None
                                 /\ r.oldDoc.num = store.nodes[old].num
                                 /\ OwnSlot(r.oldDoc.num, r.node)
    /\ label = "renameInsert" =>
          /\ r.oldDoc # None /\ r.oldDoc.num < store.next
          /\ OwnSlot(r.oldDoc.num, r.node)
          /\ \A n \in NodeIds : store.nodes[n] # None => store.nodes[n].num # r.oldDoc.num

\* The slot a deregistration may have to restore is still free.
SlotIsKept ==
    pc[Admin] \in Dropping =>
       /\ req[Admin].num # None => fileservers[req[Admin].num] = None
       /\ req[Admin].num = None <=> req[Admin].prev.info = None

NumberInv ==
    /\ StoreNumbered(store)
    /\ Numbered(Restored, store)
    /\ SlotsAgree(Restored, store, upgraded)
    /\ \A m \in Machines : RegisterFacts(m, pc[m], req[m])
    /\ SlotIsKept

\* The same nodes at the same slots and addresses.
SameNodes(S, T) == \A i \in Numerics :
    /\ T[i] = None <=> S[i] = None
    /\ S[i] # None => T[i].node = S[i].node /\ T[i].addr = S[i].addr

\* The same documents, up to their status.
SameDocs(s, t) ==
    /\ t.next = s.next
    /\ \A n \in NodeIds : /\ t.nodes[n] = None <=> s.nodes[n] = None
                          /\ s.nodes[n] # None => /\ t.nodes[n].num = s.nodes[n].num
                                                  /\ t.nodes[n].addr = s.nodes[n].addr

\* Numbering looks at nodes, slots, addresses and numbers only.
LEMMA SameNumbering ==
    ASSUME NEW S, NEW T, NEW s \in Stores, NEW t \in Stores, NEW up, NEW up2,
           SameNodes(S, T), SameDocs(s, t), up \subseteq up2
    PROVE  /\ Numbered(S, s) => Numbered(T, t)
           /\ SlotsAgree(S, s, up) => SlotsAgree(T, t, up2)
           /\ StoreNumbered(s) => StoreNumbered(t)
<1>1. \A n \in NodeIds : s.nodes[n] # None => s.nodes[n].num \in Numerics
  BY DEF Stores, NodeDocs
<1>2. Numbered(S, s) => Numbered(T, t)
  BY DEF Numbered, SameNodes, SameDocs
<1>3. \A n \in NodeIds : Retired(S, up, n) => Retired(T, up2, n)
  BY DEF Retired, Absent, SameNodes
<1>4. SlotsAgree(S, s, up) => SlotsAgree(T, t, up2)
  BY <1>1, <1>3 DEF SlotsAgree, SameNodes, SameDocs
<1>5. StoreNumbered(s) => StoreNumbered(t)
  BY DEF StoreNumbered, SameDocs
<1> QED BY <1>2, <1>4, <1>5

\* Dropping an entry from a table cannot break its numbering.
LEMMA SmallerTable ==
    ASSUME NEW S, NEW T, NEW st \in Stores, NEW up,
           \A i \in Numerics : T[i] = None \/ T[i] = S[i]
    PROVE  /\ Numbered(S, st) => Numbered(T, st)
           /\ SlotsAgree(S, st, up) => SlotsAgree(T, st, up)
<1>1. \A n \in NodeIds : st.nodes[n] # None => st.nodes[n].num \in Numerics
  BY DEF Stores, NodeDocs
<1>2. Numbered(S, st) => Numbered(T, st)
  BY DEF Numbered
<1>3. \A n \in NodeIds : Retired(S, up, n) => Retired(T, up, n)
  BY DEF Retired, Absent
<1> QED BY <1>1, <1>2, <1>3 DEF SlotsAgree

\* While no deregistration is in flight there is nothing to restore.
LEMMA NothingToRestore ==
    /\ pc[Admin] \notin Dropping => Restored = fileservers
    /\ pc'[Admin] \notin Dropping => Restored' = fileservers'
BY DEF Restored

\* What the table itself satisfies, in flight or not.
LEMMA TableNumbered ==
    ASSUME TypeInv, NumberInv
    PROVE  Numbered(fileservers, store) /\ SlotsAgree(fileservers, store, upgraded)
<1>1. store \in Stores /\ fileservers \in [Numerics -> NodeInfos \cup {None}]
      /\ req[Admin].num \in Numerics \cup {None}
  BY CallersDisjoint DEF TypeInv, TypeOK, Requests
<1>2. \A i \in Numerics : fileservers[i] = None \/ fileservers[i] = Restored[i]
  BY <1>1 DEF NumberInv, SlotIsKept, Restored
<1> QED BY <1>1, <1>2, SmallerTable DEF NumberInv

\* Writes that concern users or shares leave documents and counter alone.
LEMMA DocsUntouched ==
    ASSUME NEW st \in Stores
    PROVE  /\ \A old, n \in NodeIds :
                /\ SameDocs(st, RenameMoveUsers(st, old, n))
                /\ \A x \in RenameMoveUsersPartial(st, old, n) : SameDocs(st, x)
           /\ \A n \in NodeIds, U \in SUBSET Users :
                /\ SameDocs(st, AssignUsers(st, n, U))
                /\ \A x \in AssignUsersPartial(st, n, U) : SameDocs(st, x)
           /\ \A U \in SUBSET Users :
                /\ SameDocs(st, RemoveUsers(st, U))
                /\ \A x \in RemoveUsersPartial(st, U) : SameDocs(st, x)
           /\ \A S \in SUBSET Grants :
                /\ SameDocs(st, AddShares(st, S))
                /\ \A x \in AddSharesPartial(st, S) : SameDocs(st, x)
                /\ SameDocs(st, [st EXCEPT !.shares = @ \ S])
                /\ \A x \in DropSharesPartial(st, S) : SameDocs(st, x)
           /\ \A n \in NodeIds, s \in Statuses : SameDocs(st, SetStatus(st, n, s))
           /\ SameDocs(st, st)
<1>1. ASSUME NEW n \in NodeIds, NEW s \in Statuses PROVE SameDocs(st, SetStatus(st, n, s))
  <2>1. CASE st.nodes[n] # None
    <3>1. [st.nodes[n] EXCEPT !.status = s] \in NodeDocs
          /\ [st.nodes[n] EXCEPT !.status = s].num = st.nodes[n].num
          /\ [st.nodes[n] EXCEPT !.status = s].addr = st.nodes[n].addr
      BY <2>1 DEF Stores, NodeDocs
    <3>2. /\ SetStatus(st, n, s).next = st.next
          /\ SetStatus(st, n, s).nodes = [st.nodes EXCEPT ![n] = [st.nodes[n] EXCEPT !.status = s]]
      BY <2>1 DEF SetStatus, Stores
    <3> QED BY <2>1, <3>1, <3>2, MetaStoreAssumption DEF SameDocs, Stores
  <2> QED BY <2>1 DEF SetStatus, SameDocs
<1> QED BY <1>1 DEF Stores, SameDocs, RenameMoveUsers, RenameMoveUsersPartial, AssignUsers,
         AssignUsersPartial, RemoveUsers, RemoveUsersPartial, AddShares, AddSharesPartial,
         DropSharesPartial

\* An entry whose liveness or load changes is the same node at the same address.
LEMMA SameEntry ==
    ASSUME NEW T \in [Numerics -> NodeInfos \cup {None}], NEW i \in Numerics, T[i] # None
    PROVE  /\ SameNodes(T, [T EXCEPT ![i].fresh = TRUE, ![i].status = "healthy"])
           /\ SameNodes(T, [T EXCEPT ![i].fresh = FALSE])
           /\ SameNodes(T, [T EXCEPT ![i].userCount = @ + 1])
           /\ T[i].userCount > 0 => SameNodes(T, [T EXCEPT ![i].userCount = @ - 1])
           /\ [T[i] EXCEPT !.status = "stale"] \in NodeInfos
<1>1. T[i] \in NodeInfos
  OBVIOUS
<1>2. ASSUME NEW x \in NodeInfos, x.node = T[i].node, x.addr = T[i].addr
      PROVE  SameNodes(T, [T EXCEPT ![i] = x])
  BY <1>2, NodeInfosAssumption DEF SameNodes
<1> DEFINE beat == [T[i] EXCEPT !.fresh = TRUE, !.status = "healthy"]
           silent == [T[i] EXCEPT !.fresh = FALSE]
           more == [T[i] EXCEPT !.userCount = @ + 1]
           less == [T[i] EXCEPT !.userCount = @ - 1]
<1>3. beat \in NodeInfos /\ beat.node = T[i].node /\ beat.addr = T[i].addr
  BY <1>1 DEF NodeInfos, Statuses
<1>4. silent \in NodeInfos /\ silent.node = T[i].node /\ silent.addr = T[i].addr
  BY <1>1 DEF NodeInfos
<1>5. more \in NodeInfos /\ more.node = T[i].node /\ more.addr = T[i].addr
  BY <1>1 DEF NodeInfos
<1>6. T[i].userCount > 0 =>
        less \in NodeInfos /\ less.node = T[i].node /\ less.addr = T[i].addr
  BY <1>1 DEF NodeInfos
<1>7. /\ [T EXCEPT ![i].fresh = TRUE, ![i].status = "healthy"] = [T EXCEPT ![i] = beat]
      /\ [T EXCEPT ![i].fresh = FALSE] = [T EXCEPT ![i] = silent]
      /\ [T EXCEPT ![i].userCount = @ + 1] = [T EXCEPT ![i] = more]
      /\ [T EXCEPT ![i].userCount = @ - 1] = [T EXCEPT ![i] = less]
  OBVIOUS
<1>8. [T[i] EXCEPT !.status = "stale"] \in NodeInfos
  BY <1>1 DEF NodeInfos, Statuses
<1> HIDE DEF beat, silent, more, less
<1> QED BY <1>2, <1>3, <1>4, <1>5, <1>6, <1>7, <1>8

\* Steps that move no node: nobody enters or moves on in a registration or a
\* deregistration, except that a sync loop may call.
LEMMA NumberFrame ==
    ASSUME TypeInv, TypeInv', NumberInv,
           SameNodes(fileservers, fileservers'), SameDocs(store, store'),
           upgraded \subseteq upgraded',
           \A m \in Machines : /\ pc'[m] \in Registering => pc'[m] = pc[m] /\ req'[m] = req[m]
                               /\ pc'[m] \in Registering \cup {"register"} =>
                                     req'[m].node = resolveNodeID(m)',
           pc[Admin] \in Dropping \/ pc'[Admin] \in Dropping =>
              pc'[Admin] = pc[Admin] /\ req'[Admin] = req[Admin]
    PROVE  NumberInv'
<1>1. /\ store \in Stores /\ store' \in Stores
      /\ fileservers \in [Numerics -> NodeInfos \cup {None}]
      /\ fileservers' \in [Numerics -> NodeInfos \cup {None}]
      /\ req[Admin].num \in Numerics \cup {None}
      /\ req'[Admin].num \in Numerics \cup {None}
  BY CallersDisjoint DEF TypeInv, TypeOK, Requests
<1>2. SameNodes(Restored, Restored')
  <2>1. CASE pc[Admin] \in Dropping /\ req[Admin].num # None
    <3>1. /\ Restored = [fileservers EXCEPT ![req[Admin].num] = req[Admin].prev.info]
          /\ Restored' = [fileservers' EXCEPT ![req[Admin].num] = req[Admin].prev.info]
      BY <2>1 DEF Restored
    <3> QED BY <1>1, <2>1, <3>1 DEF SameNodes
  <2>2. CASE ~(pc[Admin] \in Dropping /\ req[Admin].num # None)
    <3>1. Restored = fileservers /\ Restored' = fileservers'
      BY <2>2 DEF Restored
    <3> QED BY <3>1
  <2> QED BY <2>1, <2>2
<1>3. /\ StoreNumbered(store') /\ Numbered(Restored', store')
      /\ SlotsAgree(Restored', store', upgraded')
  BY <1>1, <1>2, SameNumbering DEF NumberInv
<1>4. ASSUME NEW m \in Machines PROVE RegisterFacts(m, pc[m], req[m])'
  <2>1. CASE pc'[m] \in Registering
    <3>1. /\ pc'[m] = pc[m] /\ req'[m] = req[m] /\ RegisterFacts(m, pc[m], req[m])
          /\ req'[m].node = resolveNodeID(m)'
      BY <2>1 DEF NumberInv
    <3>2. /\ req[m] \in Requests /\ req[m].node \in NodeIds
          /\ req[m].oldDoc # None => req[m].oldDoc.num \in Numerics
      BY <2>1, <3>1, CallersDisjoint DEF TypeInv, TypeOK, RequestOK, Fits, Requests, NodeDocs
    <3>3. LegacyNodeID(m) \in NodeIds
      BY NodeIdTypes
    <3>4. \A n \in NodeIds : store.nodes[n] # None => store.nodes[n].num \in Numerics
      BY <1>1 DEF Stores, NodeDocs
    <3>5. \A k \in Numerics, n \in NodeIds : OwnSlot(k, n) => OwnSlot(k, n)'
      BY DEF OwnSlot, SameNodes
    <3>6. \A n : Absent(fileservers, n) => Absent(fileservers', n)
      BY DEF Absent, SameNodes
    <3> QED
      BY <3>1, <3>2, <3>3, <3>4, <3>5, <3>6 DEF RegisterFacts, SameDocs
  <2>2. CASE pc'[m] \notin Registering
    BY <2>2 DEF RegisterFacts, Registering, RegisterWriting, Renaming
  <2> QED BY <2>1, <2>2
<1>5. SlotIsKept'
  BY <1>1 DEF NumberInv, SlotIsKept, SameNodes
<1> QED BY <1>3, <1>4, <1>5 DEF NumberInv

\* A step of a registration, taken by the caller that holds or takes the lock.
LEMMA NumberHolder ==
    ASSUME RevocationInv, TypeInv', NumberInv, NEW m \in Machines,
           writeOrderMu = m \/ writeOrderMu = Free,
           \A b \in Callers \ {m} : pc'[b] = pc[b] /\ req'[b] = req[b],
           upgraded' = upgraded, StoreNumbered(store'),
           Numbered(fileservers', store'), SlotsAgree(fileservers', store', upgraded'),
           RegisterFacts(m, pc[m], req[m])'
    PROVE  NumberInv'
<1>1. Admin \in Callers \ {m}
  BY CallersDisjoint
<1>2. \A b \in Callers \ {m} : pc[b] \notin Holding
  BY CallersAssumption DEF RevocationInv, HolderOK
<1>3. pc[Admin] \notin Dropping /\ pc'[Admin] \notin Dropping
  BY <1>1, <1>2 DEF Holding
<1>4. Restored' = fileservers' /\ SlotIsKept'
  BY <1>3 DEF Restored, SlotIsKept
<1>5. ASSUME NEW o \in Machines, o # m PROVE RegisterFacts(o, pc[o], req[o])'
  <2>1. pc'[o] = pc[o] /\ req'[o] = req[o] /\ pc[o] \notin Registering
    BY <1>2, <1>5, CallersDisjoint DEF Holding
  <2>2. pc[o] = "register" => req[o].node = resolveNodeID(o)
    BY DEF NumberInv, RegisterFacts
  <2> QED BY <2>1, <2>2 DEF RegisterFacts, Registering, RegisterWriting, Renaming, resolveNodeID
<1> QED BY <1>4, <1>5 DEF NumberInv

\* The same for steps of callers that are not in a registration afterwards.
LEMMA NumberAside ==
    ASSUME TypeInv, TypeInv', NumberInv,
           SameNodes(fileservers, fileservers'), SameDocs(store, store'),
           upgraded' = upgraded,
           \A m \in Machines : \/ pc'[m] \notin Registering \cup {"register"}
                               \/ pc'[m] = pc[m] /\ req'[m] = req[m],
           pc'[Admin] = pc[Admin] /\ req'[Admin] = req[Admin]
    PROVE  NumberInv'
<1>1. \A m \in Machines : pc'[m] \in Registering \cup {"register"} =>
        req'[m].node = resolveNodeID(m)'
  BY DEF NumberInv, RegisterFacts, resolveNodeID
<1> QED BY <1>1, NumberFrame

\* Calls, heartbeats, restarts of fileservers, logins, shares and the monitor
\* leave every node where it is.
LEMMA NumberOutside ==
    ASSUME TypeInv, TypeInv', NumberInv,
           \/ \E m \in Machines : \/ SendRegister(m) \/ RejectRegister(m) \/ HeartbeatStep(m)
                                  \/ RestartFileServer(m)
           \/ \E c \in Clients : ClientStep(c)
           \/ \E s \in Sharers : ShareStep(s)
           \/ MonitorStep \/ (\E i \in Numerics : Expire(i)) \/ UNCHANGED vars
    PROVE  NumberInv'
<1>1. /\ store \in Stores /\ fileservers \in [Numerics -> NodeInfos \cup {None}]
      /\ pc \in [Callers -> Labels] /\ req \in [Callers -> Requests]
      /\ SameDocs(store, store) /\ SameNodes(fileservers, fileservers)
  BY DocsUntouched DEF TypeInv, TypeOK, SameNodes
<1> DEFINE Idle(label) == label \notin Registering \cup {"register"}
           Others(a) == \A b \in Callers \ {a} : pc'[b] = pc[b] /\ req'[b] = req[b]
<1>2. \A label \in {"idle", "in", "routed", "beat", "place", "addShare", "removeShare"} :
        Idle(label)
  BY DEF Registering, RegisterWriting
<1>3. ASSUME NEW a \in Callers \ {Admin}, NEW label, Idle(label), Goto(a, label),
             (\E r : Local(a, r)) \/ req' = req,
             SameNodes(fileservers, fileservers'), SameDocs(store, store'), upgraded' = upgraded
      PROVE  NumberInv'
  <2>1. pc'[a] = label /\ Others(a)
    BY <1>1, <1>3 DEF Goto, Local
  <2> HIDE DEF Others
  <2>2. \A m \in Machines : Idle(pc'[m]) \/ (pc'[m] = pc[m] /\ req'[m] = req[m])
    BY <1>3, <2>1, CallersDisjoint DEF Others
  <2>3. pc'[Admin] = pc[Admin] /\ req'[Admin] = req[Admin]
    BY <1>3, <2>1, CallersDisjoint DEF Others
  <2> QED BY <1>3, <2>2, <2>3, NumberAside
<1> HIDE DEF Idle, Others
<1>4. ASSUME NEW m \in Machines, SendRegister(m) PROVE NumberInv'
  <2>1. PICK U, S :
          Local(m, [NoReq EXCEPT !.node = resolveNodeID(m), !.addr = m, !.users = U, !.grants = S])
    BY <1>4 DEF SendRegister
  <2>2. /\ pc'[m] = "register" /\ req'[m].node = resolveNodeID(m)
        /\ \A b \in Callers \ {m} : pc'[b] = pc[b] /\ req'[b] = req[b]
    BY <1>1, <1>4, <2>1, CallersDisjoint DEF SendRegister, Goto, Local, NoReq
  <2>3. /\ fileservers' = fileservers /\ store' = store /\ upgraded' = upgraded
        /\ \A o \in Machines : resolveNodeID(o)' = resolveNodeID(o)
    BY <1>4 DEF SendRegister, memory, machines, resolveNodeID
  <2>4. \A o \in Machines : /\ pc'[o] \in Registering => pc'[o] = pc[o] /\ req'[o] = req[o]
                            /\ pc'[o] \in Registering \cup {"register"} =>
                                  req'[o].node = resolveNodeID(o)'
    BY <2>2, <2>3, CallersDisjoint
    DEF NumberInv, RegisterFacts, Registering, RegisterWriting
  <2>5. pc'[Admin] = pc[Admin] /\ req'[Admin] = req[Admin]
    BY <2>2, CallersDisjoint
  <2> QED BY <1>1, <2>3, <2>4, <2>5, NumberFrame
<1>5. ASSUME NEW m \in Machines, RejectRegister(m) PROVE NumberInv'
  BY <1>1, <1>2, <1>3, <1>5, CallersDisjoint DEF RejectRegister, memory, machines
<1>6. ASSUME NEW m \in Machines, HeartbeatStep(m) PROVE NumberInv'
  <2>1. CASE Heartbeat(m)
    <3>1. PICK i \in Numerics :
            /\ fileservers[i] # None
            /\ fileservers' = [fileservers EXCEPT ![i].fresh = TRUE, ![i].status = "healthy"]
      BY <2>1 DEF Heartbeat, Accepted, ByNodeID
    <3>2. SameNodes(fileservers, fileservers')
      BY <1>1, <3>1, SameEntry
    <3> QED BY <1>1, <1>2, <1>3, <2>1, <3>2, CallersDisjoint DEF Heartbeat, machines
  <2>2. CASE HeartbeatRejected(m)
    <3>1. pc' = pc /\ req' = req /\ fileservers' = fileservers /\ store' = store
          /\ upgraded' = upgraded
      BY <2>2 DEF HeartbeatRejected, memory
    <3> QED BY <1>1, <3>1, NumberAside
  <2>3. CASE PersistHeartbeat(m)
    <3>1. req[m].node \in NodeIds
      BY <2>3, CallersDisjoint DEF PersistHeartbeat, TypeInv, RequestOK, Fits
    <3>2. SameDocs(store, RecordHeartbeat(store, req[m].node))
      BY <1>1, <3>1, DocsUntouched DEF RecordHeartbeat, Statuses
    <3>3. SameDocs(store, store')
      BY <1>1, <2>3, <3>2 DEF PersistHeartbeat, Applied, Failed
    <3> QED BY <1>1, <1>2, <1>3, <2>3, <3>3, CallersDisjoint DEF PersistHeartbeat, memory, machines
  <2> QED BY <1>6, <2>1, <2>2, <2>3 DEF HeartbeatStep
<1>7. ASSUME NEW m \in Machines, RestartFileServer(m) PROVE NumberInv'
  <2>1. /\ pc' = pc /\ req' = req /\ fileservers' = fileservers /\ store' = store
        /\ upgraded \subseteq upgraded' /\ upgraded' \subseteq upgraded \cup {m} /\ pc[m] = "idle"
    BY <1>7 DEF RestartFileServer, memory
  <2>2. \A o \in Machines : pc'[o] \in Registering \cup {"register"} =>
          req'[o].node = resolveNodeID(o)'
    BY <2>1 DEF NumberInv, RegisterFacts, Registering, RegisterWriting, resolveNodeID
  <2> QED BY <1>1, <2>1, <2>2, NumberFrame
<1>8. ASSUME NEW c \in Clients, ClientStep(c) PROVE NumberInv'
  <2>1. c \in Callers \ {Admin} /\ UserOf[c] \in Users
    BY CallersDisjoint, MetaServerAssumption
  <2>2. CASE GetRootsKnown(c)
    BY <1>1, <1>2, <1>3, <2>1, <2>2 DEF GetRootsKnown, memory, machines
  <2>3. CASE GetRootsPlace(c)
    <3>1. PICK i \in LeastLoaded : fileservers' = [fileservers EXCEPT ![i].userCount = @ + 1]
      BY <2>3 DEF GetRootsPlace
    <3>2. i \in Numerics /\ fileservers[i] # None
      BY <3>1 DEF LeastLoaded, isHealthy
    <3>3. SameNodes(fileservers, fileservers')
      BY <1>1, <3>1, <3>2, SameEntry
    <3> QED BY <1>1, <1>2, <1>3, <2>1, <2>3, <3>3 DEF GetRootsPlace, machines
  <2>4. CASE PersistPlacement(c)
    <3>1. req[c].node \in NodeIds /\ req[c].num \in Numerics
      BY <2>1, <2>4 DEF PersistPlacement, TypeInv, RequestOK, Fits
    <3>2. SameDocs(store, AssignUser(store, req[c].node, UserOf[c]))
      BY <1>1, <2>1, <3>1, DocsUntouched DEF AssignUser
    <3>3. SameDocs(store, store')
      BY <1>1, <2>4, <3>2 DEF PersistPlacement, Applied, Failed
    <3>4. SameNodes(fileservers, fileservers')
      <4>1. \/ fileservers' = fileservers
            \/ /\ fileservers[req[c].num] # None /\ fileservers[req[c].num].userCount > 0
               /\ fileservers' = [fileservers EXCEPT ![req[c].num].userCount = @ - 1]
        BY <2>4 DEF PersistPlacement, RollBackPlacement, memory
      <4> QED BY <1>1, <3>1, <4>1, SameEntry
    <3>5. PICK label \in {"in", "idle"} : Goto(c, label) /\ Local(c, NoReq)
      BY <2>4 DEF PersistPlacement, Return
    <3> QED BY <1>2, <1>3, <2>1, <2>4, <3>3, <3>4, <3>5 DEF PersistPlacement, machines
  <2>5. CASE Navigate(c)
    BY <1>1, <1>2, <1>3, <2>1, <2>5 DEF Navigate, memory, machines
  <2>6. CASE Connect(c)
    BY <1>1, <1>2, <1>3, <2>1, <2>6 DEF Connect, memory
  <2> QED BY <1>8, <2>2, <2>3, <2>4, <2>5, <2>6 DEF ClientStep
<1>9. ASSUME NEW s \in Sharers, ShareStep(s) PROVE NumberInv'
  <2>1. s \in Callers \ {Admin}
    BY CallersDisjoint
  <2>2. CASE RootShare(s) \/ RootUnshare(s)
    <3>1. PICK label \in {"addShare", "removeShare"} : Goto(s, label) /\ \E r : Local(s, r)
      BY <2>2 DEF RootShare, RootUnshare
    <3> QED BY <1>1, <1>2, <1>3, <2>1, <2>2, <3>1 DEF RootShare, RootUnshare, machines
  <2>3. CASE PersistShare(s) \/ PersistUnshare(s)
    <3> DEFINE g == CHOOSE x \in req[s].grants : TRUE
    <3>1. g \in Grants
      BY <2>1, <2>3, OneGrant DEF PersistShare, PersistUnshare, TypeInv, RequestOK, Fits
    <3> HIDE DEF g
    <3>2. SameDocs(store, AddShare(store, g)) /\ SameDocs(store, RemoveShare(store, g))
      BY <1>1, <3>1, DocsUntouched DEF AddShare, RemoveShare
    <3>3. SameDocs(store, store')
      BY <1>1, <2>3, <3>2 DEF PersistShare, PersistUnshare, Applied, Failed, g
    <3> QED BY <1>1, <1>2, <1>3, <2>1, <2>3, <3>3
            DEF PersistShare, PersistUnshare, Return, memory, machines
  <2> QED BY <1>9, <2>2, <2>3 DEF ShareStep
<1>10. CASE MarkStale
  <2>1. \A i \in Numerics : \/ fileservers'[i] = fileservers[i]
                            \/ /\ fileservers[i] # None
                               /\ fileservers'[i] = [fileservers[i] EXCEPT !.status = "stale"]
    BY <1>10 DEF MarkStale
  <2>3. \A i \in Numerics : fileservers[i] # None => [fileservers[i] EXCEPT !.status = "stale"] # None
    BY <1>1, SameEntry, NodeInfosAssumption
  <2>4. \A i \in Numerics : fileservers[i] # None =>
          /\ [fileservers[i] EXCEPT !.status = "stale"].node = fileservers[i].node
          /\ [fileservers[i] EXCEPT !.status = "stale"].addr = fileservers[i].addr
    BY <1>1 DEF NodeInfos
  <2>5. SameNodes(fileservers, fileservers')
    BY <2>1, <2>3, <2>4 DEF SameNodes
  <2>2. pc' = pc /\ req' = req /\ store' = store /\ upgraded' = upgraded
    BY <1>10 DEF MarkStale, machines
  <2> QED BY <1>1, <2>2, <2>5, NumberAside
<1>11. ASSUME NEW n \in NodeIds, PersistStale(n) PROVE NumberInv'
  <2>1. SameDocs(store, SetFileServerStatus(store, n, "stale"))
    BY <1>1, DocsUntouched DEF SetFileServerStatus, Statuses
  <2>2. SameDocs(store, store')
    BY <1>1, <1>11, <2>1 DEF PersistStale, Applied, Failed
  <2>3. pc' = pc /\ req' = req /\ fileservers' = fileservers /\ upgraded' = upgraded
    BY <1>11 DEF PersistStale, memory, machines
  <2> QED BY <1>1, <2>2, <2>3, NumberAside
<1>12. ASSUME NEW i \in Numerics, Expire(i) PROVE NumberInv'
  <2>1. SameNodes(fileservers, fileservers')
    BY <1>1, <1>12, SameEntry DEF Expire
  <2>2. pc' = pc /\ req' = req /\ store' = store /\ upgraded' = upgraded
    BY <1>12 DEF Expire, machines
  <2> QED BY <1>1, <2>1, <2>2, NumberAside
<1>13. CASE UNCHANGED vars
  <2>1. pc' = pc /\ req' = req /\ fileservers' = fileservers /\ store' = store
        /\ upgraded' = upgraded
    BY <1>13 DEF vars, memory, machines
  <2> QED BY <1>1, <2>1, NumberAside
<1> QED BY <1>4, <1>5, <1>6, <1>7, <1>8, <1>9, <1>10, <1>11, <1>12, <1>13 DEF MonitorStep

\* Who a process registers as: never an identity that has been retired.
LEMMA Identities ==
    /\ \A m, o \in Machines : LegacyNodeID(m) = LegacyNodeID(o) => m = o
    /\ \A m \in Machines : resolveNodeID(m) \in LegacyIds =>
          m \notin upgraded /\ resolveNodeID(m) = LegacyNodeID(m)
    /\ \A m \in Machines : resolveNodeID(m) \in FsIds => m \in upgraded
    /\ TypeInv => \A m \in Machines : \A T : ~Retired(T, upgraded, resolveNodeID(m))
<1>1. \A m, o \in Machines : LegacyNodeID(m) = LegacyNodeID(o) => m = o
  BY DEF LegacyNodeID
<1>2. \A m \in Machines : IdOf[m] \in FsIds /\ LegacyNodeID(m) \in LegacyIds
  BY MetaServerAssumption DEF LegacyIds
<1>3. FsIds \cap LegacyIds = {}
  BY MetaStoreAssumption
<1>4. TypeInv => upgraded \subseteq Machines
  BY DEF TypeInv, TypeOK
<1> QED BY <1>1, <1>2, <1>3, <1>4 DEF resolveNodeID, Retired

\* Registering a node in the store draws a number no slot holds.
LEMMA UpsertNumbering ==
    ASSUME NEW st \in Stores, NEW T, NEW up, NEW n \in NodeIds, NEW addr \in Machines,
           StoreNumbered(st), Numbered(T, st), SlotsAgree(T, st, up),
           n \in LegacyIds => n = LegacyNodeID(addr),
           Allocates(st, n) => st.next < MaxNum,
           NEW x \in UpsertFileServerPartial(st, n, addr)
    PROVE  /\ StoreNumbered(x) /\ Numbered(T, x) /\ SlotsAgree(T, x, up)
           /\ UpsertFileServer(st, n, addr) \in UpsertFileServerPartial(st, n, addr)
           /\ UpsertFileServer(st, n, addr).nodes[n] # None
<1> DEFINE up1 == UpsertFileServer(st, n, addr)
<1>1. /\ st.nodes \in [NodeIds -> NodeDocs \cup {None}] /\ st.next \in 0 .. MaxNum
      /\ \A o \in NodeIds : st.nodes[o] # None => st.nodes[o].num \in Numerics
  BY DEF Stores, NodeDocs
<1>2. \A i \in Numerics : T[i] # None => i < st.next
  BY DEF Numbered
<1>3. CASE Allocates(st, n)
  <2> DEFINE doc == [num |-> st.next, addr |-> addr, status |-> "healthy"]
  <2>1. st.next \in Numerics /\ T[st.next] = None
    BY <1>1, <1>2, <1>3, MetaStoreAssumption DEF Numerics
  <2>2. doc \in NodeDocs /\ doc.num = st.next /\ doc.addr = addr
    BY <2>1 DEF NodeDocs, Statuses
  <2>3. up1.nodes = [st.nodes EXCEPT ![n] = doc] /\ up1.next = st.next + 1
    BY <1>3 DEF UpsertFileServer, Stores
  <2>4. st.nodes[n] = None
    BY <1>3 DEF Allocates
  <2> HIDE DEF doc
  <2>5. doc # None
    BY <2>2, MetaStoreAssumption
  <2> DEFINE bump == [st EXCEPT !.next = @ + 1]
  <2>6. bump.nodes = st.nodes /\ bump.next = st.next + 1
    BY DEF Stores
  <2>7. x = st \/ x = up1 \/ x = bump
    BY <1>3 DEF UpsertFileServerPartial
  <2> HIDE DEF up1, bump
  <2>8. StoreNumbered(x)
    BY <1>1, <2>2, <2>3, <2>4, <2>5, <2>6, <2>7 DEF StoreNumbered, Numerics
  <2>9. Numbered(T, x)
    BY <1>1, <2>3, <2>6, <2>7, MetaStoreAssumption DEF Numbered, Numerics
  <2>10. SlotsAgree(T, x, up)
    BY <1>1, <2>1, <2>2, <2>3, <2>4, <2>5, <2>6, <2>7 DEF SlotsAgree
  <2>11. up1.nodes[n] # None
    BY <1>1, <2>3, <2>5
  <2> QED BY <2>8, <2>9, <2>10, <2>11 DEF up1, UpsertFileServerPartial
<1>4. CASE ~Allocates(st, n)
  <2> DEFINE doc == [num |-> st.nodes[n].num, addr |-> addr, status |-> "healthy"]
  <2>1. st.nodes[n] # None /\ st.nodes[n] \in NodeDocs
    BY <1>1, <1>4 DEF Allocates
  <2>2. doc \in NodeDocs /\ doc.num = st.nodes[n].num /\ doc.addr = addr
    BY <2>1 DEF NodeDocs, Statuses
  <2>3. up1.nodes = [st.nodes EXCEPT ![n] = doc] /\ up1.next = st.next
    BY <1>4, <2>1 DEF UpsertFileServer, Stores, NodeDocs
  <2> HIDE DEF doc
  <2>4. doc # None
    BY <2>2, MetaStoreAssumption
  <2>5. x = st \/ x = up1
    BY <1>4 DEF UpsertFileServerPartial
  <2> HIDE DEF up1
  <2>6. StoreNumbered(x)
    BY <1>1, <2>1, <2>2, <2>3, <2>4, <2>5 DEF StoreNumbered
  <2>7. Numbered(T, x)
    BY <2>3, <2>5 DEF Numbered
  <2>8. SlotsAgree(T, x, up)
    BY <1>1, <2>1, <2>2, <2>3, <2>4, <2>5 DEF SlotsAgree
  <2>9. up1.nodes[n] # None
    BY <1>1, <2>3, <2>4
  <2> QED BY <2>6, <2>7, <2>8, <2>9 DEF up1, UpsertFileServerPartial
<1> QED BY <1>3, <1>4

\* The entry a registration writes is the registrant's, with the load it now has.
LEMMA CommitEntry ==
    ASSUME TypeInv, TypeInv', NEW m \in Machines, NEW i \in Numerics, NEW label,
           Commit(m, i, label), req[m].node \in NodeIds, req[m].addr = m
    PROVE  \E info \in NodeInfos :
              /\ info.node = req[m].node /\ info.addr = m
              /\ info.userCount = countUsers(users', i)
              /\ fileservers' = [fileservers EXCEPT ![i] = info]
<1> DEFINE load == countUsers(users', i)
           info == [node |-> req[m].node, addr |-> req[m].addr, fresh |-> TRUE,
                    status |-> "healthy", userCount |-> load]
<1>1. fileservers' = [fileservers EXCEPT ![i] = info]
  BY DEF Commit
<1>2. load \in Nat
  <2>1. IsFiniteSet({u \in Users : users'[u] = i})
    BY FS_Subset, MetaServerAssumption
  <2> QED BY <2>1, FS_CardinalityType DEF countUsers
<1> HIDE DEF load
<1>3. info \in NodeInfos /\ info.node = req[m].node /\ info.addr = m /\ info.userCount = load
  BY <1>2 DEF NodeInfos, Statuses
<1> HIDE DEF info
<1> QED BY <1>1, <1>3 DEF load

\* A registration commits in memory: at the node's own slot, at the slot of the
\* legacy entry it adopts, or at the free slot the store has numbered it.
LEMMA NumberCommit ==
    ASSUME RevocationInv, TypeInv', NumberInv, NEW m \in Machines, NEW i \in Numerics,
           NEW label \in {"rename", "upsert"}, Commit(m, i, label),
           pc[m] \in Registering \cup {"register"},
           writeOrderMu = m \/ writeOrderMu = Free, store' = store, upgraded' = upgraded,
           \/ fileservers[i] # None /\ fileservers[i].node = req[m].node /\ label = "upsert"
           \/ /\ fileservers[i] # None /\ fileservers[i].addr = m
              /\ fileservers[i].node \in LegacyIds
              /\ Absent(fileservers, req[m].node) /\ req[m].node \in FsIds
           \/ /\ fileservers[i] = None /\ Absent(fileservers, req[m].node)
              /\ store.nodes[req[m].node] # None /\ store.nodes[req[m].node].num = i
              /\ label = "upsert"
    PROVE  NumberInv'
<1> DEFINE r == req[m]
           old == LegacyNodeID(m)
<1>1. /\ TypeInv /\ m \in Callers /\ r \in Requests /\ store \in Stores
      /\ fileservers \in [Numerics -> NodeInfos \cup {None}]
      /\ r.node \in NodeIds /\ r.addr = m /\ r.node = resolveNodeID(m)
  BY CallersDisjoint
  DEF RevocationInv, TypeInv, TypeOK, RequestOK, Fits, NumberInv, RegisterFacts
<1>2. PICK info \in NodeInfos : /\ info.node = r.node /\ info.addr = m
                                /\ fileservers' = [fileservers EXCEPT ![i] = info]
  BY <1>1, CommitEntry
<1>3. /\ pc'[m] = label /\ req'[m].node = r.node
      /\ \A b \in Callers \ {m} : pc'[b] = pc[b] /\ req'[b] = req[b]
  <2> DEFINE q == [r EXCEPT !.num = i, !.purged = Purged(r, i)]
  <2>1. Goto(m, label) /\ Local(m, q)
    BY DEF Commit
  <2>2. q.node = r.node
    BY <1>1 DEF Requests
  <2> HIDE DEF q, r
  <2> QED BY <1>1, <2>1, <2>2, OthersStay
<1> HIDE DEF r, old
<1>4. info # None
  BY NodeInfosAssumption
<1>5. Numbered(fileservers, store) /\ SlotsAgree(fileservers, store, upgraded) /\ StoreNumbered(store)
  BY <1>1, TableNumbered DEF NumberInv
<1>6. \A n \in NodeIds : store.nodes[n] # None => store.nodes[n].num \in Numerics
  BY <1>1 DEF Stores, NodeDocs
<1>7. \A T : ~Retired(T, upgraded, r.node)
  BY <1>1, Identities
<1>8. Numbered(fileservers', store')
  <2>1. i < store.next
    BY <1>1, <1>5 DEF Numbered, StoreNumbered, r
  <2>2. info.node \in LegacyIds => info.node = LegacyNodeID(info.addr)
    BY <1>1, <1>2, Identities
  <2>3. \A j \in Numerics : fileservers[j] # None /\ fileservers[j].node = r.node => j = i
    BY <1>5 DEF Numbered, Absent, r
  <2> QED BY <1>1, <1>2, <1>4, <1>5, <2>1, <2>2, <2>3 DEF Numbered
<1>9. \A n \in NodeIds : Retired(fileservers, upgraded, n) => Retired(fileservers', upgraded, n)
  BY <1>1, <1>2, <1>7 DEF Retired, Absent
<1>10. fileservers[i] # None /\ fileservers[i].node # r.node =>
         /\ fileservers[i].node = old /\ Retired(fileservers', upgraded, old)
         /\ r.node # old /\ m \in upgraded /\ r.node \in FsIds
  <2> SUFFICES ASSUME fileservers[i] # None, fileservers[i].node # r.node
               PROVE  /\ fileservers[i].node = old /\ Retired(fileservers', upgraded, old)
                      /\ r.node # old /\ m \in upgraded /\ r.node \in FsIds
    OBVIOUS
  <2>1. fileservers[i].node = old /\ r.node \in FsIds
    BY <1>5 DEF Numbered, r, old
  <2>2. m \in upgraded /\ r.node # old
    BY <1>1, <2>1, Identities, MetaStoreAssumption DEF LegacyIds, old
  <2>3. Absent(fileservers', old)
    BY <1>1, <1>2, <1>5, <2>1, <2>2 DEF Absent, Numbered
  <2> QED BY <2>1, <2>2, <2>3 DEF Retired, old
<1>11. SlotsAgree(fileservers', store', upgraded')
  <2> SUFFICES ASSUME NEW n \in NodeIds, store.nodes[n] # None,
                      fileservers'[store.nodes[n].num] # None
               PROVE  \/ fileservers'[store.nodes[n].num].node = n
                      \/ Retired(fileservers', upgraded, n)
    BY DEF SlotsAgree
  <2> DEFINE k == store.nodes[n].num
  <2>1. k \in Numerics
    BY <1>6
  <2>2. CASE k # i
    <3>1. fileservers'[k] = fileservers[k]
      BY <1>1, <1>2, <2>1, <2>2
    <3> QED BY <1>5, <1>9, <2>1, <3>1 DEF SlotsAgree
  <2>3. CASE k = i /\ fileservers[i] = None
    <3>1. n = r.node
      BY <1>1, <1>5, <2>3 DEF StoreNumbered, r
    <3> QED BY <1>1, <1>2, <2>3, <3>1
  <2>4. CASE k = i /\ fileservers[i] # None
    <3>1. fileservers[i].node = n \/ Retired(fileservers, upgraded, n)
      BY <1>5, <2>4 DEF SlotsAgree
    <3> QED BY <1>1, <1>2, <1>9, <1>10, <2>4, <3>1
  <2> QED BY <2>2, <2>3, <2>4
<1>12. RegisterFacts(m, pc[m], req[m])'
  <2>1. req'[m].node = resolveNodeID(m)'
    BY <1>1, <1>3 DEF resolveNodeID
  <2>2. CASE label = "upsert"
    BY <1>3, <2>1, <2>2 DEF RegisterFacts, Renaming
  <2>3. CASE label = "rename"
    <3>1. fileservers[i] # None /\ fileservers[i].node # r.node
      BY <2>3 DEF Absent, r
    <3>2. r.node \in FsIds /\ fileservers[i].node = old
      BY <1>10, <3>1
    <3>3. ASSUME store.nodes[old] # None
          PROVE  fileservers'[store.nodes[old].num] # None =>
                    fileservers'[store.nodes[old].num].node = r.node
      <4> DEFINE k == store.nodes[old].num
      <4>1. old \in NodeIds /\ k \in Numerics
        BY <1>6, <3>3, NodeIdTypes DEF old
      <4>2. ~Retired(fileservers, upgraded, old)
        BY <3>1, <3>2 DEF Retired, Absent
      <4>3. fileservers[k] # None => k = i
        BY <1>5, <3>1, <3>2, <3>3, <4>1, <4>2 DEF SlotsAgree, Numbered
      <4> QED BY <1>1, <1>2, <4>1, <4>3
    <3> QED BY <1>3, <2>1, <2>3, <3>2, <3>3 DEF RegisterFacts, OwnSlot, Renaming, old
  <2> QED BY <2>2, <2>3
<1> QED BY <1>3, <1>5, <1>8, <1>11, <1>12, NumberHolder

\* Where a deferred write of a registration leads: to the next one, with the
\* same locals and the lock still held, or back to idle.
LEMMA WriteMoves ==
    ASSUME RevocationInv, NEW m \in Machines, NEW here \in RegisterWriting, NEW st, NEW outcomes,
           NEW label, RegisterWrite(m, here, st, outcomes, label)
    PROVE  /\ TypeInv /\ m \in Callers /\ writeOrderMu = m /\ pc[m] = here
           /\ req[m] \in Requests /\ req[m].node \in NodeIds /\ req[m].addr = m
           /\ req[m].users \subseteq Users /\ req[m].purged \subseteq Users
           /\ req[m].grants \subseteq Grants
           /\ store \in Stores /\ store' \in {st} \cup outcomes
           /\ UNCHANGED <<memory, stalePending, upgraded, disk, released, revoked>>
           /\ \/ pc'[m] = "idle" /\ unsettled' = unsettled \cup RegisterScope(req[m])
              \/ /\ pc'[m] = "idle" /\ label = "done" /\ store' = st
                 /\ unsettled' = unsettled \ RegisterScope(req[m])
              \/ /\ pc'[m] = label /\ label # "done" /\ req'[m] = req[m] /\ store' = st
                 /\ unsettled' = unsettled
           /\ \A b \in Callers \ {m} : pc'[b] = pc[b] /\ req'[b] = req[b]
<1>1. /\ TypeInv /\ m \in Callers /\ store \in Stores /\ req[m] \in Requests
      /\ pc \in [Callers -> Labels] /\ req \in [Callers -> Requests] /\ pc[m] = here
  BY CallersDisjoint DEF RegisterWrite, RevocationInv, TypeInv, TypeOK
<1>2. here \in Registering /\ here \in Holding
  BY DEF Registering, Holding
<1>3. writeOrderMu = m /\ req[m].node \in NodeIds /\ req[m].addr = m
  BY <1>1, <1>2 DEF RevocationInv, HolderOK, TypeInv, RequestOK, Fits
<1>4. /\ req[m].users \subseteq Users /\ req[m].purged \subseteq Users
      /\ req[m].grants \subseteq Grants
  BY <1>1 DEF Requests
<1>5. store' \in {st} \cup outcomes
  BY DEF RegisterWrite, Applied, Failed
<1>6. \/ /\ Goto(m, "idle") /\ Local(m, NoReq)
         /\ unsettled' = unsettled \cup RegisterScope(req[m])
      \/ /\ Goto(m, "idle") /\ Local(m, NoReq) /\ label = "done" /\ store' = st
         /\ unsettled' = unsettled \ RegisterScope(req[m])
      \/ label # "done" /\ Goto(m, label) /\ req' = req /\ store' = st /\ unsettled' = unsettled
  BY DEF RegisterWrite, Applied, Proceed, FinishRegister, AbortRegister, Return
<1>7. \A b \in Callers \ {m} : pc'[b] = pc[b] /\ req'[b] = req[b]
  BY <1>1, <1>6 DEF Goto, Local
<1>8. \A l : Goto(m, l) => pc'[m] = l
  BY <1>1 DEF Goto
<1> QED BY <1>1, <1>3, <1>4, <1>5, <1>6, <1>7, <1>8 DEF RegisterWrite

\* The writes of a registration that concern users and shares.
UserWriting == {"purgeUsers", "purgeShares", "assign", "clear", "grant"}

\* They leave memory and the documents of the store alone.
LEMMA UserWrites ==
    ASSUME RevocationInv, NEW m \in Machines,
           \/ PurgeUsers(m) \/ PurgeShares(m) \/ PersistUsers(m) \/ ClearShares(m)
           \/ PersistShares(m)
    PROVE  /\ SameDocs(store, store') /\ writeOrderMu = m /\ pc[m] \in UserWriting
           /\ UNCHANGED <<memory, upgraded>>
           /\ pc'[m] = "idle" \/ (pc'[m] \in UserWriting /\ req'[m] = req[m])
           /\ \A b \in Callers \ {m} : pc'[b] = pc[b] /\ req'[b] = req[b]
<1> DEFINE r == req[m]
           Goal == /\ SameDocs(store, store') /\ writeOrderMu = m /\ pc[m] \in UserWriting
                   /\ UNCHANGED <<memory, upgraded>>
                   /\ pc'[m] = "idle" \/ (pc'[m] \in UserWriting /\ req'[m] = req[m])
                   /\ \A b \in Callers \ {m} : pc'[b] = pc[b] /\ req'[b] = req[b]
<1>1. /\ store \in Stores /\ r.users \subseteq Users /\ r.purged \subseteq Users
      /\ r.grants \subseteq Grants
  BY CallersDisjoint DEF RevocationInv, TypeInv, TypeOK, Requests
<1>2. Involving(r.purged) \subseteq Grants /\ OwnedBy(r.users) \subseteq Grants
  BY DEF Involving, OwnedBy
<1>3. AfterPurge(r) \in UserWriting \cup {"done"} /\ AfterClear(r) \in UserWriting \cup {"done"}
  BY DEF AfterPurge, AfterClear, UserWriting
<1>4. /\ "purgeUsers" \in UserWriting /\ "purgeShares" \in UserWriting
      /\ "assign" \in UserWriting /\ "clear" \in UserWriting /\ "grant" \in UserWriting
      /\ UserWriting \subseteq RegisterWriting
  BY DEF UserWriting, RegisterWriting
<1>5. ASSUME NEW here \in UserWriting, NEW st, NEW outcomes, NEW label \in UserWriting \cup {"done"},
             RegisterWrite(m, here, st, outcomes, label),
             \A x \in {st} \cup outcomes : SameDocs(store, x)
      PROVE  Goal
  BY <1>4, <1>5, WriteMoves
<1> SUFFICES Goal
  OBVIOUS
<1> HIDE DEF Goal
<1>6. CASE PurgeUsers(m)
  <2> DEFINE st == RemoveUsers(store, r.purged)
             outcomes == RemoveUsersPartial(store, r.purged)
  <2>1. \A x \in {st} \cup outcomes : SameDocs(store, x)
    BY <1>1, DocsUntouched
  <2>2. RegisterWrite(m, "purgeUsers", st, outcomes, "purgeShares")
    BY <1>6 DEF PurgeUsers
  <2> HIDE DEF st, outcomes
  <2> QED BY <1>4, <1>5, <2>1, <2>2
<1>7. CASE PurgeShares(m)
  <2> DEFINE st == RemoveSharesInvolving(store, r.purged)
             outcomes == DropSharesPartial(store, Involving(r.purged))
  <2>1. \A x \in {st} \cup outcomes : SameDocs(store, x)
    BY <1>1, <1>2, DocsUntouched DEF RemoveSharesInvolving
  <2>2. RegisterWrite(m, "purgeShares", st, outcomes, AfterPurge(r))
    BY <1>7 DEF PurgeShares
  <2> HIDE DEF st, outcomes
  <2> QED BY <1>3, <1>4, <1>5, <2>1, <2>2
<1>8. CASE PersistUsers(m)
  <2> DEFINE st == AssignUsers(store, r.node, r.users)
             outcomes == AssignUsersPartial(store, r.node, r.users)
  <2>1. r.node \in NodeIds
    BY <1>8, CallersDisjoint DEF PersistUsers, RegisterWrite, RevocationInv, TypeInv, RequestOK,
                                 Fits, Registering, RegisterWriting
  <2>2. \A x \in {st} \cup outcomes : SameDocs(store, x)
    BY <1>1, <2>1, DocsUntouched
  <2>3. RegisterWrite(m, "assign", st, outcomes, "clear")
    BY <1>8 DEF PersistUsers
  <2> HIDE DEF st, outcomes
  <2> QED BY <1>4, <1>5, <2>2, <2>3
<1>9. CASE ClearShares(m)
  <2> DEFINE st == RemoveSharesByOwner(store, r.users)
             outcomes == DropSharesPartial(store, OwnedBy(r.users))
  <2>1. \A x \in {st} \cup outcomes : SameDocs(store, x)
    BY <1>1, <1>2, DocsUntouched DEF RemoveSharesByOwner
  <2>2. RegisterWrite(m, "clear", st, outcomes, AfterClear(r))
    BY <1>9 DEF ClearShares
  <2> HIDE DEF st, outcomes
  <2> QED BY <1>3, <1>4, <1>5, <2>1, <2>2
<1>10. CASE PersistShares(m)
  <2> DEFINE st == AddShares(store, r.grants)
             outcomes == AddSharesPartial(store, r.grants)
  <2>1. \A x \in {st} \cup outcomes : SameDocs(store, x)
    BY <1>1, DocsUntouched
  <2>2. RegisterWrite(m, "grant", st, outcomes, "done")
    BY <1>10 DEF PersistShares
  <2> HIDE DEF st, outcomes
  <2> QED BY <1>4, <1>5, <2>1, <2>2
<1> QED BY <1>6, <1>7, <1>8, <1>9, <1>10

\* What a registration that finds no entry of its own knows about the table.
LEMMA NewTarget ==
    ASSUME NEW r, NEW t \in Targets(r)
    PROVE  /\ t.num = None => Absent(fileservers, r.node)
           /\ t.num # None /\ ~t.adopt =>
                 fileservers[t.num] # None /\ fileservers[t.num].node = r.node
           /\ t.num # None /\ t.adopt =>
                 /\ fileservers[t.num] # None /\ fileservers[t.num].addr = r.addr
                 /\ fileservers[t.num].node \in LegacyIds
                 /\ Absent(fileservers, r.node) /\ r.node \in FsIds
<1>1. None \notin Numerics
  BY MetaStoreAssumption
<1>2. CASE ByNodeID(r.node) # {}
  <2>1. PICK i \in ByNodeID(r.node) : t = [num |-> i, adopt |-> FALSE]
    BY <1>2 DEF Targets
  <2> QED BY <1>1, <2>1 DEF ByNodeID
<1>3. CASE ByNodeID(r.node) = {} /\ r.node \in FsIds /\ ByAddress(r.addr) # {}
  <2>1. PICK i \in ByAddress(r.addr) :
          t = IF fileservers[i].node \in LegacyIds
              THEN [num |-> i, adopt |-> TRUE] ELSE [num |-> None, adopt |-> FALSE]
    BY <1>3 DEF Targets
  <2> QED BY <1>3, <2>1 DEF ByAddress, ByNodeID, Absent
<1>4. CASE ByNodeID(r.node) = {} /\ ~(r.node \in FsIds /\ ByAddress(r.addr) # {})
  <2>1. t = [num |-> None, adopt |-> FALSE]
    BY <1>4 DEF Targets
  <2> QED BY <1>4, <2>1 DEF ByNodeID, Absent
<1> QED BY <1>2, <1>3, <1>4

\* A registration that has written its node document, or has ended.
LEMMA NumberAfter ==
    ASSUME RevocationInv, TypeInv', NumberInv, NEW m \in Machines, writeOrderMu = m,
           \A b \in Callers \ {m} : pc'[b] = pc[b] /\ req'[b] = req[b],
           fileservers' = fileservers, upgraded' = upgraded, StoreNumbered(store'),
           Numbered(fileservers, store'), SlotsAgree(fileservers, store', upgraded),
           \/ pc'[m] = "idle"
           \/ /\ pc'[m] \in UserWriting \cup {"upsert"} /\ req'[m].node = req[m].node
              /\ pc[m] \in RegisterWriting
    PROVE  NumberInv'
<1>1. pc[m] \in RegisterWriting => req[m].node = resolveNodeID(m)
  BY DEF NumberInv, RegisterFacts, Registering
<1>2. RegisterFacts(m, pc[m], req[m])'
  BY <1>1 DEF RegisterFacts, Registering, RegisterWriting, UserWriting, Renaming, resolveNodeID
<1> QED BY <1>2, NumberHolder

\* The chain of a registration.
LEMMA NumberRegister ==
    ASSUME RevocationInv, TypeInv', NumberInv, NEW m \in Machines, RegisterStep(m)
    PROVE  NumberInv'
<1> DEFINE r == req[m]
           old == LegacyNodeID(m)
<1>1. /\ TypeInv /\ m \in Callers /\ store \in Stores /\ r \in Requests
      /\ pc \in [Callers -> Labels] /\ req \in [Callers -> Requests]
      /\ old \in NodeIds /\ store' \in Stores
  BY CallersDisjoint, NodeIdTypes DEF RevocationInv, TypeInv, TypeOK
<1>2. /\ Numbered(fileservers, store) /\ SlotsAgree(fileservers, store, upgraded)
      /\ StoreNumbered(store) /\ RegisterFacts(m, pc[m], r)
  BY <1>1, TableNumbered DEF NumberInv
<1>3. pc[m] \in Registering => writeOrderMu = m /\ r.node \in NodeIds /\ r.addr = m
  BY <1>1 DEF RevocationInv, HolderOK, Holding, TypeInv, RequestOK, Fits
<1>4. pc[m] \in Registering \cup {"register"} => r.node = resolveNodeID(m)
  BY <1>2 DEF RegisterFacts
<1>5. SameNodes(fileservers, fileservers)
  BY DEF SameNodes
<1>6. CASE RegisterKnown(m)
  <2>1. PICK t \in Targets(r) :
          t.num # None /\ Commit(m, t.num, IF t.adopt THEN "rename" ELSE "upsert")
    BY <1>6 DEF RegisterKnown
  <2>2. t.num \in Numerics /\ t.adopt \in BOOLEAN
    BY <2>1, TargetTypes
  <2>3. pc[m] = "register" /\ writeOrderMu = Free /\ store' = store /\ upgraded' = upgraded
    BY <1>6 DEF RegisterKnown, Lock, machines
  <2>4. r.addr = m
    BY <1>1, <2>3 DEF TypeInv, RequestOK, Fits
  <2>5. CASE t.adopt
    BY <2>1, <2>2, <2>3, <2>4, <2>5, NewTarget, NumberCommit
  <2>6. CASE ~t.adopt
    BY <2>1, <2>2, <2>3, <2>6, NewTarget, NumberCommit
  <2> QED BY <2>5, <2>6
<1>7. CASE RegisterNew(m)
  <2>1. /\ pc[m] = "register" /\ writeOrderMu = Free /\ store' = store /\ upgraded' = upgraded
        /\ fileservers' = fileservers /\ req' = req
    BY <1>7 DEF RegisterNew, Lock, machines, memory
  <2>2. pc'[m] = "alloc" /\ \A b \in Callers \ {m} : pc'[b] = pc[b] /\ req'[b] = req[b]
    BY <1>1, <1>7, <2>1 DEF RegisterNew, Goto
  <2>3. PICK t \in Targets(r) : t.num = None
    BY <1>7 DEF RegisterNew
  <2>4. Absent(fileservers, r.node)
    BY <2>3, NewTarget
  <2>5. RegisterFacts(m, pc[m], req[m])'
    BY <1>4, <2>1, <2>2, <2>4 DEF RegisterFacts, Renaming, resolveNodeID
  <2> QED BY <1>2, <2>1, <2>2, <2>5, NumberHolder
<1>8. CASE RejectRegister(m)
  BY <1>1, <1>8, NumberOutside
<1>9. CASE AllocateNode(m)
  <2> DEFINE st == UpsertFileServer(store, r.node, m)
             outcomes == UpsertFileServerPartial(store, r.node, m)
  <2>1. pc[m] = "alloc" /\ writeOrderMu = m /\ r.node \in NodeIds /\ r.node = resolveNodeID(m)
    BY <1>3, <1>4, <1>9 DEF AllocateNode, Registering
  <2>2. r.node \in LegacyIds => r.node = LegacyNodeID(m)
    BY <2>1, Identities
  <2>3. \A x \in outcomes : StoreNumbered(x) /\ Numbered(fileservers, x)
                              /\ SlotsAgree(fileservers, x, upgraded)
    BY <1>1, <1>2, <1>9, <2>1, <2>2, UpsertNumbering DEF AllocateNode
  <2>4. st \in outcomes /\ store \in outcomes
    BY DEF UpsertFileServerPartial
  <2>5. st.nodes[r.node] # None
    BY <1>1, <1>2, <1>9, <2>1, <2>2, <2>4, UpsertNumbering DEF AllocateNode
  <2>6. fileservers' = fileservers /\ upgraded' = upgraded
    BY <1>9 DEF AllocateNode, memory
  <2>7. \/ /\ store' = st /\ Goto(m, "commit")
           /\ Local(m, [r EXCEPT !.num = st.nodes[r.node].num])
        \/ store' \in outcomes /\ Goto(m, "idle") /\ Local(m, NoReq)
    BY <1>9 DEF AllocateNode, Applied, Failed, AbortRegister, Return
  <2> HIDE DEF st, outcomes
  <2>8. CASE /\ store' = st /\ Goto(m, "commit")
             /\ Local(m, [r EXCEPT !.num = st.nodes[r.node].num])
    <3> DEFINE q == [r EXCEPT !.num = st.nodes[r.node].num]
    <3>1. q.node = r.node /\ q.num = st.nodes[r.node].num
      BY <1>1 DEF Requests
    <3>2. Local(m, q)
      BY <2>8
    <3> HIDE DEF q, r
    <3>3. /\ pc'[m] = "commit" /\ req'[m] = q
          /\ \A b \in Callers \ {m} : pc'[b] = pc[b] /\ req'[b] = req[b]
      BY <1>1, <2>8, <3>2, OthersStay
    <3>4. Absent(fileservers, r.node)
      BY <1>2, <2>1 DEF RegisterFacts
    <3>5. RegisterFacts(m, pc[m], req[m])'
      BY <2>1, <2>5, <2>6, <2>8, <3>1, <3>3, <3>4 DEF RegisterFacts, Renaming, resolveNodeID
    <3> QED BY <2>1, <2>3, <2>4, <2>6, <2>8, <3>3, <3>5, NumberHolder
  <2>9. CASE store' \in outcomes /\ Goto(m, "idle") /\ Local(m, NoReq)
    <3>1. pc'[m] = "idle" /\ \A b \in Callers \ {m} : pc'[b] = pc[b] /\ req'[b] = req[b]
      BY <1>1, <2>9, OthersStay
    <3> QED BY <2>1, <2>3, <2>6, <2>9, <3>1, NumberAfter
  <2> QED BY <2>7, <2>8, <2>9
<1>10. CASE CommitNew(m)
  <2>1. pc[m] = "commit" /\ writeOrderMu = m /\ store' = store /\ upgraded' = upgraded
    BY <1>3, <1>10 DEF CommitNew, Registering, machines
  <2>2. r.num \in Numerics
    BY <1>1, <2>1 DEF TypeInv, RequestOK, Fits
  <2>3. /\ Absent(fileservers, r.node) /\ store.nodes[r.node] # None
        /\ store.nodes[r.node].num = r.num
    BY <1>2, <2>1 DEF RegisterFacts
  <2>4. fileservers[r.num] = None /\ Commit(m, r.num, "upsert") /\ pc[m] \in Registering
    BY <1>10, <2>1 DEF CommitNew, RecheckPasses, Registering
  <2> QED BY <2>1, <2>2, <2>3, <2>4, NumberCommit
<1>11. CASE RenameUsers(m)
  <2>1. /\ pc[m] = "rename" /\ pc[m] \in RegisterWriting
        /\ fileservers' = fileservers /\ upgraded' = upgraded
    BY <1>11 DEF RenameUsers, memory, RegisterWriting
  <2>2. writeOrderMu = m /\ r.node \in NodeIds /\ r.node = resolveNodeID(m) /\ r.node \in FsIds
    BY <1>2, <1>3, <1>4, <2>1 DEF Registering, RegisterFacts, Renaming
  <2>3. SameDocs(store, store')
    BY <1>1, <1>11, <2>2, DocsUntouched DEF RenameUsers, Applied, Failed
  <2>4. /\ StoreNumbered(store') /\ Numbered(fileservers, store')
        /\ SlotsAgree(fileservers, store', upgraded)
    BY <1>1, <1>2, <1>5, <2>3, SameNumbering
  <2>5. \/ /\ store.nodes[old] # None /\ Goto(m, "renameRemove")
           /\ Local(m, [r EXCEPT !.oldDoc = store.nodes[old]])
        \/ Goto(m, "upsert") /\ req' = req
        \/ Goto(m, "idle") /\ Local(m, NoReq)
    BY <1>11 DEF RenameUsers, AbortRegister, Return
  <2>6. CASE /\ store.nodes[old] # None /\ Goto(m, "renameRemove")
             /\ Local(m, [r EXCEPT !.oldDoc = store.nodes[old]])
    <3> DEFINE q == [r EXCEPT !.oldDoc = store.nodes[old]]
    <3>1. q.node = r.node /\ q.oldDoc = store.nodes[old]
      BY <1>1 DEF Requests
    <3>2. Local(m, q)
      BY <2>6
    <3> HIDE DEF q, r
    <3>3. /\ pc'[m] = "renameRemove" /\ req'[m] = q
          /\ \A b \in Callers \ {m} : pc'[b] = pc[b] /\ req'[b] = req[b]
      BY <1>1, <2>6, <3>2, OthersStay
    <3>4. OwnSlot(store.nodes[old].num, r.node)
      BY <1>2, <2>1, <2>6 DEF RegisterFacts
    <3>5. store'.nodes[old] # None /\ store'.nodes[old].num = store.nodes[old].num
      BY <1>1, <2>3, <2>6 DEF SameDocs
    <3>6. RegisterFacts(m, pc[m], req[m])'
      BY <2>1, <2>2, <2>6, <3>1, <3>3, <3>4, <3>5 DEF RegisterFacts, OwnSlot, resolveNodeID
    <3> QED BY <2>1, <2>2, <2>4, <3>3, <3>6, NumberHolder
  <2>7. CASE Goto(m, "upsert") /\ req' = req
    <3>1. pc'[m] = "upsert" /\ \A b \in Callers \ {m} : pc'[b] = pc[b] /\ req'[b] = req[b]
      BY <1>1, <2>7 DEF Goto
    <3> QED BY <2>1, <2>2, <2>4, <2>7, <3>1, NumberAfter
  <2>8. CASE Goto(m, "idle") /\ Local(m, NoReq)
    <3>1. pc'[m] = "idle" /\ \A b \in Callers \ {m} : pc'[b] = pc[b] /\ req'[b] = req[b]
      BY <1>1, <2>8, OthersStay
    <3> QED BY <2>1, <2>2, <2>4, <3>1, NumberAfter
  <2> QED BY <2>5, <2>6, <2>7, <2>8
<1>12. CASE RenameRemove(m)
  <2> DEFINE st == RenameRemoveOld(store, old)
  <2>1. RegisterWrite(m, "renameRemove", st, {store, st}, "renameInsert")
        /\ "renameRemove" \in RegisterWriting
    BY <1>12 DEF RenameRemove, RegisterWriting
  <2>2. st.nodes = [store.nodes EXCEPT ![old] = None] /\ st.next = store.next
    BY <1>1 DEF RenameRemoveOld, Stores
  <2> HIDE DEF st
  <2>3. /\ pc[m] = "renameRemove" /\ writeOrderMu = m /\ store' \in {st, store}
        /\ fileservers' = fileservers /\ upgraded' = upgraded
        /\ pc'[m] = "idle" \/ (pc'[m] = "renameInsert" /\ req'[m] = req[m] /\ store' = st)
        /\ \A b \in Callers \ {m} : pc'[b] = pc[b] /\ req'[b] = req[b]
    BY <2>1, WriteMoves DEF memory
  <2>4. store.nodes \in [NodeIds -> NodeDocs \cup {None}]
    BY <1>1 DEF Stores
  <2>5. /\ StoreNumbered(store') /\ Numbered(fileservers, store')
        /\ SlotsAgree(fileservers, store', upgraded)
    BY <1>1, <1>2, <2>2, <2>3, <2>4 DEF StoreNumbered, Numbered, SlotsAgree
  <2>6. CASE pc'[m] = "idle"
    BY <2>3, <2>5, <2>6, NumberAfter
  <2>7. CASE pc'[m] = "renameInsert" /\ req'[m] = req[m] /\ store' = st
    <3>1. /\ r.node = resolveNodeID(m) /\ r.node \in FsIds /\ r.oldDoc # None
          /\ r.oldDoc.num = store.nodes[old].num /\ store.nodes[old] # None
          /\ OwnSlot(r.oldDoc.num, r.node)
      BY <1>2, <1>4, <2>3 DEF RegisterFacts, Renaming, Registering, RegisterWriting
    <3>2. /\ r.oldDoc.num < store'.next
          /\ \A n \in NodeIds : store'.nodes[n] # None => store'.nodes[n].num # r.oldDoc.num
      BY <1>1, <1>2, <2>2, <2>4, <2>7, <3>1 DEF StoreNumbered
    <3>3. RegisterFacts(m, pc[m], req[m])'
      BY <2>3, <2>7, <3>1, <3>2 DEF RegisterFacts, OwnSlot, resolveNodeID
    <3> QED BY <2>3, <2>5, <3>3, NumberHolder
  <2> QED BY <2>3, <2>6, <2>7
<1>13. CASE RenameInsert(m)
  <2> DEFINE st == RenameInsertNew(store, r.oldDoc, r.node)
  <2>1. RegisterWrite(m, "renameInsert", st, {store, st}, "upsert")
        /\ "renameInsert" \in RegisterWriting
    BY <1>13 DEF RenameInsert, RegisterWriting
  <2>2. /\ st.nodes = [store.nodes EXCEPT ![r.node] = IF @ = None THEN r.oldDoc ELSE @]
        /\ st.next = store.next
    BY <1>1 DEF RenameInsertNew, Stores
  <2> HIDE DEF st
  <2>3. /\ pc[m] = "renameInsert" /\ writeOrderMu = m /\ store' \in {st, store}
        /\ fileservers' = fileservers /\ upgraded' = upgraded
        /\ pc'[m] = "idle" \/ (pc'[m] = "upsert" /\ req'[m] = req[m])
        /\ \A b \in Callers \ {m} : pc'[b] = pc[b] /\ req'[b] = req[b]
    BY <2>1, WriteMoves DEF memory
  <2>4. store.nodes \in [NodeIds -> NodeDocs \cup {None}]
    BY <1>1 DEF Stores
  <2>5. /\ r.node \in FsIds /\ r.node \in NodeIds /\ r.node \notin LegacyIds
        /\ r.oldDoc # None /\ r.oldDoc.num < store.next
        /\ OwnSlot(r.oldDoc.num, r.node)
        /\ \A n \in NodeIds : store.nodes[n] # None => store.nodes[n].num # r.oldDoc.num
    BY <1>2, <2>3, MetaStoreAssumption DEF RegisterFacts, Renaming, NodeIds
  <2>6. StoreNumbered(store')
    BY <1>2, <2>2, <2>3, <2>4, <2>5 DEF StoreNumbered
  <2>7. Numbered(fileservers, store')
    BY <1>2, <2>2, <2>3 DEF Numbered
  <2>8. SlotsAgree(fileservers, store', upgraded)
    BY <1>2, <2>2, <2>3, <2>4, <2>5 DEF SlotsAgree, OwnSlot
  <2> QED BY <2>1, <2>3, <2>6, <2>7, <2>8, NumberAfter
<1>14. CASE PersistNode(m)
  <2> DEFINE st == UpsertFileServer(store, r.node, m)
             outcomes == UpsertFileServerPartial(store, r.node, m)
  <2>1. RegisterWrite(m, "upsert", st, outcomes, AfterUpsert(r)) /\ "upsert" \in RegisterWriting
    BY <1>14 DEF PersistNode, RegisterWriting
  <2>2. pc[m] = "upsert" /\ r.node \in NodeIds /\ r.node = resolveNodeID(m)
    BY <1>3, <1>4, <2>1 DEF RegisterWrite, Registering
  <2>3. r.node \in LegacyIds => r.node = LegacyNodeID(m)
    BY <2>2, Identities
  <2>4. \A x \in outcomes : StoreNumbered(x) /\ Numbered(fileservers, x)
                              /\ SlotsAgree(fileservers, x, upgraded)
    BY <1>1, <1>2, <1>14, <2>2, <2>3, UpsertNumbering DEF PersistNode
  <2>5. st \in outcomes
    BY DEF UpsertFileServerPartial
  <2>6. AfterUpsert(r) \in UserWriting \cup {"done"}
    BY DEF AfterUpsert, AfterPurge, UserWriting
  <2> HIDE DEF st, outcomes
  <2>7. /\ writeOrderMu = m /\ store' \in outcomes
        /\ fileservers' = fileservers /\ upgraded' = upgraded
        /\ pc'[m] = "idle" \/ (pc'[m] \in UserWriting /\ req'[m] = req[m])
        /\ \A b \in Callers \ {m} : pc'[b] = pc[b] /\ req'[b] = req[b]
    BY <2>1, <2>5, <2>6, WriteMoves DEF memory
  <2> QED BY <2>1, <2>2, <2>4, <2>7, NumberAfter
<1>15. CASE PurgeUsers(m) \/ PurgeShares(m) \/ PersistUsers(m) \/ ClearShares(m) \/ PersistShares(m)
  <2>1. /\ SameDocs(store, store') /\ writeOrderMu = m /\ pc[m] \in RegisterWriting
        /\ fileservers' = fileservers /\ upgraded' = upgraded
        /\ pc'[m] = "idle" \/ (pc'[m] \in UserWriting /\ req'[m] = req[m])
        /\ \A b \in Callers \ {m} : pc'[b] = pc[b] /\ req'[b] = req[b]
    BY <1>15, UserWrites DEF memory, UserWriting, RegisterWriting
  <2>2. /\ StoreNumbered(store') /\ Numbered(fileservers, store')
        /\ SlotsAgree(fileservers, store', upgraded)
    BY <1>1, <1>2, <1>5, <2>1, SameNumbering
  <2> QED BY <2>1, <2>2, NumberAfter
<1> QED BY <1>6, <1>7, <1>8, <1>9, <1>10, <1>11, <1>12, <1>13, <1>14, <1>15 DEF RegisterStep

\* Registering or not, the machines stay out of the administrator's request.
LEMMA NumberAdmin ==
    ASSUME RevocationInv, NumberInv, writeOrderMu = Admin \/ writeOrderMu = Free,
           \A b \in Callers \ {Admin} : pc'[b] = pc[b] /\ req'[b] = req[b],
           upgraded' = upgraded, StoreNumbered(store'), Numbered(Restored', store'),
           SlotsAgree(Restored', store', upgraded), SlotIsKept'
    PROVE  NumberInv'
<1>1. ASSUME NEW m \in Machines PROVE RegisterFacts(m, pc[m], req[m])'
  <2>1. pc'[m] = pc[m] /\ req'[m] = req[m]
    BY CallersDisjoint
  <2>2. pc[m] \notin Registering
    BY CallersDisjoint, CallersAssumption DEF RevocationInv, HolderOK, Holding
  <2>3. pc[m] = "register" => req[m].node = resolveNodeID(m)
    BY DEF NumberInv, RegisterFacts
  <2> QED BY <2>1, <2>2, <2>3
          DEF RegisterFacts, Registering, RegisterWriting, Renaming, resolveNodeID
<1> QED BY <1>1 DEF NumberInv

\* Removing documents cannot break the numbering.
LEMMA SmallerStore ==
    ASSUME NEW T, NEW up, NEW st \in Stores, NEW n \in NodeIds,
           StoreNumbered(st), Numbered(T, st), SlotsAgree(T, st, up)
    PROVE  /\ StoreNumbered(RemoveFileServer(st, n)) /\ Numbered(T, RemoveFileServer(st, n))
           /\ SlotsAgree(T, RemoveFileServer(st, n), up)
<1>1. /\ RemoveFileServer(st, n).nodes = [st.nodes EXCEPT ![n] = None]
      /\ RemoveFileServer(st, n).next = st.next
      /\ st.nodes \in [NodeIds -> NodeDocs \cup {None}]
  BY DEF RemoveFileServer, Stores
<1> QED BY <1>1 DEF StoreNumbered, Numbered, SlotsAgree

\* Where a write of a deregistration leads.
LEMMA DropMoves ==
    ASSUME RevocationInv, NEW here \in Dropping, NEW st, NEW outcomes,
           NEW label, DeregWrite(here, st, outcomes, label)
    PROVE  /\ TypeInv /\ writeOrderMu = Admin /\ pc[Admin] = here
           /\ req[Admin] \in Requests /\ req[Admin].node \in NodeIds
           /\ req[Admin].users \subseteq Users /\ req[Admin].prev \in Snapshots
           /\ store \in Stores /\ store' \in {st} \cup outcomes
           /\ UNCHANGED <<stalePending, machines, released, revoked>>
           /\ \/ /\ pc'[Admin] = label /\ label # "done" /\ req'[Admin] = req[Admin]
                 /\ store' = st /\ UNCHANGED <<memory, unsettled, writeOrderMu>>
              \/ /\ pc'[Admin] = "idle" /\ label = "done" /\ store' = st /\ UNCHANGED memory
                 /\ unsettled' = unsettled \ DeregScope(req[Admin]) /\ writeOrderMu' = Free
              \/ /\ pc'[Admin] = "idle" /\ RollBackDeregister /\ writeOrderMu' = Free
                 /\ unsettled' = unsettled \cup DeregScope(req[Admin])
           /\ \A b \in Callers \ {Admin} : pc'[b] = pc[b] /\ req'[b] = req[b]
<1>1. /\ TypeInv /\ Admin \in Callers /\ store \in Stores /\ req[Admin] \in Requests
      /\ pc \in [Callers -> Labels] /\ req \in [Callers -> Requests] /\ pc[Admin] = here
  BY CallersDisjoint DEF DeregWrite, RevocationInv, TypeInv, TypeOK
<1>2. here \in Holding
  BY DEF Holding
<1>3. writeOrderMu = Admin /\ req[Admin].node \in NodeIds /\ req[Admin].prev \in Snapshots
  BY <1>1, <1>2 DEF RevocationInv, HolderOK, TypeInv, RequestOK, Fits
<1>4. req[Admin].users \subseteq Users
  BY <1>1 DEF Requests
<1>5. store' \in {st} \cup outcomes
  BY DEF DeregWrite, Applied, Failed
<1>6. UNCHANGED <<stalePending, machines, released, revoked>>
  BY DEF DeregWrite
<1>7. \/ /\ Goto(Admin, label) /\ label # "done" /\ req' = req /\ store' = st
         /\ UNCHANGED <<memory, unsettled, writeOrderMu>>
      \/ /\ Goto(Admin, "idle") /\ Local(Admin, NoReq) /\ writeOrderMu' = Free
         /\ label = "done" /\ store' = st /\ UNCHANGED memory
         /\ unsettled' = unsettled \ DeregScope(req[Admin])
      \/ /\ Goto(Admin, "idle") /\ Local(Admin, NoReq) /\ writeOrderMu' = Free
         /\ RollBackDeregister /\ unsettled' = unsettled \cup DeregScope(req[Admin])
  BY DEF DeregWrite, Applied, Return
<1>8. \A b \in Callers \ {Admin} : pc'[b] = pc[b] /\ req'[b] = req[b]
  BY <1>1, <1>7 DEF Goto, Local
<1>9. \A l : Goto(Admin, l) => pc'[Admin] = l
  BY <1>1 DEF Goto
<1> QED BY <1>1, <1>3, <1>4, <1>5, <1>6, <1>7, <1>8, <1>9

\* A deregistration frees a slot that a rollback can fill again.
LEMMA NumberDeregister ==
    ASSUME RevocationInv, TypeInv', NumberInv, DeregisterStep
    PROVE  NumberInv'
<1> DEFINE r == req[Admin]
<1>1. /\ TypeInv /\ Admin \in Callers /\ store \in Stores /\ r \in Requests /\ store' \in Stores
      /\ pc \in [Callers -> Labels] /\ req \in [Callers -> Requests]
      /\ fileservers \in [Numerics -> NodeInfos \cup {None}]
      /\ r.num \in Numerics \cup {None}
  BY CallersDisjoint DEF RevocationInv, TypeInv, TypeOK, Requests
<1>2. /\ Numbered(Restored, store) /\ SlotsAgree(Restored, store, upgraded)
      /\ StoreNumbered(store) /\ SlotIsKept
  BY DEF NumberInv
<1>3. /\ Numbered(fileservers, store) /\ SlotsAgree(fileservers, store, upgraded)
  BY <1>1, TableNumbered
<1>4. SameDocs(store, store) /\ None \notin Numerics
  BY <1>1, DocsUntouched, MetaStoreAssumption
<1>5. CASE DeregisterFileServer
  <2>1. PICK t \in DeregTargets :
          /\ Found(t)
          /\ \E U : Local(Admin, [NoReq EXCEPT
                !.node = t.node, !.num = t.num, !.users = U,
                !.prev = [info |-> IF t.num = None THEN None ELSE fileservers[t.num],
                          users |-> users, orphanedUsers |-> orphanedUsers,
                          shared |-> shared]])
          /\ fileservers' = IF t.num = None THEN fileservers
                            ELSE [fileservers EXCEPT ![t.num] = None]
    BY <1>5 DEF DeregisterFileServer
  <2>2. t.num \in Numerics \cup {None} /\ (t.num # None => fileservers[t.num] # None)
    BY <2>1 DEF DeregTargets, Found, ByNodeID
  <2>3. PICK U : Local(Admin, [NoReq EXCEPT
                !.node = t.node, !.num = t.num, !.users = U,
                !.prev = [info |-> IF t.num = None THEN None ELSE fileservers[t.num],
                          users |-> users, orphanedUsers |-> orphanedUsers,
                          shared |-> shared]])
    BY <2>1
  <2>4. /\ req'[Admin].num = t.num
        /\ req'[Admin].prev.info = IF t.num = None THEN None ELSE fileservers[t.num]
        /\ pc'[Admin] \in Dropping
        /\ \A b \in Callers \ {Admin} : pc'[b] = pc[b] /\ req'[b] = req[b]
    BY <1>1, <1>5, <2>3 DEF DeregisterFileServer, Local, Goto, NoReq, Dropping
  <2>5. store' = store /\ upgraded' = upgraded /\ writeOrderMu = Free
    BY <1>5 DEF DeregisterFileServer, machines, Lock
  <2>6. SlotIsKept'
    BY <1>1, <2>1, <2>2, <2>4 DEF SlotIsKept
  <2>7. \A i \in Numerics : Restored'[i] = fileservers[i]
    BY <1>1, <2>1, <2>2, <2>4 DEF Restored
  <2>8. SameNodes(fileservers, Restored')
    BY <2>7 DEF SameNodes
  <2>9. Numbered(Restored', store') /\ SlotsAgree(Restored', store', upgraded)
    BY <1>1, <1>3, <1>4, <2>5, <2>8, SameNumbering
  <2> QED BY <1>2, <2>4, <2>5, <2>6, <2>9, NumberAdmin
<1>6. ASSUME NEW here \in Dropping, NEW st, NEW outcomes, NEW label \in Dropping \cup {"done"},
             DeregWrite(here, st, outcomes, label),
             \A x \in {st} \cup outcomes : \/ SameDocs(store, x)
                                           \/ x = RemoveFileServer(store, r.node)
      PROVE  NumberInv'
  <2>1. /\ writeOrderMu = Admin /\ pc[Admin] \in Dropping /\ r.node \in NodeIds
        /\ store' \in {st} \cup outcomes /\ upgraded' = upgraded
        /\ \A b \in Callers \ {Admin} : pc'[b] = pc[b] /\ req'[b] = req[b]
        /\ \/ pc'[Admin] \in Dropping /\ req'[Admin] = r /\ fileservers' = fileservers
           \/ pc'[Admin] = "idle" /\ fileservers' = fileservers
           \/ pc'[Admin] = "idle" /\ RollBackDeregister
    BY <1>6, DropMoves DEF memory, machines
  <2>2. SameDocs(store, store') \/ store' = RemoveFileServer(store, r.node)
    BY <1>6, <2>1
  <2>3. SameNodes(Restored, Restored)
    BY DEF SameNodes
  <2>4. /\ StoreNumbered(store') /\ Numbered(Restored, store')
        /\ SlotsAgree(Restored, store', upgraded)
    BY <1>1, <1>2, <2>1, <2>2, <2>3, SameNumbering, SmallerStore
  <2>5. CASE pc'[Admin] \in Dropping /\ req'[Admin] = r /\ fileservers' = fileservers
    <3>1. Restored' = Restored /\ SlotIsKept'
      BY <1>2, <2>1, <2>5 DEF Restored, SlotIsKept
    <3> QED BY <2>1, <2>4, <3>1, NumberAdmin
  <2>6. CASE pc'[Admin] = "idle" /\ fileservers' = fileservers
    <3>1. Restored' = fileservers /\ SlotIsKept'
      BY <2>6 DEF Restored, SlotIsKept, Dropping
    <3>2. \A i \in Numerics : fileservers[i] = None \/ fileservers[i] = Restored[i]
      BY <1>1, <1>2 DEF SlotIsKept, Restored
    <3>3. Numbered(fileservers, store') /\ SlotsAgree(fileservers, store', upgraded)
      BY <1>1, <2>4, <3>2, SmallerTable
    <3> QED BY <2>1, <2>4, <3>1, <3>3, NumberAdmin
  <2>7. CASE pc'[Admin] = "idle" /\ RollBackDeregister
    <3>1. Restored' = fileservers' /\ SlotIsKept'
      BY <2>7 DEF Restored, SlotIsKept, Dropping
    <3>2. fileservers' = Restored
      BY <1>2, <2>1, <2>7 DEF RollBackDeregister, SlotIsKept, Restored
    <3> QED BY <2>1, <2>4, <3>1, <3>2, NumberAdmin
  <2> QED BY <2>1, <2>5, <2>6, <2>7
<1>7. /\ "dropUsers" \in Dropping /\ "dropShares" \in Dropping /\ "dropNode" \in Dropping
      /\ r.users \subseteq Users /\ Involving(r.users) \subseteq Grants
  BY <1>1 DEF Dropping, Requests, Involving
<1>8. CASE DropUsers
  <2> DEFINE st == RemoveUsers(store, r.users)
             outcomes == RemoveUsersPartial(store, r.users)
  <2>1. DeregWrite("dropUsers", st, outcomes, "dropShares")
    BY <1>8 DEF DropUsers
  <2>2. \A x \in {st} \cup outcomes : SameDocs(store, x)
    BY <1>1, <1>7, DocsUntouched
  <2> HIDE DEF st, outcomes
  <2> QED BY <1>6, <1>7, <2>1, <2>2
<1>9. CASE DropShares
  <2> DEFINE st == RemoveSharesInvolving(store, r.users)
             outcomes == DropSharesPartial(store, Involving(r.users))
             label == IF r.num # None THEN "dropNode" ELSE "done"
  <2>1. DeregWrite("dropShares", st, outcomes, label)
    BY <1>9 DEF DropShares
  <2>2. \A x \in {st} \cup outcomes : SameDocs(store, x)
    BY <1>1, <1>7, DocsUntouched DEF RemoveSharesInvolving
  <2>3. label \in Dropping \cup {"done"}
    BY <1>7
  <2> HIDE DEF st, outcomes, label
  <2> QED BY <1>6, <1>7, <2>1, <2>2, <2>3
<1>10. CASE DropNode
  <2> DEFINE st == RemoveFileServer(store, r.node)
  <2>1. DeregWrite("dropNode", st, {store, st}, "done")
    BY <1>10 DEF DropNode
  <2> HIDE DEF st
  <2>2. \A x \in {st} \cup {store, st} : SameDocs(store, x) \/ x = st
    BY <1>4
  <2> QED BY <1>6, <1>7, <2>1, <2>2 DEF st
<1> QED BY <1>5, <1>8, <1>9, <1>10 DEF DeregisterStep

\* A restart takes the numbering over from the store.
LEMMA NumberCrash ==
    ASSUME RevocationInv, TypeInv', NumberInv, Crash
    PROVE  NumberInv'
<1>1. /\ TypeInv /\ store \in Stores /\ store' = store /\ upgraded' = upgraded
      /\ pc \in [Callers -> Labels]
  BY DEF Crash, RevocationInv, TypeInv, TypeOK
<1>2. \A a \in Callers : pc'[a] \in {"idle", "in", "routed"}
  BY <1>1 DEF Crash
<1>3. \A a \in Callers : pc'[a] \notin Registering \cup {"register"} /\ pc'[a] \notin Dropping
  BY <1>2 DEF Registering, RegisterWriting, Dropping
<1>4. Restored' = fileservers' /\ SlotIsKept'
  BY <1>3, CallersDisjoint DEF Restored, SlotIsKept
<1>5. \A m \in Machines : RegisterFacts(m, pc[m], req[m])'
  BY <1>3, CallersDisjoint DEF RegisterFacts, Registering, RegisterWriting, Renaming
<1>6. StoreNumbered(store)
  BY DEF NumberInv
<1>7. ASSUME NEW i \in Numerics, fileservers'[i] # None
      PROVE  \E n \in NodeIds : /\ store.nodes[n] # None /\ store.nodes[n].num = i
                                /\ fileservers'[i].node = n
                                /\ fileservers'[i].addr = store.nodes[n].addr
  <2> DEFINE n == CHOOSE x \in StoredAs(i) : TRUE
  <2>1. PICK F : Hydrate(F)
    BY DEF Crash
  <2>2. StoredAs(i) # {}
    BY <1>7, <2>1 DEF Hydrate
  <2>3. n \in StoredAs(i)
    BY <2>2
  <2>4. fileservers'[i].node = n /\ fileservers'[i].addr = store.nodes[n].addr
    BY <2>1, <2>2 DEF Hydrate
  <2> HIDE DEF n
  <2> QED BY <2>3, <2>4 DEF StoredAs
<1>8. Numbered(fileservers', store')
  <2>1. \A i, j \in Numerics : fileservers'[i] # None /\ fileservers'[j] # None
            /\ fileservers'[i].node = fileservers'[j].node => i = j
    BY <1>7
  <2>2. \A i \in Numerics : fileservers'[i] # None => i < store.next
    BY <1>6, <1>7 DEF StoreNumbered
  <2>3. \A i \in Numerics : fileservers'[i] # None /\ fileservers'[i].node \in LegacyIds =>
          fileservers'[i].node = LegacyNodeID(fileservers'[i].addr)
    BY <1>6, <1>7 DEF StoreNumbered
  <2> QED BY <1>1, <2>1, <2>2, <2>3 DEF Numbered
<1>9. SlotsAgree(fileservers', store', upgraded')
  <2>1. \A n \in NodeIds : store.nodes[n] # None => store.nodes[n].num \in Numerics
    BY <1>1 DEF Stores, NodeDocs
  <2> QED BY <1>1, <1>6, <1>7, <2>1 DEF SlotsAgree, StoreNumbered
<1> QED BY <1>1, <1>4, <1>5, <1>6, <1>8, <1>9 DEF NumberInv

\* At the start neither the store nor the table has numbered anything.
LEMMA NumberInit == Init => NumberInv
<1> SUFFICES ASSUME Init PROVE NumberInv
  OBVIOUS
<1>1. \A a \in Callers : pc[a] = "idle"
  BY DEF Init
<1>2. Restored = fileservers /\ SlotIsKept
  BY <1>1, CallersDisjoint DEF Restored, SlotIsKept, Dropping
<1>3. \A m \in Machines : RegisterFacts(m, pc[m], req[m])
  BY <1>1, CallersDisjoint DEF RegisterFacts, Registering, RegisterWriting, Renaming
<1>4. /\ \A i \in Numerics : fileservers[i] = None
      /\ \A n \in NodeIds : store.nodes[n] = None
  BY DEF Init, EmptyStore
<1> QED BY <1>2, <1>3, <1>4 DEF NumberInv, StoreNumbered, Numbered, SlotsAgree

\* Every step keeps the numbering of the store and of the table consistent.
LEMMA NumberStep ==
    ASSUME RevocationInv, RevocationInv', NumberInv, [Next]_vars
    PROVE  NumberInv'
<1>1. TypeInv /\ TypeInv'
  BY DEF RevocationInv
<1>2. ASSUME NEW m \in Machines, SendRegister(m) \/ HeartbeatStep(m) \/ RestartFileServer(m)
      PROVE  NumberInv'
  BY <1>1, <1>2, NumberOutside
<1>3. ASSUME NEW m \in Machines, RegisterStep(m) PROVE NumberInv'
  BY <1>1, <1>3, NumberRegister
<1>4. ASSUME NEW c \in Clients, ClientStep(c) PROVE NumberInv'
  BY <1>1, <1>4, NumberOutside
<1>5. ASSUME NEW s \in Sharers, ShareStep(s) PROVE NumberInv'
  BY <1>1, <1>5, NumberOutside
<1>6. CASE DeregisterStep
  BY <1>1, <1>6, NumberDeregister
<1>7. CASE MonitorStep \/ (\E i \in Numerics : Expire(i)) \/ UNCHANGED vars
  BY <1>1, <1>7, NumberOutside
<1>8. CASE Crash
  BY <1>1, <1>8, NumberCrash
<1> QED BY <1>2, <1>3, <1>4, <1>5, <1>6, <1>7, <1>8 DEF Next
-----------------------------------------------------------------------------
(* The re-check after an allocation *)

\* No other request has claimed the users of a registration that is waiting for
\* its numeric id.
Unclaimed(m) ==
    pc[m] \in {"alloc", "commit"} =>
       \A u \in req[m].users : users[u] = None /\ orphanedUsers[u] \in {None, req[m].node}

\* The user a login is placing is routed to the node it was placed on.
PlacedOK(c) ==
    pc[c] = "place" => users[UserOf[c]] = req[c].num /\ fileservers[req[c].num] # None

\* An orphan is not routed anywhere.
OrphansUnrouted == \A u \in Users : orphanedUsers[u] # None => users[u] = None

\* What a deregistration has taken out, its snapshot can put back: the users of
\* the entry and its orphans, and nobody else.
DropsItsOwn ==
    LET r == req[Admin] IN
    pc[Admin] \in Dropping =>
       /\ r.num # None => r.prev.info.userCount = Cardinality({u \in Users : r.prev.users[u] = r.num})
       /\ \A u \in r.users : /\ users[u] = None /\ orphanedUsers[u] = None
                             /\ r.prev.users[u] \in {None, r.num}
       /\ \A u \in Users : /\ r.num # None /\ r.prev.users[u] = r.num => u \in r.users
                           /\ r.prev.orphanedUsers[u] # None => r.prev.users[u] = None

\* The users that the assignment H homes on slot i.
On(H, i) == {u \in Users : H[u] = i}

\* LoadIsExact, of any table and any assignment.
Exact(T, H) ==
    /\ \A i \in Numerics : T[i] # None => T[i].userCount = Cardinality(On(H, i))
    /\ \A u \in Users : H[u] # None => T[H[u]] # None

LoadInv ==
    /\ Exact(fileservers, users)
    /\ OrphansUnrouted
    /\ \A m \in Machines : Unclaimed(m)
    /\ \A c \in Clients : PlacedOK(c)
    /\ DropsItsOwn

\* Entries change their liveness only.
SameLoad(S, T) == \A i \in Numerics :
    /\ T[i] = None <=> S[i] = None
    /\ S[i] # None => T[i].userCount = S[i].userCount

\* Steps that route nobody.
LEMMA LoadFrame ==
    ASSUME TypeInv, TypeInv', LoadInv, SameLoad(fileservers, fileservers'),
           users' = users, orphanedUsers' = orphanedUsers,
           \A m \in Machines : Unclaimed(m)',
           \A c \in Clients : pc'[c] = "place" => pc[c] = "place" /\ req'[c] = req[c],
           pc'[Admin] \in Dropping => pc[Admin] \in Dropping /\ req'[Admin] = req[Admin]
    PROVE  LoadInv'
<1>1. users \in [Users -> Numerics \cup {None}]
  BY DEF TypeInv, TypeOK
<1>2. Exact(fileservers', users')
  BY <1>1 DEF LoadInv, Exact, SameLoad
<1>3. OrphansUnrouted'
  BY DEF LoadInv, OrphansUnrouted
<1>4. ASSUME NEW c \in Clients PROVE PlacedOK(c)'
  <2>1. UserOf[c] \in Users
    BY MetaServerAssumption
  <2>2. pc[c] = "place" => req[c].num \in Numerics
    BY CallersDisjoint DEF TypeInv, RequestOK, Fits
  <2> QED BY <2>1, <2>2 DEF LoadInv, PlacedOK, SameLoad
<1>5. DropsItsOwn'
  BY DEF LoadInv, DropsItsOwn
<1> QED BY <1>2, <1>3, <1>4, <1>5 DEF LoadInv

\* Steps of the caller that holds or takes the lock: nobody else is inside a
\* request that relies on the routes.
LEMMA LoadHolder ==
    ASSUME RevocationInv, NEW a \in Callers, writeOrderMu = a \/ writeOrderMu = Free,
           \A b \in Callers \ {a} : pc'[b] = pc[b] /\ req'[b] = req[b],
           Exact(fileservers', users'), OrphansUnrouted',
           a \in Machines => Unclaimed(a)', a \in Clients => PlacedOK(a)',
           a = Admin => DropsItsOwn'
    PROVE  LoadInv'
<1>1. \A b \in Callers \ {a} : pc'[b] \notin Holding
  BY CallersAssumption DEF RevocationInv, HolderOK
<1>2. {"alloc", "commit", "place"} \subseteq Holding /\ Dropping \subseteq Holding
  BY DEF Holding, Registering
<1>3. \A m \in Machines : Unclaimed(m)'
  BY <1>1, <1>2, CallersDisjoint DEF Unclaimed
<1>4. \A c \in Clients : PlacedOK(c)'
  BY <1>1, <1>2, CallersDisjoint DEF PlacedOK
<1>5. DropsItsOwn'
  BY <1>1, <1>2, CallersDisjoint DEF DropsItsOwn
<1> QED BY <1>3, <1>4, <1>5 DEF LoadInv

\* The users on a slot can be counted, one more or one fewer.
LEMMA Counting ==
    ASSUME NEW H \in [Users -> Numerics \cup {None}], NEW u \in Users, NEW i \in Numerics
    PROVE  /\ Cardinality(On(H, i)) \in Nat
           /\ H[u] # i => Cardinality(On([H EXCEPT ![u] = i], i)) = Cardinality(On(H, i)) + 1
           /\ H[u] = i => /\ Cardinality(On(H, i)) > 0
                          /\ Cardinality(On([H EXCEPT ![u] = None], i)) = Cardinality(On(H, i)) - 1
<1>1. \A j \in Numerics : \A G : IsFiniteSet(On(G, j))
  BY FS_Subset, MetaServerAssumption DEF On
<1>2. Cardinality(On(H, i)) \in Nat
  BY <1>1, FS_CardinalityType
<1>3. ASSUME H[u] # i
      PROVE  Cardinality(On([H EXCEPT ![u] = i], i)) = Cardinality(On(H, i)) + 1
  <2>1. On([H EXCEPT ![u] = i], i) = On(H, i) \cup {u} /\ u \notin On(H, i)
    BY <1>3 DEF On
  <2> QED BY <1>1, <2>1, FS_AddElement
<1>4. ASSUME H[u] = i
      PROVE  /\ Cardinality(On(H, i)) > 0
             /\ Cardinality(On([H EXCEPT ![u] = None], i)) = Cardinality(On(H, i)) - 1
  <2>1. On([H EXCEPT ![u] = None], i) = On(H, i) \ {u} /\ u \in On(H, i)
    BY <1>4, MetaStoreAssumption DEF On
  <2>2. Cardinality(On(H, i) \ {u}) = Cardinality(On(H, i)) - 1
    BY <1>1, <2>1, FS_RemoveElement
  <2>3. Cardinality(On(H, i) \ {u}) \in Nat
    BY <1>1, FS_Subset, FS_CardinalityType
  <2>4. Cardinality(On(H, i)) > 0
    BY <1>2, <2>2, <2>3
  <2> QED BY <2>1, <2>2, <2>4, Zenon
<1> QED BY <1>2, <1>3, <1>4

\* A caller moves on, and relies on the routes no more than before.
LEMMA LoadMove ==
    ASSUME TypeInv, TypeInv', LoadInv, SameLoad(fileservers, fileservers'),
           users' = users, orphanedUsers' = orphanedUsers, NEW a \in Callers,
           \A b \in Callers \ {a} : pc'[b] = pc[b] /\ req'[b] = req[b],
           \/ pc'[a] \notin {"alloc", "commit", "place"} \cup Dropping
           \/ a \in Machines /\ Unclaimed(a)'
           \/ a = Admin /\ pc[a] \in Dropping /\ req'[a] = req[a]
    PROVE  LoadInv'
<1>1. \A m \in Machines : Unclaimed(m)'
  <2> SUFFICES ASSUME NEW m \in Machines PROVE Unclaimed(m)'
    OBVIOUS
  <2>1. CASE m = a
    BY <2>1, CallersDisjoint DEF Unclaimed
  <2>2. CASE m # a
    <3>1. pc'[m] = pc[m] /\ req'[m] = req[m]
      BY <2>2, CallersDisjoint
    <3> QED BY <3>1 DEF LoadInv, Unclaimed
  <2> QED BY <2>1, <2>2
<1>2. \A c \in Clients : pc'[c] = "place" => pc[c] = "place" /\ req'[c] = req[c]
  BY CallersDisjoint
<1>3. pc'[Admin] \in Dropping => pc[Admin] \in Dropping /\ req'[Admin] = req[Admin]
  BY CallersDisjoint
<1> QED BY <1>1, <1>2, <1>3, LoadFrame

\* A change of liveness is no change of load.
LEMMA SameEntryLoad ==
    ASSUME NEW T \in [Numerics -> NodeInfos \cup {None}], NEW i \in Numerics, T[i] # None
    PROVE  /\ SameLoad(T, [T EXCEPT ![i].fresh = TRUE, ![i].status = "healthy"])
           /\ SameLoad(T, [T EXCEPT ![i].fresh = FALSE])
           /\ [T[i] EXCEPT !.status = "stale"] # None
           /\ [T[i] EXCEPT !.status = "stale"].userCount = T[i].userCount
<1>1. T[i] \in NodeInfos
  OBVIOUS
<1>2. ASSUME NEW x \in NodeInfos, x.userCount = T[i].userCount
      PROVE  SameLoad(T, [T EXCEPT ![i] = x])
  BY <1>2, NodeInfosAssumption DEF SameLoad
<1> DEFINE beat == [T[i] EXCEPT !.fresh = TRUE, !.status = "healthy"]
           silent == [T[i] EXCEPT !.fresh = FALSE]
           stale == [T[i] EXCEPT !.status = "stale"]
<1>3. beat \in NodeInfos /\ beat.userCount = T[i].userCount
  BY <1>1 DEF NodeInfos, Statuses
<1>4. silent \in NodeInfos /\ silent.userCount = T[i].userCount
  BY <1>1 DEF NodeInfos
<1>5. stale \in NodeInfos /\ stale.userCount = T[i].userCount
  BY <1>1 DEF NodeInfos, Statuses
<1>6. /\ [T EXCEPT ![i].fresh = TRUE, ![i].status = "healthy"] = [T EXCEPT ![i] = beat]
      /\ [T EXCEPT ![i].fresh = FALSE] = [T EXCEPT ![i] = silent]
  OBVIOUS
<1> HIDE DEF beat, silent
<1> QED BY <1>2, <1>3, <1>4, <1>5, <1>6, NodeInfosAssumption

\* Heartbeats, the monitor, time, restarts of fileservers, known users and shares
\* route nobody.
LEMMA LoadOutside ==
    ASSUME TypeInv, TypeInv', LoadInv,
           \/ \E m \in Machines : \/ SendRegister(m) \/ RejectRegister(m) \/ HeartbeatStep(m)
                                  \/ RestartFileServer(m)
           \/ \E c \in Clients : GetRootsKnown(c) \/ Navigate(c) \/ Connect(c)
           \/ \E s \in Sharers : ShareStep(s)
           \/ MonitorStep \/ (\E i \in Numerics : Expire(i)) \/ UNCHANGED vars
    PROVE  LoadInv'
<1>1. /\ fileservers \in [Numerics -> NodeInfos \cup {None}]
      /\ pc \in [Callers -> Labels] /\ req \in [Callers -> Requests]
      /\ SameLoad(fileservers, fileservers)
  BY DEF TypeInv, TypeOK, SameLoad
<1> DEFINE Aside(label) == label \notin {"alloc", "commit", "place"} \cup Dropping
<1>2. \A label \in {"idle", "in", "routed", "beat", "register", "addShare", "removeShare"} :
        Aside(label)
  BY DEF Dropping
<1>3. ASSUME NEW a \in Callers, NEW label, Aside(label), Goto(a, label),
             (\E r : Local(a, r)) \/ req' = req,
             SameLoad(fileservers, fileservers'), users' = users, orphanedUsers' = orphanedUsers
      PROVE  LoadInv'
  <2>1. pc'[a] = label /\ \A b \in Callers \ {a} : pc'[b] = pc[b] /\ req'[b] = req[b]
    BY <1>1, <1>3 DEF Goto, Local
  <2> QED BY <1>3, <2>1, LoadMove
<1>4. ASSUME pc' = pc, req' = req,
             SameLoad(fileservers, fileservers'), users' = users, orphanedUsers' = orphanedUsers
      PROVE  LoadInv'
  <2>1. \A m \in Machines : Unclaimed(m)'
    BY <1>4 DEF LoadInv, Unclaimed
  <2> QED BY <1>4, <2>1, LoadFrame
<1> HIDE DEF Aside
<1>5. ASSUME NEW m \in Machines, SendRegister(m) \/ RejectRegister(m) PROVE LoadInv'
  <2>1. PICK label \in {"register", "idle"} : Goto(m, label) /\ \E r : Local(m, r)
    BY <1>5 DEF SendRegister, RejectRegister
  <2> QED BY <1>1, <1>2, <1>3, <1>5, <2>1, CallersDisjoint DEF SendRegister, RejectRegister, memory
<1>6. ASSUME NEW m \in Machines, HeartbeatStep(m) PROVE LoadInv'
  <2>1. CASE Heartbeat(m)
    <3>1. PICK i \in Numerics :
            /\ fileservers[i] # None
            /\ fileservers' = [fileservers EXCEPT ![i].fresh = TRUE, ![i].status = "healthy"]
      BY <2>1 DEF Heartbeat, Accepted, ByNodeID
    <3>2. SameLoad(fileservers, fileservers')
      BY <1>1, <3>1, SameEntryLoad
    <3> QED BY <1>2, <1>3, <2>1, <3>2, CallersDisjoint DEF Heartbeat
  <2>2. CASE HeartbeatRejected(m)
    BY <1>1, <1>4, <2>2 DEF HeartbeatRejected, memory
  <2>3. CASE PersistHeartbeat(m)
    BY <1>1, <1>2, <1>3, <2>3, CallersDisjoint DEF PersistHeartbeat, memory
  <2> QED BY <1>6, <2>1, <2>2, <2>3 DEF HeartbeatStep
<1>7. ASSUME NEW m \in Machines, RestartFileServer(m) PROVE LoadInv'
  BY <1>1, <1>4, <1>7 DEF RestartFileServer, memory
<1>8. ASSUME NEW c \in Clients, GetRootsKnown(c) \/ Navigate(c) \/ Connect(c) PROVE LoadInv'
  <2>1. PICK label \in {"in", "routed", "idle"} :
          Goto(c, label) /\ ((\E r : Local(c, r)) \/ req' = req)
    BY <1>8 DEF GetRootsKnown, Navigate, Connect
  <2> QED BY <1>1, <1>2, <1>3, <1>8, <2>1, CallersDisjoint
          DEF GetRootsKnown, Navigate, Connect, memory
<1>9. ASSUME NEW s \in Sharers, ShareStep(s) PROVE LoadInv'
  <2>1. fileservers' = fileservers /\ users' = users /\ orphanedUsers' = orphanedUsers
    BY <1>9 DEF ShareStep, RootShare, RootUnshare, PersistShare, PersistUnshare, memory
  <2>2. CASE RootShare(s)
    <3>1. PICK g : Local(s, [NoReq EXCEPT !.grants = {g}])
      BY <2>2 DEF RootShare
    <3>2. Goto(s, "addShare")
      BY <2>2 DEF RootShare
    <3> QED BY <1>1, <1>2, <1>3, <2>1, <3>1, <3>2, CallersDisjoint
  <2>3. CASE RootUnshare(s)
    <3>1. PICK g : Local(s, [NoReq EXCEPT !.grants = {g}])
      BY <2>3 DEF RootUnshare
    <3>2. Goto(s, "removeShare")
      BY <2>3 DEF RootUnshare
    <3> QED BY <1>1, <1>2, <1>3, <2>1, <3>1, <3>2, CallersDisjoint
  <2>4. CASE PersistShare(s) \/ PersistUnshare(s)
    <3>1. Goto(s, "idle") /\ Local(s, NoReq)
      BY <2>4 DEF PersistShare, PersistUnshare, Return
    <3> QED BY <1>1, <1>2, <1>3, <2>1, <3>1, CallersDisjoint
  <2> QED BY <1>9, <2>2, <2>3, <2>4 DEF ShareStep
<1>10. CASE MarkStale
  <2>1. \A i \in Numerics : \/ fileservers'[i] = fileservers[i]
                            \/ /\ fileservers[i] # None
                               /\ fileservers'[i] = [fileservers[i] EXCEPT !.status = "stale"]
    BY <1>10 DEF MarkStale
  <2>2. \A i \in Numerics : fileservers[i] # None =>
          /\ [fileservers[i] EXCEPT !.status = "stale"] # None
          /\ [fileservers[i] EXCEPT !.status = "stale"].userCount = fileservers[i].userCount
    BY <1>1, SameEntryLoad
  <2>3. SameLoad(fileservers, fileservers')
    BY <2>1, <2>2 DEF SameLoad
  <2> QED BY <1>4, <1>10, <2>3 DEF MarkStale
<1>11. ASSUME NEW n \in NodeIds, PersistStale(n) PROVE LoadInv'
  BY <1>1, <1>4, <1>11 DEF PersistStale, memory
<1>12. ASSUME NEW i \in Numerics, Expire(i) PROVE LoadInv'
  <2>1. SameLoad(fileservers, fileservers')
    BY <1>1, <1>12, SameEntryLoad DEF Expire
  <2> QED BY <1>4, <1>12, <2>1 DEF Expire
<1>13. CASE UNCHANGED vars
  BY <1>1, <1>4, <1>13 DEF vars, memory
<1> QED BY <1>5, <1>6, <1>7, <1>8, <1>9, <1>10, <1>11, <1>12, <1>13 DEF MonitorStep

\* Committing a registration counts exactly the users it routes.
LEMMA LoadCommit ==
    ASSUME RevocationInv, TypeInv', LoadInv, NEW m \in Machines, NEW i \in Numerics,
           NEW label \in {"rename", "upsert"}, Commit(m, i, label),
           pc[m] \in Registering \cup {"register"},
           writeOrderMu = m \/ writeOrderMu = Free,
           ~Conflict(req[m].node, i, req[m].users)
    PROVE  LoadInv'
<1> DEFINE r == req[m]
           hosted == r.users \cup OrphansOf(r.node)
<1>1. /\ TypeInv /\ m \in Callers /\ r \in Requests /\ r.users \subseteq Users
      /\ fileservers \in [Numerics -> NodeInfos \cup {None}]
      /\ users \in [Users -> Numerics \cup {None}] /\ None \notin Numerics
      /\ r.node \in NodeIds /\ r.addr = m
  BY CallersDisjoint, MetaStoreAssumption
  DEF RevocationInv, TypeInv, TypeOK, RequestOK, Fits, Requests
<1>2. PICK info \in NodeInfos : /\ info.userCount = countUsers(users', i)
                                /\ fileservers' = [fileservers EXCEPT ![i] = info]
  BY <1>1, CommitEntry DEF RevocationInv
<1>3. info # None /\ info.userCount = Cardinality(On(users', i))
  BY <1>2, NodeInfosAssumption DEF countUsers, On
<1>4. /\ pc'[m] = label /\ \A b \in Callers \ {m} : pc'[b] = pc[b] /\ req'[b] = req[b]
  <2> DEFINE q == [r EXCEPT !.num = i, !.purged = Purged(r, i)]
  <2>1. Goto(m, label) /\ Local(m, q)
    BY DEF Commit
  <2> HIDE DEF q, r
  <2> QED BY <1>1, <2>1, OthersStay
<1>5. /\ users' = [u \in Users |-> IF u \in hosted THEN i
                                   ELSE IF u \in Purged(r, i) THEN None ELSE users[u]]
      /\ orphanedUsers' = [u \in Users |-> IF orphanedUsers[u] = r.node
                                           THEN None ELSE orphanedUsers[u]]
  BY DEF Commit
<1>6. /\ \A u \in r.users : /\ users[u] # None => users[u] = i
                            /\ orphanedUsers[u] # None => orphanedUsers[u] = r.node
      /\ \A u \in Purged(r, i) : users[u] = i
      /\ \A u \in OrphansOf(r.node) : users[u] = None
  <2>1. \A u \in r.users : /\ users[u] # None => users[u] = i
                           /\ orphanedUsers[u] # None => orphanedUsers[u] = r.node
    BY DEF Conflict
  <2>2. \A u \in Purged(r, i) : users[u] = i
    BY DEF Purged, Missing, UsersOn
  <2>3. \A u \in OrphansOf(r.node) : users[u] = None
    BY <1>1, MetaStoreAssumption DEF OrphansOf, LoadInv, OrphansUnrouted
  <2> QED BY <2>1, <2>2, <2>3
<1> HIDE DEF r, hosted
<1>7. \A j \in Numerics \ {i} : On(users', j) = On(users, j)
  BY <1>1, <1>5, <1>6 DEF On, hosted
<1>8. Exact(fileservers', users')
  <2>1. \A j \in Numerics : fileservers'[j] # None =>
           fileservers'[j].userCount = Cardinality(On(users', j))
    BY <1>1, <1>2, <1>3, <1>7 DEF LoadInv, Exact
  <2>2. \A u \in Users : users'[u] # None => fileservers'[users'[u]] # None
    BY <1>1, <1>2, <1>3, <1>5 DEF LoadInv, Exact
  <2> QED BY <2>1, <2>2 DEF Exact
<1>9. OrphansUnrouted'
  BY <1>1, <1>5, <1>6 DEF LoadInv, OrphansUnrouted, hosted, OrphansOf
<1>10. Unclaimed(m)'
  BY <1>4 DEF Unclaimed
<1> QED BY <1>1, <1>4, <1>8, <1>9, <1>10, LoadHolder, CallersDisjoint

\* A first login adds one user to one node; a failed one takes it off again.
LEMMA LoadPlacement ==
    ASSUME RevocationInv, TypeInv', LoadInv, NEW c \in Clients,
           GetRootsPlace(c) \/ PersistPlacement(c)
    PROVE  LoadInv'
<1> DEFINE u == UserOf[c]
<1>1. /\ TypeInv /\ c \in Callers /\ c \notin Machines /\ c # Admin /\ u \in Users
      /\ fileservers \in [Numerics -> NodeInfos \cup {None}]
      /\ users \in [Users -> Numerics \cup {None}] /\ None \notin Numerics
  BY CallersDisjoint, MetaStoreAssumption, MetaServerAssumption
  DEF RevocationInv, TypeInv, TypeOK
<1> HIDE DEF u
<1>2. Exact(fileservers, users) /\ OrphansUnrouted
  BY DEF LoadInv
<1>3. CASE GetRootsPlace(c)
  <2>1. PICK i \in LeastLoaded :
          /\ users' = [users EXCEPT ![u] = i]
          /\ fileservers' = [fileservers EXCEPT ![i].userCount = @ + 1]
          /\ Local(c, [NoReq EXCEPT !.num = i, !.node = fileservers[i].node])
    BY <1>3 DEF GetRootsPlace, u
  <2>2. i \in Numerics /\ fileservers[i] # None /\ fileservers[i] \in NodeInfos
    BY <1>1 DEF LeastLoaded, isHealthy
  <2>3. /\ users[u] = None /\ orphanedUsers[u] = None /\ orphanedUsers' = orphanedUsers
        /\ writeOrderMu = Free /\ Goto(c, "place")
    BY <1>3 DEF GetRootsPlace, Lock, u
  <2> DEFINE q == [NoReq EXCEPT !.num = i, !.node = fileservers[i].node]
             more == [fileservers[i] EXCEPT !.userCount = @ + 1]
  <2>4. q.num = i
    BY DEF NoReq
  <2>5. more \in NodeInfos /\ more # None /\ more.userCount = fileservers[i].userCount + 1
    BY <2>2, NodeInfosAssumption DEF NodeInfos
  <2>6. fileservers' = [fileservers EXCEPT ![i] = more] /\ Local(c, q)
    BY <2>1
  <2> HIDE DEF q, more
  <2>7. /\ pc'[c] = "place" /\ req'[c].num = i
        /\ \A b \in Callers \ {c} : pc'[b] = pc[b] /\ req'[b] = req[b]
    BY <1>1, <2>3, <2>4, <2>6, OthersStay
  <2>8. /\ Cardinality(On(users', i)) = Cardinality(On(users, i)) + 1
        /\ \A j \in Numerics \ {i} : On(users', j) = On(users, j)
    <3>1. Cardinality(On([users EXCEPT ![u] = i], i)) = Cardinality(On(users, i)) + 1
      BY <1>1, <2>2, <2>3, Counting
    <3>2. \A j \in Numerics \ {i} : On([users EXCEPT ![u] = i], j) = On(users, j)
      BY <1>1, <2>2, <2>3 DEF On
    <3> QED BY <2>1, <3>1, <3>2
  <2>9. Exact(fileservers', users')
    <3>1. \A j \in Numerics : fileservers'[j] # None =>
             fileservers'[j].userCount = Cardinality(On(users', j))
      BY <1>1, <1>2, <2>2, <2>5, <2>6, <2>8 DEF Exact
    <3>2. \A v \in Users : users'[v] # None => fileservers'[users'[v]] # None
      BY <1>1, <1>2, <2>1, <2>2, <2>5, <2>6 DEF Exact
    <3> QED BY <3>1, <3>2 DEF Exact
  <2>10. OrphansUnrouted'
    BY <1>1, <1>2, <2>1, <2>3 DEF OrphansUnrouted
  <2>11. PlacedOK(c)'
    BY <1>1, <2>1, <2>2, <2>5, <2>6, <2>7 DEF PlacedOK, u
  <2> QED BY <1>1, <2>3, <2>7, <2>9, <2>10, <2>11, LoadHolder
<1>4. CASE PersistPlacement(c)
  <2>1. /\ pc[c] = "place" /\ writeOrderMu = c
        /\ \/ Goto(c, "in") /\ Local(c, NoReq) /\ UNCHANGED memory
           \/ Goto(c, "idle") /\ Local(c, NoReq) /\ RollBackPlacement(c)
    BY <1>1, <1>4 DEF PersistPlacement, Return, RevocationInv, HolderOK, Holding
  <2>2. /\ pc'[c] \in {"in", "idle"}
        /\ \A b \in Callers \ {c} : pc'[b] = pc[b] /\ req'[b] = req[b]
    BY <1>1, <2>1, OthersStay
  <2>3. CASE UNCHANGED memory
    <3>1. SameLoad(fileservers, fileservers') /\ users' = users /\ orphanedUsers' = orphanedUsers
      BY <2>3 DEF memory, SameLoad
    <3>2. pc'[c] \notin {"alloc", "commit", "place"} \cup Dropping
      BY <2>2 DEF Dropping
    <3> QED BY <1>1, <2>2, <3>1, <3>2, LoadMove
  <2>4. CASE RollBackPlacement(c)
    <3> DEFINE i == req[c].num
               less == [fileservers[i] EXCEPT !.userCount = @ - 1]
    <3>1. i \in Numerics /\ users[u] = i /\ fileservers[i] # None /\ fileservers[i] \in NodeInfos
      BY <1>1, <2>1 DEF LoadInv, PlacedOK, TypeInv, RequestOK, Fits, u
    <3>2. /\ Cardinality(On(users, i)) > 0 /\ Cardinality(On(users, i)) \in Nat
          /\ fileservers[i].userCount = Cardinality(On(users, i))
      BY <1>1, <1>2, <3>1, Counting DEF Exact
    <3>3. /\ users' = [users EXCEPT ![u] = None] /\ orphanedUsers' = orphanedUsers
          /\ fileservers' = [fileservers EXCEPT ![i] = less]
      BY <2>4, <3>1, <3>2 DEF RollBackPlacement, u
    <3>4. less \in NodeInfos /\ less # None /\ less.userCount = fileservers[i].userCount - 1
      BY <3>1, <3>2, NodeInfosAssumption DEF NodeInfos
    <3> HIDE DEF i, less
    <3>5. /\ Cardinality(On(users', i)) = Cardinality(On(users, i)) - 1
          /\ \A j \in Numerics \ {i} : On(users', j) = On(users, j)
      <4>1. i \in Numerics /\ users[u] = i
        BY <3>1
      <4>2. Cardinality(On([users EXCEPT ![u] = None], i)) = Cardinality(On(users, i)) - 1
        BY <1>1, <4>1, Counting
      <4>3. \A j \in Numerics \ {i} : On([users EXCEPT ![u] = None], j) = On(users, j)
        BY <1>1, <4>1 DEF On
      <4> QED BY <3>3, <4>2, <4>3
    <3>6. Exact(fileservers', users')
      <4>1. \A j \in Numerics : fileservers'[j] # None =>
               fileservers'[j].userCount = Cardinality(On(users', j))
        BY <1>1, <1>2, <3>1, <3>2, <3>3, <3>4, <3>5 DEF Exact
      <4>2. \A v \in Users : users'[v] # None => fileservers'[users'[v]] # None
        BY <1>1, <1>2, <3>1, <3>3, <3>4 DEF Exact
      <4> QED BY <4>1, <4>2 DEF Exact
    <3>7. OrphansUnrouted'
      BY <1>1, <1>2, <3>3 DEF OrphansUnrouted
    <3>8. PlacedOK(c)'
      BY <2>2 DEF PlacedOK
    <3> QED BY <1>1, <2>1, <2>2, <3>6, <3>7, <3>8, LoadHolder
  <2> QED BY <2>1, <2>3, <2>4
<1> QED BY <1>3, <1>4

\* Registering counts the users it routes, and nobody claims them meanwhile.
LEMMA LoadRegister ==
    ASSUME RevocationInv, TypeInv', NumberInv, LoadInv, NEW m \in Machines, RegisterStep(m)
    PROVE  LoadInv'
<1> DEFINE r == req[m]
           Goal == LoadInv'
<1>1. /\ TypeInv /\ m \in Callers /\ r \in Requests /\ store \in Stores
      /\ pc \in [Callers -> Labels] /\ req \in [Callers -> Requests]
      /\ SameLoad(fileservers, fileservers)
  BY CallersDisjoint DEF RevocationInv, TypeInv, TypeOK, SameLoad
<1>2. pc[m] \in Registering => writeOrderMu = m
  BY <1>1 DEF RevocationInv, HolderOK, Holding
<1>3. Unclaimed(m)
  BY DEF LoadInv
<1> SUFFICES Goal
  OBVIOUS
<1>4. ASSUME UNCHANGED memory,
             \A b \in Callers \ {m} : pc'[b] = pc[b] /\ req'[b] = req[b],
             pc'[m] \notin {"alloc", "commit"} \/ Unclaimed(m)',
             pc'[m] \notin {"place"} \cup Dropping
      PROVE  Goal
  <2>1. fileservers' = fileservers /\ users' = users /\ orphanedUsers' = orphanedUsers
    BY <1>4 DEF memory
  <2> QED BY <1>1, <1>4, <2>1, LoadMove
<1>5. RegisterWriting \cap ({"alloc", "commit", "place", "idle"} \cup Dropping) = {}
      /\ UserWriting \subseteq RegisterWriting
      /\ "idle" \notin {"alloc", "commit", "place"} \cup Dropping
      /\ "alloc" \notin {"place"} \cup Dropping /\ "commit" \notin {"place"} \cup Dropping
  BY DEF RegisterWriting, UserWriting, Dropping
<1> HIDE DEF Goal
<1>6. CASE RegisterKnown(m)
  <2>1. PICK t \in Targets(r) :
          /\ t.num # None /\ ~Refused(r, t)
          /\ Commit(m, t.num, IF t.adopt THEN "rename" ELSE "upsert")
    BY <1>6 DEF RegisterKnown
  <2>2. t.num \in Numerics
    BY <2>1, TargetTypes
  <2>3. /\ pc[m] = "register" /\ writeOrderMu = Free
        /\ ~Conflict(r.node, t.num, r.users)
    BY <1>6, <2>1 DEF RegisterKnown, Lock, Refused
  <2> QED BY <2>1, <2>2, <2>3, LoadCommit DEF Goal
<1>7. CASE RegisterNew(m)
  <2>1. PICK t \in Targets(r) : t.num = None /\ ~Refused(r, t)
    BY <1>7 DEF RegisterNew
  <2>2. ~Conflict(r.node, None, r.users)
    BY <2>1 DEF Refused
  <2>3. Goto(m, "alloc") /\ req' = req /\ UNCHANGED memory
    BY <1>7 DEF RegisterNew
  <2>4. pc'[m] = "alloc" /\ \A b \in Callers \ {m} : pc'[b] = pc[b] /\ req'[b] = req[b]
    BY <1>1, <2>3 DEF Goto
  <2>5. Unclaimed(m)'
    BY <2>2, <2>3 DEF Unclaimed, Conflict, memory
  <2> QED BY <1>4, <1>5, <2>3, <2>4, <2>5
<1>8. CASE RejectRegister(m)
  BY <1>1, <1>8, LoadOutside DEF Goal
<1>9. CASE AllocateNode(m)
  <2> DEFINE q == [r EXCEPT !.num = store'.nodes[r.node].num]
  <2>1. /\ pc[m] = "alloc" /\ UNCHANGED memory
        /\ \/ Goto(m, "commit") /\ Local(m, q)
           \/ Goto(m, "idle") /\ Local(m, NoReq)
    BY <1>9 DEF AllocateNode, AbortRegister, Return
  <2>2. q.users = r.users /\ q.node = r.node
    BY <1>1 DEF Requests
  <2> HIDE DEF q
  <2>3. CASE Goto(m, "commit") /\ Local(m, q)
    <3>1. /\ pc'[m] = "commit" /\ req'[m] = q
          /\ \A b \in Callers \ {m} : pc'[b] = pc[b] /\ req'[b] = req[b]
      BY <1>1, <2>3, OthersStay
    <3>2. Unclaimed(m)'
      BY <1>3, <2>1, <2>2, <3>1 DEF Unclaimed, memory
    <3> QED BY <1>4, <1>5, <2>1, <3>1, <3>2
  <2>4. CASE Goto(m, "idle") /\ Local(m, NoReq)
    <3>1. pc'[m] = "idle" /\ \A b \in Callers \ {m} : pc'[b] = pc[b] /\ req'[b] = req[b]
      BY <1>1, <2>4, OthersStay
    <3> QED BY <1>4, <1>5, <2>1, <3>1
  <2> QED BY <2>1, <2>3, <2>4
<1>10. CASE CommitNew(m)
  <2>1. /\ pc[m] = "commit" /\ Commit(m, r.num, "upsert") /\ RecheckPasses(r)
    BY <1>10 DEF CommitNew
  <2>2. r.num \in Numerics /\ ~Conflict(r.node, r.num, r.users) /\ pc[m] \in Registering
    BY <1>1, <2>1 DEF RecheckPasses, TypeInv, RequestOK, Fits, Registering
  <2> QED BY <1>2, <2>1, <2>2, LoadCommit DEF Goal
<1>11. CASE RenameUsers(m)
  <2>1. /\ UNCHANGED memory
        /\ \/ Goto(m, "upsert") /\ req' = req
           \/ Goto(m, "renameRemove") /\ \E q : Local(m, q)
           \/ Goto(m, "idle") /\ Local(m, NoReq)
    BY <1>11 DEF RenameUsers, AbortRegister, Return
  <2>2. /\ pc'[m] \in RegisterWriting \cup {"idle"}
        /\ \A b \in Callers \ {m} : pc'[b] = pc[b] /\ req'[b] = req[b]
    BY <1>1, <2>1 DEF Goto, Local, RegisterWriting
  <2> QED BY <1>4, <1>5, <2>1, <2>2
<1>12. ASSUME NEW here \in RegisterWriting, NEW st, NEW outcomes,
              NEW label \in RegisterWriting \cup {"done"},
              RegisterWrite(m, here, st, outcomes, label)
       PROVE  Goal
  <2>1. /\ UNCHANGED memory /\ pc'[m] \in RegisterWriting \cup {"idle"}
        /\ \A b \in Callers \ {m} : pc'[b] = pc[b] /\ req'[b] = req[b]
    BY <1>12, WriteMoves
  <2> QED BY <1>4, <1>5, <2>1
<1>13. /\ "renameRemove" \in RegisterWriting /\ "renameInsert" \in RegisterWriting
       /\ "upsert" \in RegisterWriting /\ AfterUpsert(r) \in RegisterWriting \cup {"done"}
  BY DEF RegisterWriting, AfterUpsert, AfterPurge
<1>14. CASE RenameRemove(m)
  BY <1>12, <1>13, <1>14 DEF RenameRemove
<1>15. CASE RenameInsert(m)
  BY <1>12, <1>13, <1>15 DEF RenameInsert
<1>16. CASE PersistNode(m)
  BY <1>12, <1>13, <1>16 DEF PersistNode
<1>17. CASE PurgeUsers(m) \/ PurgeShares(m) \/ PersistUsers(m) \/ ClearShares(m) \/ PersistShares(m)
  <2>1. /\ UNCHANGED memory /\ pc'[m] \in RegisterWriting \cup {"idle"}
        /\ \A b \in Callers \ {m} : pc'[b] = pc[b] /\ req'[b] = req[b]
    BY <1>5, <1>17, UserWrites
  <2> QED BY <1>4, <1>5, <2>1
<1> QED
  BY <1>6, <1>7, <1>8, <1>9, <1>10, <1>11, <1>14, <1>15, <1>16, <1>17 DEF RegisterStep

\* A deregistration empties the slot it frees, and a rollback fills both again.
LEMMA LoadDeregister ==
    ASSUME RevocationInv, TypeInv', NumberInv, LoadInv, DeregisterStep
    PROVE  LoadInv'
<1> DEFINE r == req[Admin]
<1>1. /\ TypeInv /\ Admin \in Callers /\ r \in Requests
      /\ pc \in [Callers -> Labels] /\ req \in [Callers -> Requests]
      /\ fileservers \in [Numerics -> NodeInfos \cup {None}]
      /\ users \in [Users -> Numerics \cup {None}] /\ None \notin Numerics
      /\ orphanedUsers \in [Users -> NodeIds \cup {None}] /\ None \notin NodeIds
      /\ SameLoad(fileservers, fileservers)
  BY CallersDisjoint, MetaStoreAssumption DEF RevocationInv, TypeInv, TypeOK, SameLoad
<1>2. Exact(fileservers, users) /\ OrphansUnrouted /\ DropsItsOwn /\ SlotIsKept
  BY DEF LoadInv, NumberInv
<1>3. CASE DeregisterFileServer
  <2> DEFINE Removed(t) == (IF t.num = None THEN {} ELSE UsersOn(t.num)) \cup OrphansOf(t.node)
             Snap(t) == [info |-> IF t.num = None THEN None ELSE fileservers[t.num],
                         users |-> users, orphanedUsers |-> orphanedUsers, shared |-> shared]
             Req(t) == [NoReq EXCEPT !.node = t.node, !.num = t.num, !.users = Removed(t),
                                     !.prev = Snap(t)]
  <2>1. PICK t \in DeregTargets :
          /\ Found(t)
          /\ Local(Admin, Req(t))
          /\ users' = [u \in Users |-> IF u \in Removed(t) THEN None ELSE users[u]]
          /\ orphanedUsers' = [u \in Users |-> IF u \in Removed(t) THEN None
                                               ELSE orphanedUsers[u]]
          /\ fileservers' = IF t.num = None THEN fileservers
                            ELSE [fileservers EXCEPT ![t.num] = None]
          /\ Goto(Admin, IF Removed(t) # {} THEN "dropUsers" ELSE "dropNode")
    BY <1>3 DEF DeregisterFileServer
  <2>2. /\ t.num \in Numerics \cup {None} /\ t.node \in NodeIds
        /\ t.num # None => fileservers[t.num] # None
    BY <2>1 DEF DeregTargets, Found, ByNodeID
  <2> DEFINE q == Req(t)
  <2>3. /\ q.num = t.num /\ q.users = Removed(t) /\ q.prev.users = users
        /\ q.prev.orphanedUsers = orphanedUsers
        /\ t.num # None => q.prev.info = fileservers[t.num]
    BY DEF NoReq
  <2>4. Removed(t) \subseteq Users
        /\ \A u \in Users : /\ t.num # None /\ users[u] = t.num => u \in Removed(t)
                            /\ u \in Removed(t) => users[u] \in {None, t.num}
    BY <1>1, <1>2, <2>2 DEF UsersOn, OrphansOf, OrphansUnrouted
  <2>5. \/ Goto(Admin, "dropUsers")
        \/ Goto(Admin, "dropNode")
    BY <2>1
  <2> HIDE DEF Removed, Req
  <2>6. /\ pc'[Admin] \in Dropping /\ req'[Admin] = q
        /\ \A b \in Callers \ {Admin} : pc'[b] = pc[b] /\ req'[b] = req[b]
    BY <1>1, <2>1, <2>5, OthersStay DEF Dropping
  <2> DEFINE gone == Removed(t)
             k == t.num
  <2>12. /\ users' = [u \in Users |-> IF u \in gone THEN None ELSE users[u]]
         /\ orphanedUsers' = [u \in Users |-> IF u \in gone THEN None ELSE orphanedUsers[u]]
         /\ gone \subseteq Users /\ q.users = gone
         /\ \A u \in Users : /\ k # None /\ users[u] = k => u \in gone
                             /\ u \in gone => users[u] \in {None, k}
    <3>1. /\ users' = [u \in Users |-> IF u \in gone THEN None ELSE users[u]]
          /\ orphanedUsers' = [u \in Users |-> IF u \in gone THEN None ELSE orphanedUsers[u]]
      BY <2>1
    <3>2. gone \subseteq Users /\ q.users = gone
      BY <2>3, <2>4
    <3>3. \A u \in Users : /\ k # None /\ users[u] = k => u \in gone
                           /\ u \in gone => users[u] \in {None, k}
      BY <2>4
    <3> QED BY <3>1, <3>2, <3>3
  <2> HIDE DEF q, gone, k
  <2>7. \A j \in Numerics : j # k => On(users', j) = On(users, j)
    BY <1>1, <2>12 DEF On
  <2>8. Exact(fileservers', users')
    <3>1. \A j \in Numerics : fileservers'[j] # None =>
             j # t.num /\ fileservers'[j] = fileservers[j]
      BY <1>1, <2>1, <2>2
    <3>2. \A u \in Users : users'[u] # None =>
             users'[u] = users[u] /\ users[u] # k /\ users[u] \in Numerics
      BY <1>1, <2>12
    <3>3. \A j \in Numerics : j # t.num => fileservers'[j] = fileservers[j]
      BY <1>1, <2>1, <2>2
    <3> QED BY <1>2, <2>7, <3>1, <3>2, <3>3 DEF Exact, k
  <2>9. OrphansUnrouted'
    BY <1>2, <2>12 DEF OrphansUnrouted
  <2>10. DropsItsOwn'
    <3>1. t.num # None => q.prev.info.userCount = Cardinality({u \in Users : q.prev.users[u] = t.num})
      BY <1>2, <2>2, <2>3 DEF Exact, On
    <3>2. \A u \in q.users : /\ users'[u] = None /\ orphanedUsers'[u] = None
                             /\ q.prev.users[u] \in {None, q.num}
      BY <2>3, <2>12 DEF k
    <3>3. \A u \in Users : /\ q.num # None /\ q.prev.users[u] = q.num => u \in q.users
                           /\ q.prev.orphanedUsers[u] # None => q.prev.users[u] = None
      BY <1>2, <2>3, <2>12 DEF OrphansUnrouted, k
    <3> QED BY <2>3, <2>6, <3>1, <3>2, <3>3 DEF DropsItsOwn
  <2>11. writeOrderMu = Free
    BY <1>3 DEF DeregisterFileServer, Lock
  <2> QED BY <1>1, <2>6, <2>8, <2>9, <2>10, <2>11, LoadHolder, CallersDisjoint
<1>4. ASSUME NEW here \in Dropping, NEW st, NEW outcomes, NEW label \in Dropping \cup {"done"},
             DeregWrite(here, st, outcomes, label)
      PROVE  LoadInv'
  <2>1. /\ writeOrderMu = Admin /\ pc[Admin] \in Dropping /\ r.prev \in Snapshots
        /\ r.users \subseteq Users /\ r.num \in Numerics \cup {None}
        /\ \A b \in Callers \ {Admin} : pc'[b] = pc[b] /\ req'[b] = req[b]
        /\ \/ pc'[Admin] \in Dropping /\ req'[Admin] = r /\ UNCHANGED memory
           \/ pc'[Admin] = "idle" /\ UNCHANGED memory
           \/ pc'[Admin] = "idle" /\ RollBackDeregister
    BY <1>1, <1>4, DropMoves DEF Requests
  <2>2. "idle" \notin {"alloc", "commit", "place"} \cup Dropping
    BY DEF Dropping
  <2>3. CASE UNCHANGED memory /\ (pc'[Admin] = "idle" \/ req'[Admin] = r)
    <3>1. fileservers' = fileservers /\ users' = users /\ orphanedUsers' = orphanedUsers
      BY <2>3 DEF memory
    <3> QED BY <1>1, <2>1, <2>2, <2>3, <3>1, LoadMove
  <2>4. CASE pc'[Admin] = "idle" /\ RollBackDeregister
    <3>1. /\ r.num # None => fileservers[r.num] = None
          /\ r.num = None <=> r.prev.info = None
      BY <1>2, <2>1 DEF SlotIsKept
    <3>2. /\ r.num # None =>
               r.prev.info.userCount = Cardinality({u \in Users : r.prev.users[u] = r.num})
          /\ \A u \in r.users : /\ users[u] = None /\ orphanedUsers[u] = None
                                /\ r.prev.users[u] \in {None, r.num}
          /\ \A u \in Users : /\ r.num # None /\ r.prev.users[u] = r.num => u \in r.users
                              /\ r.prev.orphanedUsers[u] # None => r.prev.users[u] = None
      BY <1>2, <2>1 DEF DropsItsOwn
    <3>3. /\ fileservers' = IF r.num = None THEN fileservers
                            ELSE [fileservers EXCEPT ![r.num] = r.prev.info]
          /\ users' = [u \in Users |-> IF u \in r.users /\ r.prev.users[u] # None
                                       THEN r.prev.users[u] ELSE users[u]]
          /\ orphanedUsers' = [u \in Users |->
                                  IF u \in r.users /\ r.prev.orphanedUsers[u] # None
                                  THEN r.prev.orphanedUsers[u] ELSE orphanedUsers[u]]
      BY <2>4, <3>1 DEF RollBackDeregister
    <3> HIDE DEF r
    <3>4. \A u \in Users : users[u] # None => users[u] # r.num
      BY <1>1, <1>2, <3>1 DEF Exact
    <3> DEFINE k == r.num
               was == r.prev.users
    <3>5. \A u \in Users : users'[u] = IF k # None /\ was[u] = k THEN k ELSE users[u]
      <4> SUFFICES ASSUME NEW u \in Users
                   PROVE  users'[u] = IF k # None /\ was[u] = k THEN k ELSE users[u]
        OBVIOUS
      <4>1. users'[u] = IF u \in r.users /\ was[u] # None THEN was[u] ELSE users[u]
        BY <3>3
      <4>2. u \in r.users => was[u] \in {None, k}
        BY <3>2
      <4>3. k # None /\ was[u] = k => u \in r.users
        BY <3>2
      <4> HIDE DEF k, was
      <4> QED BY <4>1, <4>2, <4>3
    <3> HIDE DEF k, was
    <3>6. k # None => On(users', k) = {u \in Users : was[u] = k}
      BY <3>4, <3>5 DEF On, k
    <3>7. \A j \in Numerics : j # k => On(users', j) = On(users, j)
      <4> SUFFICES ASSUME NEW j \in Numerics, j # k PROVE On(users', j) = On(users, j)
        OBVIOUS
      <4>1. \A u \in Users : k # None /\ was[u] = k => users[u] = None
        BY <3>2 DEF k, was
      <4>2. \A u \in Users : users'[u] = j <=> users[u] = j
        BY <1>1, <3>5, <4>1
      <4> QED BY <4>2 DEF On
    <3>8. Exact(fileservers', users')
      <4>1. ASSUME NEW j \in Numerics, fileservers'[j] # None
            PROVE  fileservers'[j].userCount = Cardinality(On(users', j))
        <5>1. CASE j = r.num
          BY <1>1, <2>1, <3>2, <3>3, <3>6, <5>1 DEF k, was
        <5>2. CASE j # r.num
          BY <1>1, <1>2, <2>1, <3>3, <3>7, <4>1, <5>2 DEF Exact, k
        <5> QED BY <5>1, <5>2
      <4>2. ASSUME NEW u \in Users, users'[u] # None PROVE fileservers'[users'[u]] # None
        <5>1. CASE r.num # None /\ r.prev.users[u] = r.num
          BY <1>1, <2>1, <3>1, <3>3, <3>5, <5>1 DEF k, was
        <5>2. CASE ~(r.num # None /\ r.prev.users[u] = r.num)
          BY <1>1, <1>2, <2>1, <3>1, <3>3, <3>5, <4>2, <5>2 DEF Exact, k, was
        <5> QED BY <5>1, <5>2
      <4> QED BY <4>1, <4>2 DEF Exact
    <3>9. OrphansUnrouted'
      BY <1>2, <3>2, <3>3 DEF OrphansUnrouted
    <3>10. DropsItsOwn'
      BY <2>2, <2>4 DEF DropsItsOwn
    <3> QED BY <1>1, <2>1, <3>8, <3>9, <3>10, LoadHolder, CallersDisjoint
  <2> QED BY <2>1, <2>3, <2>4
<1>5. "dropUsers" \in Dropping /\ "dropShares" \in Dropping /\ "dropNode" \in Dropping
      /\ (IF r.num # None THEN "dropNode" ELSE "done") \in Dropping \cup {"done"}
  BY DEF Dropping
<1>6. CASE DropUsers
  BY <1>4, <1>5, <1>6 DEF DropUsers
<1>7. CASE DropShares
  BY <1>4, <1>5, <1>7 DEF DropShares
<1>8. CASE DropNode
  BY <1>4, <1>5, <1>8 DEF DropNode
<1> QED BY <1>3, <1>6, <1>7, <1>8 DEF DeregisterStep

\* A restart counts the users that the store homes on each node.
LEMMA LoadCrash ==
    ASSUME RevocationInv, TypeInv', NumberInv, Crash
    PROVE  LoadInv'
<1>1. /\ TypeInv /\ store \in Stores /\ pc \in [Callers -> Labels] /\ StoreNumbered(store)
      /\ None \notin Numerics /\ None \notin NodeIds
  BY MetaStoreAssumption DEF RevocationInv, TypeInv, TypeOK, NumberInv
<1>2. \A a \in Callers : pc'[a] \in {"idle", "in", "routed"}
  BY <1>1 DEF Crash
<1>3. /\ \A m \in Machines : Unclaimed(m)'
      /\ \A c \in Clients : PlacedOK(c)'
      /\ DropsItsOwn'
  BY <1>2, CallersDisjoint DEF Unclaimed, PlacedOK, DropsItsOwn, Dropping
<1>4. PICK F : Hydrate(F)
  BY DEF Crash
<1>5. /\ \A n \in NodeIds : store.nodes[n] # None => store.nodes[n].num \in Numerics
      /\ \A u \in Users : store.users[u] # None => store.users[u] \in NodeIds
  BY <1>1 DEF Stores, NodeDocs
<1>6. ASSUME NEW i \in Numerics, NEW n \in NodeIds, store.nodes[n] # None, store.nodes[n].num = i
      PROVE  /\ fileservers'[i] # None
             /\ fileservers'[i].userCount = Cardinality({u \in Users : store.users[u] = n})
  <2> DEFINE load == Cardinality({u \in Users : store.users[u] = n})
             info == [node |-> n, addr |-> store.nodes[n].addr, fresh |-> n \in F,
                      status |-> store.nodes[n].status, userCount |-> load]
  <2>1. StoredAs(i) = {n}
    BY <1>1, <1>6 DEF StoredAs, StoreNumbered
  <2>2. (CHOOSE x \in StoredAs(i) : TRUE) = n
    BY <2>1
  <2>3. fileservers'[i] = info
    BY <1>4, <2>1, <2>2 DEF Hydrate
  <2>4. load \in Nat
    <3>1. IsFiniteSet({u \in Users : store.users[u] = n})
      BY FS_Subset, MetaServerAssumption
    <3> QED BY <3>1, FS_CardinalityType
  <2> HIDE DEF load
  <2>5. info \in NodeInfos /\ info.userCount = load
    BY <1>1, <1>6, <2>4 DEF NodeInfos, Stores, NodeDocs
  <2> HIDE DEF info
  <2> QED BY <2>3, <2>5, NodeInfosAssumption DEF load
<1>7. \A u \in Users :
        /\ users'[u] = IF store.users[u] # None /\ store.nodes[store.users[u]] # None
                       THEN store.nodes[store.users[u]].num ELSE None
        /\ orphanedUsers'[u] = IF store.users[u] # None /\ store.nodes[store.users[u]] = None
                               THEN store.users[u] ELSE None
  BY <1>4 DEF Hydrate
<1>8. ASSUME NEW i \in Numerics, fileservers'[i] # None
      PROVE  fileservers'[i].userCount = Cardinality(On(users', i))
  <2>1. StoredAs(i) # {}
    BY <1>4, <1>8 DEF Hydrate
  <2>2. PICK n \in NodeIds : store.nodes[n] # None /\ store.nodes[n].num = i
    BY <2>1 DEF StoredAs
  <2>3. ASSUME NEW u \in Users PROVE users'[u] = i <=> store.users[u] = n
    BY <1>1, <1>5, <1>7, <2>2 DEF StoreNumbered
  <2>4. On(users', i) = {u \in Users : store.users[u] = n}
    BY <2>3 DEF On
  <2> QED BY <1>6, <2>2, <2>4
<1>9. \A u \in Users : users'[u] # None => fileservers'[users'[u]] # None
  BY <1>5, <1>6, <1>7
<1>10. OrphansUnrouted'
  BY <1>7 DEF OrphansUnrouted
<1> QED BY <1>3, <1>8, <1>9, <1>10 DEF LoadInv, Exact

\* Nobody is routed at the start.
LEMMA LoadInit == Init => LoadInv
<1> SUFFICES ASSUME Init PROVE LoadInv
  OBVIOUS
<1>1. \A a \in Callers : pc[a] = "idle"
  BY DEF Init
<1>2. /\ \A i \in Numerics : fileservers[i] = None
      /\ \A u \in Users : users[u] = None
  BY DEF Init
<1> QED BY <1>1, <1>2, CallersDisjoint
        DEF LoadInv, Exact, OrphansUnrouted, Unclaimed, PlacedOK, DropsItsOwn, Dropping

\* Every step keeps the loads exact.
LEMMA LoadStep ==
    ASSUME RevocationInv, RevocationInv', NumberInv, LoadInv, [Next]_vars
    PROVE  LoadInv'
<1>1. TypeInv /\ TypeInv'
  BY DEF RevocationInv
<1>2. ASSUME NEW m \in Machines, SendRegister(m) \/ HeartbeatStep(m) \/ RestartFileServer(m)
      PROVE  LoadInv'
  BY <1>1, <1>2, LoadOutside
<1>3. ASSUME NEW m \in Machines, RegisterStep(m) PROVE LoadInv'
  BY <1>1, <1>3, LoadRegister
<1>4. ASSUME NEW c \in Clients, ClientStep(c) PROVE LoadInv'
  <2>1. CASE GetRootsPlace(c) \/ PersistPlacement(c)
    BY <1>1, <2>1, LoadPlacement
  <2>2. CASE GetRootsKnown(c) \/ Navigate(c) \/ Connect(c)
    BY <1>1, <2>2, LoadOutside
  <2> QED BY <1>4, <2>1, <2>2 DEF ClientStep
<1>5. ASSUME NEW s \in Sharers, ShareStep(s) PROVE LoadInv'
  BY <1>1, <1>5, LoadOutside
<1>6. CASE DeregisterStep
  BY <1>1, <1>6, LoadDeregister
<1>7. CASE MonitorStep \/ (\E i \in Numerics : Expire(i)) \/ UNCHANGED vars
  BY <1>1, <1>7, LoadOutside
<1>8. CASE Crash
  BY <1>1, <1>8, LoadCrash
<1> QED BY <1>2, <1>3, <1>4, <1>5, <1>6, <1>7, <1>8 DEF Next
-----------------------------------------------------------------------------
(* The theorems *)

TableInv == RevocationInv /\ NumberInv /\ LoadInv

\* The table invariant is inductive.
LEMMA TableInduction == Spec => []TableInv
<1>1. Init => TableInv
  BY RevocationInit, NumberInit, LoadInit DEF TableInv
<1>2. TableInv /\ [Next]_vars => TableInv'
  BY RevocationStep, NumberStep, LoadStep DEF TableInv
<1> QED BY <1>1, <1>2, PTL DEF Spec

\* An allocation that memory waited for is never in vain: the number is free and
\* nobody has claimed the users.
LEMMA RecheckHolds ==
    ASSUME TableInv, NEW m \in Machines, pc[m] = "commit"
    PROVE  RecheckPasses(req[m])
<1> DEFINE r == req[m]
<1>1. /\ TypeInv /\ store \in Stores /\ r.num \in Numerics /\ r.node \in NodeIds
  BY CallersDisjoint
  DEF TableInv, RevocationInv, TypeInv, TypeOK, RequestOK, Fits, Registering
<1>2. /\ r.node = resolveNodeID(m) /\ Absent(fileservers, r.node)
      /\ store.nodes[r.node] # None /\ store.nodes[r.node].num = r.num
  BY DEF TableInv, NumberInv, RegisterFacts, Registering
<1>3. SlotsAgree(fileservers, store, upgraded)
  BY <1>1, TableNumbered DEF TableInv
<1>4. ~Retired(fileservers, upgraded, r.node)
  BY <1>1, <1>2, Identities
<1>5. fileservers[r.num] = None
  BY <1>1, <1>2, <1>3, <1>4 DEF SlotsAgree, Absent
<1>6. ~Conflict(r.node, r.num, r.users)
  BY DEF TableInv, LoadInv, Unclaimed, Conflict
<1> QED BY <1>5, <1>6 DEF RecheckPasses

\* The re-check RegisterFileServer makes after the allocation always passes: the
\* store never hands out a number in use, and no request claims the users while
\* ms.mu is released.
THEOREM RecheckIsDead == Spec => []RecheckNeverFails
<1>1. TableInv => RecheckNeverFails
  BY RecheckHolds DEF RecheckNeverFails
<1> QED BY <1>1, TableInduction, PTL

\* UserCount is the number of users routed to the node, and every route leads to
\* a node, through placements, rollbacks, purges, adoptions and restarts.
THEOREM LoadsAreExact == Spec => []LoadIsExact
<1>1. ASSUME TableInv PROVE LoadIsExact
  <2>1. \A i \in Numerics : UsersOn(i) = On(users, i)
    BY DEF UsersOn, On
  <2> QED BY <1>1, <2>1 DEF TableInv, LoadInv, Exact, LoadIsExact
<1> QED BY <1>1, TableInduction, PTL

\* An entry that is alive keeps its address.
AddressKept == \A i \in Numerics :
    isHealthy(fileservers[i]) /\ fileservers'[i] # None =>
       fileservers'[i].addr = fileservers[i].addr

\* A registration takes over an entry only from a node that is not alive, or
\* from the same address.
LEMMA AddressRegister ==
    ASSUME TableInv, TypeInv', NEW m \in Machines, RegisterStep(m)
    PROVE  AddressKept
<1> DEFINE r == req[m]
<1>1. /\ RevocationInv /\ TypeInv /\ m \in Callers /\ r \in Requests
      /\ fileservers \in [Numerics -> NodeInfos \cup {None}]
  BY CallersDisjoint DEF TableInv, RevocationInv, TypeInv, TypeOK
<1>2. pc[m] \in Registering \cup {"register"} => r.node \in NodeIds /\ r.addr = m
  BY <1>1 DEF TypeInv, RequestOK, Fits
<1>3. CASE fileservers' = fileservers
  BY <1>3 DEF AddressKept
<1>4. ASSUME NEW i \in Numerics, NEW label, Commit(m, i, label),
             pc[m] \in Registering \cup {"register"},
             isHealthy(fileservers[i]) => fileservers[i].addr = m
      PROVE  AddressKept
  <2>1. PICK info \in NodeInfos : /\ info.addr = m
                                  /\ fileservers' = [fileservers EXCEPT ![i] = info]
    BY <1>1, <1>2, <1>4, CommitEntry
  <2> QED BY <1>1, <1>4, <2>1 DEF AddressKept
<1>5. CASE RegisterKnown(m)
  <2>1. PICK t \in Targets(r) :
          /\ t.num # None /\ ~Refused(r, t)
          /\ Commit(m, t.num, IF t.adopt THEN "rename" ELSE "upsert")
    BY <1>5 DEF RegisterKnown
  <2>2. t.num \in Numerics
    BY <2>1, TargetTypes
  <2>3. pc[m] = "register" /\ ~HeldElsewhere(r, t)
    BY <1>5, <2>1 DEF RegisterKnown, Refused
  <2>4. t.adopt => fileservers[t.num].addr = r.addr
    BY <2>1, NewTarget
  <2>5. isHealthy(fileservers[t.num]) => fileservers[t.num].addr = m
    BY <1>2, <2>1, <2>3, <2>4 DEF HeldElsewhere
  <2> QED BY <1>4, <2>1, <2>2, <2>3, <2>5
<1>6. CASE CommitNew(m)
  <2>1. pc[m] = "commit" /\ Commit(m, r.num, "upsert") /\ fileservers[r.num] = None
    BY <1>6 DEF CommitNew, RecheckPasses
  <2>2. r.num \in Numerics /\ pc[m] \in Registering
    BY <1>1, <2>1 DEF TypeInv, RequestOK, Fits, Registering
  <2>3. ~isHealthy(fileservers[r.num])
    BY <2>1 DEF isHealthy
  <2> QED BY <1>4, <2>1, <2>2, <2>3
<1>7. CASE RegisterNew(m) \/ RejectRegister(m) \/ AllocateNode(m) \/ RenameUsers(m)
  BY <1>3, <1>7 DEF RegisterNew, RejectRegister, AllocateNode, RenameUsers, memory
<1>8. CASE RenameRemove(m) \/ RenameInsert(m) \/ PersistNode(m)
  BY <1>3, <1>8 DEF RenameRemove, RenameInsert, PersistNode, RegisterWrite, memory
<1>9. CASE PurgeUsers(m) \/ PurgeShares(m) \/ PersistUsers(m) \/ ClearShares(m) \/ PersistShares(m)
  BY <1>1, <1>3, <1>9, UserWrites DEF memory
<1> QED BY <1>5, <1>6, <1>7, <1>8, <1>9 DEF RegisterStep

\* No other step but a restart of the metaserver moves a live entry.
LEMMA AddressElsewhere ==
    ASSUME TableInv, TypeInv',
           \/ \E m \in Machines : SendRegister(m) \/ HeartbeatStep(m) \/ RestartFileServer(m)
           \/ \E c \in Clients : ClientStep(c)
           \/ \E s \in Sharers : ShareStep(s)
           \/ DeregisterStep \/ MonitorStep \/ (\E i \in Numerics : Expire(i))
           \/ UNCHANGED vars
    PROVE  AddressKept
<1>1. /\ RevocationInv /\ TypeInv
      /\ fileservers \in [Numerics -> NodeInfos \cup {None}]
  BY DEF TableInv, RevocationInv, TypeInv, TypeOK
<1>2. CASE fileservers' = fileservers
  BY <1>2 DEF AddressKept
<1>3. CASE SameNodes(fileservers, fileservers')
  BY <1>3 DEF AddressKept, SameNodes, isHealthy
<1>4. ASSUME NEW m \in Machines, SendRegister(m) \/ HeartbeatStep(m) \/ RestartFileServer(m)
      PROVE  AddressKept
  <2>1. CASE Heartbeat(m)
    <3>1. PICK i \in Numerics :
            /\ fileservers[i] # None
            /\ fileservers' = [fileservers EXCEPT ![i].fresh = TRUE, ![i].status = "healthy"]
      BY <2>1 DEF Heartbeat, Accepted, ByNodeID
    <3> QED BY <1>1, <1>3, <3>1, SameEntry
  <2>2. CASE SendRegister(m) \/ HeartbeatRejected(m) \/ PersistHeartbeat(m) \/ RestartFileServer(m)
    BY <1>2, <2>2 DEF SendRegister, HeartbeatRejected, PersistHeartbeat, RestartFileServer, memory
  <2> QED BY <1>4, <2>1, <2>2 DEF HeartbeatStep
<1>5. ASSUME NEW c \in Clients, ClientStep(c) PROVE AddressKept
  <2>1. CASE GetRootsPlace(c)
    <3>1. PICK i \in LeastLoaded : fileservers' = [fileservers EXCEPT ![i].userCount = @ + 1]
      BY <2>1 DEF GetRootsPlace
    <3>2. i \in Numerics /\ fileservers[i] # None
      BY DEF LeastLoaded, isHealthy
    <3> QED BY <1>1, <1>3, <3>1, <3>2, SameEntry
  <2>2. CASE PersistPlacement(c)
    <3> DEFINE i == req[c].num
    <3>1. \/ fileservers' = fileservers
          \/ /\ fileservers[i] # None /\ fileservers[i].userCount > 0
             /\ fileservers' = [fileservers EXCEPT ![i].userCount = @ - 1]
      BY <2>2 DEF PersistPlacement, RollBackPlacement, memory
    <3>2. i \in Numerics
      BY <1>1, <2>2, CallersDisjoint DEF PersistPlacement, TypeInv, RequestOK, Fits
    <3> HIDE DEF i
    <3> QED BY <1>1, <1>2, <1>3, <3>1, <3>2, SameEntry
  <2>3. CASE GetRootsKnown(c) \/ Navigate(c) \/ Connect(c)
    BY <1>2, <2>3 DEF GetRootsKnown, Navigate, Connect, memory
  <2> QED BY <1>5, <2>1, <2>2, <2>3 DEF ClientStep
<1>6. ASSUME NEW s \in Sharers, ShareStep(s) PROVE AddressKept
  BY <1>2, <1>6 DEF ShareStep, RootShare, RootUnshare, PersistShare, PersistUnshare, memory
<1>7. CASE DeregisterStep
  <2>1. CASE DeregisterFileServer
    <3>1. PICK t \in DeregTargets :
            fileservers' = IF t.num = None THEN fileservers
                           ELSE [fileservers EXCEPT ![t.num] = None]
      BY <2>1 DEF DeregisterFileServer
    <3> QED BY <1>1, <3>1 DEF AddressKept
  <2>2. ASSUME NEW here \in Dropping, NEW st, NEW outcomes, NEW label,
               DeregWrite(here, st, outcomes, label)
        PROVE  AddressKept
    <3>1. /\ pc[Admin] \in Dropping
          /\ fileservers' = fileservers \/ RollBackDeregister
      BY <1>1, <2>2, DropMoves DEF memory
    <3> DEFINE k == req[Admin].num
    <3>2. k # None => fileservers[k] = None
      BY <3>1 DEF TableInv, NumberInv, SlotIsKept
    <3>3. /\ k = None <=> req[Admin].prev.info = None
          /\ k \in Numerics \cup {None}
      BY <1>1, <3>1, CallersDisjoint
      DEF TableInv, NumberInv, SlotIsKept, TypeInv, TypeOK, Requests
    <3>4. ASSUME RollBackDeregister PROVE AddressKept
      <4>1. PICK info : fileservers' = IF k = None THEN fileservers
                                       ELSE [fileservers EXCEPT ![k] = info]
        BY <3>3, <3>4 DEF RollBackDeregister
      <4> HIDE DEF k
      <4> QED BY <1>1, <3>2, <3>3, <4>1 DEF AddressKept, isHealthy
    <3> QED BY <1>2, <3>1, <3>4
  <2>3. "dropUsers" \in Dropping /\ "dropShares" \in Dropping /\ "dropNode" \in Dropping
    BY DEF Dropping
  <2>4. CASE DropUsers
    BY <2>2, <2>3, <2>4 DEF DropUsers
  <2>5. CASE DropShares
    BY <2>2, <2>3, <2>5 DEF DropShares
  <2>6. CASE DropNode
    BY <2>2, <2>3, <2>6 DEF DropNode
  <2> QED BY <1>7, <2>1, <2>4, <2>5, <2>6 DEF DeregisterStep
<1>8. CASE MarkStale
  <2>1. \A i \in Numerics : \/ fileservers'[i] = fileservers[i]
                            \/ /\ fileservers[i] # None /\ ~isHealthy(fileservers[i])
                               /\ fileservers'[i] = [fileservers[i] EXCEPT !.status = "stale"]
    BY <1>8 DEF MarkStale
  <2> QED BY <2>1 DEF AddressKept
<1>9. ASSUME NEW n \in NodeIds, PersistStale(n) PROVE AddressKept
  BY <1>2, <1>9 DEF PersistStale, memory
<1>10. ASSUME NEW i \in Numerics, Expire(i) PROVE AddressKept
  BY <1>1, <1>3, <1>10, SameEntry DEF Expire
<1>11. CASE UNCHANGED vars
  BY <1>2, <1>11 DEF vars, memory
<1> QED BY <1>4, <1>5, <1>6, <1>7, <1>8, <1>9, <1>10, <1>11 DEF MonitorStep

\* While a node is alive no other process takes over its entry: only a restart of
\* the metaserver or the silence of the node lets its address change.
THEOREM AddressesAreStable == Spec => AddressIsStable
<1> DEFINE Kept == crashes' = crashes =>
              \A i \in Numerics : isHealthy(fileservers[i]) /\ fileservers'[i] # None =>
                 fileservers'[i].addr = fileservers[i].addr
<1>1. ASSUME TableInv, TableInv', [Next]_vars PROVE Kept
  <2>1. TypeInv /\ TypeInv'
    BY <1>1 DEF TableInv, RevocationInv
  <2>2. AddressKept => Kept
    BY DEF AddressKept
  <2> HIDE DEF Kept
  <2>3. ASSUME NEW m \in Machines, RegisterStep(m) PROVE Kept
    BY <1>1, <2>1, <2>2, <2>3, AddressRegister
  <2>4. CASE Crash
    <3>1. crashes \in Nat /\ crashes' = crashes + 1
      BY <2>1, <2>4, MetaServerAssumption DEF TypeInv, TypeOK, Crash
    <3> QED BY <3>1 DEF Kept
  <2>5. CASE UNCHANGED vars
    BY <1>1, <2>1, <2>2, <2>5, AddressElsewhere
  <2>6. CASE Next
    BY <1>1, <2>1, <2>2, <2>3, <2>4, <2>6, AddressElsewhere DEF Next
  <2> QED BY <1>1, <2>5, <2>6
<1>2. TableInv /\ TableInv' /\ [Next]_vars => [Kept]_vars
  BY <1>1
<1>3. [][Kept]_vars <=> AddressIsStable
  BY DEF AddressIsStable
<1> QED BY <1>2, <1>3, TableInduction, PTL DEF Spec
=============================================================================
