--------------------- MODULE MetaServerDurabilityProofs ---------------------
(***************************************************************************)
(* Proofs that what the metaserver shows survives a restart: grants, homes *)
(* and nodes.  Each argument accounts for what the request that holds      *)
(* writeOrderMu still owes the store.                                      *)
(***************************************************************************)
EXTENDS MetaServerProofs

-----------------------------------------------------------------------------
(* Grants *)

\* The points at which a request has shown grants it has yet to store.
Granting == RegisterWriting \cup {"addShare"}

\* Everything shown is stored, owed to the store or the victim of a failure.
GrantsShown == \A g \in shared \ unsettled :
    g \in store.shares \/ \E a \in Callers : pc[a] \in Granting /\ g \in req[a].grants

\* What a request knows about the grants in memory.
GrantFacts(a, label, r) ==
    /\ a \in Machines /\ label \in Registering \cup {"register"} => r.grants \subseteq OwnedBy(r.users)
    /\ a \in Machines /\ label \in RegisterWriting =>
          shared \cap (OwnedBy(r.users) \cup Involving(r.purged)) \subseteq r.grants
    /\ label \in Dropping => shared = r.prev.shared \ Involving(r.users)

GrantInv == GrantsShown /\ \A a \in Callers : GrantFacts(a, pc[a], req[a])

\* Steps that concern no grant.
LEMMA GrantFrame ==
    ASSUME GrantInv, shared' = shared, store'.shares = store.shares, unsettled' = unsettled,
           \A a \in Callers :
              \/ pc'[a] = pc[a] /\ req'[a] = req[a]
              \/ /\ pc[a] \notin Granting /\ pc'[a] \notin Holding
                 /\ a \in Machines /\ pc'[a] = "register" => req'[a].grants \subseteq OwnedBy(req'[a].users)
    PROVE  GrantInv'
<1>1. GrantsShown'
  BY DEF GrantInv, GrantsShown
<1>2. ASSUME NEW a \in Callers PROVE GrantFacts(a, pc[a], req[a])'
  BY DEF GrantInv, GrantFacts, Holding, Registering
<1> QED BY <1>1, <1>2 DEF GrantInv

\* What the holder of the lock, or whoever takes it, finds.
LEMMA GrantsFound ==
    ASSUME RevocationInv, GrantInv, NEW a \in Callers, writeOrderMu = a \/ writeOrderMu = Free
    PROVE  /\ GrantFacts(a, pc[a], req[a])
           /\ \A g \in shared \ unsettled :
                 g \in store.shares \/ (pc[a] \in Granting /\ g \in req[a].grants)
<1>1. \A b \in Callers \ {a} : pc[b] \notin Granting
  BY CallersAssumption DEF RevocationInv, HolderOK, Holding, Granting, Registering
<1> QED BY <1>1 DEF GrantInv, GrantsShown

\* Steps of the caller that holds or takes the lock.
LEMMA GrantHolder ==
    ASSUME RevocationInv, GrantInv, NEW a \in Callers, writeOrderMu = a \/ writeOrderMu = Free,
           \A b \in Callers \ {a} : pc'[b] = pc[b] /\ req'[b] = req[b],
           GrantFacts(a, pc[a], req[a])',
           \A g \in shared' \ unsettled' :
              g \in store'.shares \/ (pc'[a] \in Granting /\ g \in req'[a].grants)
    PROVE  GrantInv'
<1>1. ASSUME NEW b \in Callers \ {a} PROVE GrantFacts(b, pc[b], req[b])'
  <2>1. pc[b] \notin Holding /\ pc'[b] = pc[b] /\ req'[b] = req[b]
    BY CallersAssumption DEF RevocationInv, HolderOK
  <2>2. GrantFacts(b, pc[b], req[b])
    BY DEF GrantInv
  <2> QED BY <2>1, <2>2 DEF GrantFacts, Holding, Registering
<1> QED BY <1>1 DEF GrantInv, GrantsShown

\* Calls, heartbeats, the monitor, time, known users and rejected registrations.
LEMMA GrantOutside ==
    ASSUME RevocationInv, GrantInv,
           \/ \E m \in Machines : \/ SendRegister(m) \/ RejectRegister(m) \/ HeartbeatStep(m)
                                  \/ RestartFileServer(m)
           \/ \E c \in Clients : GetRootsKnown(c) \/ Navigate(c) \/ Connect(c)
           \/ MonitorStep \/ (\E i \in Numerics : Expire(i)) \/ UNCHANGED vars
    PROVE  GrantInv'
<1>1. /\ TypeInv /\ store \in Stores /\ pc \in [Callers -> Labels] /\ req \in [Callers -> Requests]
  BY DEF RevocationInv, TypeInv, TypeOK
<1>2. \A label \in {"idle", "in", "routed", "beat", "register"} :
        label \notin Granting /\ label \notin Holding
  BY DEF Granting, Holding, Registering, RegisterWriting, Dropping
<1>3. ASSUME NEW a \in Callers, NEW label \in {"idle", "in", "routed", "beat"}, Goto(a, label),
             (\E r : Local(a, r)) \/ req' = req, pc[a] \notin Granting,
             shared' = shared, store'.shares = store.shares, unsettled' = unsettled
      PROVE  GrantInv'
  <2>1. pc'[a] = label /\ \A b \in Callers \ {a} : pc'[b] = pc[b] /\ req'[b] = req[b]
    BY <1>1, <1>3 DEF Goto, Local
  <2> QED BY <1>2, <1>3, <2>1, GrantFrame
<1>4. ASSUME pc' = pc, req' = req,
             shared' = shared, store'.shares = store.shares, unsettled' = unsettled
      PROVE  GrantInv'
  BY <1>4, GrantFrame
<1>5. \A n \in NodeIds, s \in Statuses : SetStatus(store, n, s).shares = store.shares
  BY <1>1, SharesUntouched
<1>6. ASSUME NEW m \in Machines, SendRegister(m) PROVE GrantInv'
  <2>1. PICK U \in SUBSET Users : \E S \in SUBSET OwnedBy(U) :
          Local(m, [NoReq EXCEPT !.node = resolveNodeID(m), !.addr = m, !.users = U, !.grants = S])
    <3>1. disk[IdOf[m]] \in SUBSET Users
      BY <1>1, MetaServerAssumption DEF TypeInv, TypeOK
    <3> QED BY <1>6, <3>1 DEF SendRegister
  <2>2. PICK S \in SUBSET OwnedBy(U) :
          Local(m, [NoReq EXCEPT !.node = resolveNodeID(m), !.addr = m, !.users = U, !.grants = S])
    BY <2>1
  <2> DEFINE q == [NoReq EXCEPT !.node = resolveNodeID(m), !.addr = m, !.users = U, !.grants = S]
  <2>3. q.users = U /\ q.grants = S /\ Local(m, q) /\ Goto(m, "register") /\ pc[m] = "idle"
    BY <1>6, <2>2 DEF NoReq, SendRegister
  <2> HIDE DEF q
  <2>4. /\ pc'[m] = "register" /\ req'[m] = q
        /\ \A b \in Callers \ {m} : pc'[b] = pc[b] /\ req'[b] = req[b]
    BY <1>1, <2>3, OthersStay, CallersDisjoint
  <2>5. shared' = shared /\ store'.shares = store.shares /\ unsettled' = unsettled
    BY <1>6 DEF SendRegister, memory, history
  <2> QED BY <1>2, <2>3, <2>4, <2>5, GrantFrame
<1>7. ASSUME NEW m \in Machines, RejectRegister(m) PROVE GrantInv'
  BY <1>2, <1>3, <1>7, CallersDisjoint DEF RejectRegister, memory, history
<1>8. ASSUME NEW m \in Machines, HeartbeatStep(m) PROVE GrantInv'
  <2>1. CASE Heartbeat(m)
    BY <1>2, <1>3, <2>1, CallersDisjoint DEF Heartbeat, history
  <2>2. CASE HeartbeatRejected(m)
    BY <1>4, <2>2 DEF HeartbeatRejected, memory, history
  <2>3. CASE PersistHeartbeat(m)
    <3>1. req[m].node \in NodeIds
      BY <1>1, <2>3, CallersDisjoint DEF PersistHeartbeat, TypeInv, RequestOK, Fits
    <3>2. store'.shares = store.shares
      BY <1>5, <2>3, <3>1 DEF PersistHeartbeat, Applied, Failed, RecordHeartbeat, Statuses
    <3> QED BY <1>2, <1>3, <2>3, <3>2, CallersDisjoint DEF PersistHeartbeat, memory, history
  <2> QED BY <1>8, <2>1, <2>2, <2>3 DEF HeartbeatStep
<1>9. ASSUME NEW m \in Machines, RestartFileServer(m) PROVE GrantInv'
  BY <1>4, <1>9 DEF RestartFileServer, memory, history
<1>10. ASSUME NEW c \in Clients, GetRootsKnown(c) \/ Navigate(c) \/ Connect(c) PROVE GrantInv'
  <2>1. PICK label \in {"in", "routed", "idle"} :
          Goto(c, label) /\ ((\E r : Local(c, r)) \/ req' = req)
    BY <1>10 DEF GetRootsKnown, Navigate, Connect
  <2>2. pc[c] \in {"idle", "in", "routed"} /\ shared' = shared /\ store' = store /\ unsettled' = unsettled
    BY <1>10 DEF GetRootsKnown, Navigate, Connect, memory, history
  <2> QED BY <1>2, <1>3, <2>1, <2>2, CallersDisjoint
<1>11. CASE MarkStale
  BY <1>4, <1>11 DEF MarkStale, history
<1>12. ASSUME NEW n \in NodeIds, PersistStale(n) PROVE GrantInv'
  <2>1. store'.shares = store.shares
    BY <1>5, <1>12 DEF PersistStale, Applied, Failed, SetFileServerStatus, Statuses
  <2> QED BY <1>4, <1>12, <2>1 DEF PersistStale, memory, history
<1>13. ASSUME NEW i \in Numerics, Expire(i) PROVE GrantInv'
  BY <1>4, <1>13 DEF Expire, history
<1>14. CASE UNCHANGED vars
  BY <1>4, <1>14 DEF vars, memory, history
<1> QED BY <1>6, <1>7, <1>8, <1>9, <1>10, <1>11, <1>12, <1>13, <1>14 DEF MonitorStep

\* What a share write that fails, or removes, leaves in the store.
LEMMA SharesKept ==
    ASSUME NEW st \in Stores, NEW S \in SUBSET Grants
    PROVE  /\ \A x \in AddSharesPartial(st, S) : st.shares \subseteq x.shares
           /\ \A x \in DropSharesPartial(st, S) : st.shares \ S \subseteq x.shares
           /\ [st EXCEPT !.shares = @ \ S].shares = st.shares \ S
           /\ AddShares(st, S).shares = st.shares \cup S
BY DEF Stores, AddShares, AddSharesPartial, DropSharesPartial

\* A registration that commits owes the store the grants it announces.
LEMMA GrantCommit ==
    ASSUME RevocationInv, GrantInv, NEW m \in Machines, NEW i \in Numerics,
           NEW label \in {"rename", "upsert"}, Commit(m, i, label),
           pc[m] \in {"register", "commit"}, writeOrderMu = m \/ writeOrderMu = Free,
           store' = store, unsettled \subseteq unsettled'
    PROVE  GrantInv'
<1> DEFINE r == req[m]
           purged == Purged(r, i)
           q == [r EXCEPT !.num = i, !.purged = purged]
<1>1. /\ TypeInv /\ m \in Callers /\ r \in Requests
  BY CallersDisjoint DEF RevocationInv, TypeInv, TypeOK
<1>2. /\ shared' = (shared \ (Involving(purged) \cup OwnedBy(r.users))) \cup r.grants
      /\ Local(m, q) /\ Goto(m, label)
  BY DEF Commit
<1>3. q.users = r.users /\ q.grants = r.grants /\ q.purged = purged
  BY <1>1 DEF Requests
<1> HIDE DEF purged, q, r
<1>4. /\ pc'[m] = label /\ req'[m] = q
      /\ \A b \in Callers \ {m} : pc'[b] = pc[b] /\ req'[b] = req[b]
  BY <1>1, <1>2, OthersStay
<1>5. label \in RegisterWriting /\ label \in Granting /\ label \notin Dropping
      /\ pc[m] \notin Granting /\ pc[m] \in Registering \cup {"register"}
  BY DEF Granting, RegisterWriting, Registering, Dropping
<1>6. /\ GrantFacts(m, pc[m], r)
      /\ \A g \in shared \ unsettled : g \in store.shares
  BY <1>1, <1>5, GrantsFound DEF r
<1>7. r.grants \subseteq OwnedBy(r.users)
  BY <1>5, <1>6 DEF GrantFacts
<1>8. GrantFacts(m, pc[m], req[m])'
  BY <1>2, <1>3, <1>4, <1>5, <1>7 DEF GrantFacts
<1>9. \A g \in shared' \ unsettled' :
        g \in store'.shares \/ (pc'[m] \in Granting /\ g \in req'[m].grants)
  BY <1>2, <1>3, <1>4, <1>5, <1>6
<1> QED BY <1>1, <1>4, <1>8, <1>9, GrantHolder

\* A deferred write of a registration takes no stored grant away that it does not
\* rewrite itself, and the last one leaves nothing owed.
LEMMA GrantWrite ==
    ASSUME RevocationInv, GrantInv, NEW m \in Machines, NEW here \in RegisterWriting,
           NEW st, NEW outcomes, NEW label \in RegisterWriting \cup {"done"},
           RegisterWrite(m, here, st, outcomes, label),
           \A x \in {st} \cup outcomes :
              store.shares \ (OwnedBy(req[m].users) \cup Involving(req[m].purged)) \subseteq x.shares,
           label = "done" => req[m].grants \subseteq st.shares
    PROVE  GrantInv'
<1> DEFINE r == req[m]
           own == OwnedBy(r.users) \cup Involving(r.purged)
<1>1. /\ TypeInv /\ m \in Callers /\ writeOrderMu = m /\ pc[m] = here
      /\ r.node \in NodeIds /\ r.addr = m /\ r.users \subseteq Users /\ r.purged \subseteq Users
      /\ store' \in {st} \cup outcomes /\ shared' = shared
      /\ \/ pc'[m] = "idle" /\ unsettled' = unsettled \cup RegisterScope(r)
         \/ /\ pc'[m] = "idle" /\ label = "done" /\ store' = st
            /\ unsettled' = unsettled \ RegisterScope(r)
         \/ /\ pc'[m] = label /\ label # "done" /\ req'[m] = r /\ unsettled' = unsettled
      /\ \A b \in Callers \ {m} : pc'[b] = pc[b] /\ req'[b] = req[b]
  BY WriteMoves DEF memory
<1>2. here \in Granting /\ here \in Registering /\ "idle" \notin Granting
      /\ "idle" \notin Registering \cup {"register"} \cup Dropping
      /\ RegisterWriting \cap Dropping = {} /\ RegisterWriting \subseteq Granting \cap Registering
  BY DEF Granting, Registering, RegisterWriting, Dropping
<1>3. /\ GrantFacts(m, pc[m], r) /\ shared \subseteq Grants
      /\ \A g \in shared \ unsettled : g \in store.shares \/ g \in r.grants
  BY <1>1, GrantsFound DEF TypeInv, TypeOK
<1>4. r.grants \subseteq OwnedBy(r.users) /\ shared \cap own \subseteq r.grants
  BY <1>1, <1>2, <1>3 DEF GrantFacts
<1>5. \A g \in Grants : g \in RegisterScope(r) => g \in own
  BY <1>1, KindsAssumption, NodeIdTypes DEF RegisterScope
<1>6. own \subseteq RegisterScope(r)
  BY DEF RegisterScope
<1>7. store.shares \ own \subseteq store'.shares
  BY <1>1
<1> HIDE DEF r
<1>8. CASE pc'[m] = "idle" /\ unsettled' = unsettled \cup RegisterScope(r)
  <2>1. GrantFacts(m, pc[m], req[m])'
    BY <1>2, <1>8 DEF GrantFacts
  <2>2. \A g \in shared' \ unsettled' : g \in store'.shares
    BY <1>1, <1>3, <1>4, <1>6, <1>7, <1>8
  <2> QED BY <1>1, <2>1, <2>2, GrantHolder
<1>9. CASE pc'[m] = "idle" /\ label = "done" /\ store' = st /\ unsettled' = unsettled \ RegisterScope(r)
  <2>1. GrantFacts(m, pc[m], req[m])'
    BY <1>2, <1>9 DEF GrantFacts
  <2>2. r.grants \subseteq store'.shares
    BY <1>9 DEF r
  <2>3. \A g \in shared' \ unsettled' : g \in store'.shares
    BY <1>1, <1>3, <1>4, <1>5, <1>7, <1>9, <2>2
  <2> QED BY <1>1, <2>1, <2>3, GrantHolder
<1>10. CASE pc'[m] = label /\ label # "done" /\ req'[m] = r /\ unsettled' = unsettled
  <2>1. GrantFacts(m, pc[m], req[m])'
    BY <1>1, <1>2, <1>4, <1>10 DEF GrantFacts
  <2>2. \A g \in shared' \ unsettled' :
          g \in store'.shares \/ (pc'[m] \in Granting /\ g \in req'[m].grants)
    BY <1>1, <1>2, <1>3, <1>4, <1>7, <1>10
  <2> QED BY <1>1, <2>1, <2>2, GrantHolder
<1> QED BY <1>1, <1>8, <1>9, <1>10

\* A registration, from its call to its last write.
LEMMA GrantRegister ==
    ASSUME RevocationInv, GrantInv, NEW m \in Machines, RegisterStep(m)
    PROVE  GrantInv'
<1> DEFINE r == req[m]
           own == OwnedBy(r.users) \cup Involving(r.purged)
           Goal == GrantInv'
<1>1. /\ TypeInv /\ m \in Callers /\ r \in Requests /\ store \in Stores
      /\ pc \in [Callers -> Labels] /\ req \in [Callers -> Requests]
      /\ r.users \subseteq Users /\ r.purged \subseteq Users /\ r.grants \subseteq Grants
  BY CallersDisjoint DEF RevocationInv, TypeInv, TypeOK, Requests
<1>2. pc[m] \in Registering => writeOrderMu = m /\ r.node \in NodeIds
  BY <1>1 DEF RevocationInv, HolderOK, Holding, TypeInv, RequestOK, Fits
<1>3. OwnedBy(r.users) \subseteq Grants /\ Involving(r.purged) \subseteq Grants
  BY DEF OwnedBy, Involving
<1>4. GrantFacts(m, pc[m], r)
  BY <1>1 DEF GrantInv
<1> SUFFICES Goal
  OBVIOUS
<1>5. ASSUME NEW here \in RegisterWriting, NEW st, NEW outcomes,
             NEW label \in RegisterWriting \cup {"done"},
             RegisterWrite(m, here, st, outcomes, label),
             \A x \in {st} \cup outcomes : store.shares \ own \subseteq x.shares,
             label = "done" => r.grants \subseteq st.shares
      PROVE  Goal
  BY <1>5, GrantWrite
<1>6. ASSUME writeOrderMu = m \/ writeOrderMu = Free, shared' = shared,
             store'.shares = store.shares, unsettled \subseteq unsettled', pc[m] \notin Granting,
             pc'[m] \in {"alloc", "commit", "idle"},
             pc'[m] # "idle" => pc[m] \in Registering \cup {"register"}
                                  /\ req'[m].grants = r.grants /\ req'[m].users = r.users,
             \A b \in Callers \ {m} : pc'[b] = pc[b] /\ req'[b] = req[b]
      PROVE  Goal
  <2>1. \A g \in shared \ unsettled : g \in store.shares
    BY <1>1, <1>6, GrantsFound
  <2>2. GrantFacts(m, pc[m], req[m])'
    BY <1>4, <1>6 DEF GrantFacts, Registering, RegisterWriting, Dropping
  <2> QED BY <1>1, <1>6, <2>1, <2>2, GrantHolder
<1>7. /\ "rename" \in RegisterWriting /\ "renameRemove" \in RegisterWriting
      /\ "renameInsert" \in RegisterWriting /\ "upsert" \in RegisterWriting
      /\ "purgeUsers" \in RegisterWriting /\ "purgeShares" \in RegisterWriting
      /\ "assign" \in RegisterWriting /\ "clear" \in RegisterWriting /\ "grant" \in RegisterWriting
      /\ RegisterWriting \subseteq Registering
      /\ AfterUpsert(r) \in RegisterWriting \cup {"done"}
      /\ AfterPurge(r) \in RegisterWriting \cup {"done"}
      /\ AfterClear(r) \in RegisterWriting \cup {"done"}
  BY DEF RegisterWriting, Registering, AfterUpsert, AfterPurge, AfterClear
<1>8. ASSUME pc[m] \in RegisterWriting, AfterPurge(r) = "done" \/ AfterClear(r) = "done" PROVE r.grants = {}
  <2>1. r.grants \subseteq OwnedBy(r.users)
    BY <1>4, <1>7, <1>8 DEF GrantFacts
  <2>2. r.users = {} \/ r.grants = {}
    BY <1>8 DEF AfterPurge, AfterClear
  <2> QED BY <2>1, <2>2 DEF OwnedBy
<1>9. /\ "register" \notin Granting /\ "alloc" \notin Granting
      /\ "alloc" \in Registering /\ "commit" \in Registering
  BY DEF Granting, RegisterWriting, Registering
<1> HIDE DEF Goal
<1>10. CASE RegisterKnown(m)
  <2>1. PICK t \in Targets(r) :
          /\ t.num # None
          /\ Commit(m, t.num, IF t.adopt THEN "rename" ELSE "upsert")
          /\ unsettled \subseteq unsettled'
    BY <1>10 DEF RegisterKnown
  <2>2. t.num \in Numerics
    BY <2>1, TargetTypes
  <2>3. pc[m] = "register" /\ writeOrderMu = Free /\ store' = store
    BY <1>10 DEF RegisterKnown, Lock
  <2> QED BY <2>1, <2>2, <2>3, GrantCommit DEF Goal
<1>11. CASE RegisterNew(m)
  <2>1. /\ pc[m] = "register" /\ Goto(m, "alloc") /\ req' = req /\ writeOrderMu = Free
        /\ shared' = shared /\ store' = store /\ unsettled' = unsettled
    BY <1>11 DEF RegisterNew, Lock, memory, history
  <2>2. pc'[m] = "alloc" /\ \A b \in Callers \ {m} : pc'[b] = pc[b] /\ req'[b] = req[b]
    BY <1>1, <2>1 DEF Goto
  <2> QED BY <1>6, <1>9, <2>1, <2>2
<1>12. CASE RejectRegister(m)
  BY <1>12, GrantOutside DEF Goal
<1>13. CASE AllocateNode(m)
  <2> DEFINE q == [r EXCEPT !.num = store'.nodes[r.node].num]
  <2>1. /\ pc[m] = "alloc" /\ shared' = shared
        /\ store' \in {UpsertFileServer(store, r.node, m)}
                        \cup UpsertFileServerPartial(store, r.node, m)
        /\ \/ Goto(m, "commit") /\ Local(m, q) /\ unsettled' = unsettled
           \/ Goto(m, "idle") /\ Local(m, NoReq) /\ unsettled' = unsettled \cup RegisterScope(r)
    BY <1>13 DEF AllocateNode, AbortRegister, Return, Applied, Failed, memory
  <2>2. q.users = r.users /\ q.grants = r.grants
    BY <1>1 DEF Requests
  <2>3. store'.shares = store.shares /\ writeOrderMu = m
    BY <1>1, <1>2, <1>9, <2>1, SharesUntouched
  <2> HIDE DEF q
  <2>4. /\ (pc'[m] = "commit" /\ req'[m] = q) \/ pc'[m] = "idle"
        /\ \A b \in Callers \ {m} : pc'[b] = pc[b] /\ req'[b] = req[b]
    BY <1>1, <2>1, OthersStay
  <2> QED BY <1>6, <1>9, <2>1, <2>2, <2>3, <2>4
<1>14. CASE CommitNew(m)
  <2>1. /\ pc[m] = "commit" /\ Commit(m, r.num, "upsert") /\ store' = store /\ unsettled' = unsettled
    BY <1>14 DEF CommitNew
  <2>2. r.num \in Numerics
    BY <1>1, <2>1 DEF TypeInv, RequestOK, Fits
  <2> QED BY <1>2, <1>9, <2>1, <2>2, GrantCommit DEF Goal
<1>15. CASE RenameUsers(m)
  <2> DEFINE old == LegacyNodeID(m)
             q == [r EXCEPT !.oldDoc = store.nodes[old]]
  <2>1. /\ pc[m] = "rename" /\ shared' = shared
        /\ store' \in {store, RenameMoveUsers(store, old, r.node)}
                        \cup RenameMoveUsersPartial(store, old, r.node)
        /\ \/ Goto(m, "upsert") /\ req' = req /\ unsettled' = unsettled
           \/ Goto(m, "renameRemove") /\ Local(m, q) /\ unsettled' = unsettled
           \/ Goto(m, "idle") /\ Local(m, NoReq) /\ unsettled' = unsettled \cup RegisterScope(r)
    BY <1>15 DEF RenameUsers, AbortRegister, Return, Applied, Failed, memory
  <2>2. q.users = r.users /\ q.grants = r.grants /\ q.purged = r.purged
    BY <1>1 DEF Requests
  <2>3. store'.shares = store.shares /\ writeOrderMu = m
    BY <1>1, <1>2, <1>7, <2>1, SharesUntouched, NodeIdTypes
  <2> HIDE DEF q
  <2>4. /\ \/ pc'[m] = "upsert" /\ req'[m] = r /\ unsettled' = unsettled
           \/ pc'[m] = "renameRemove" /\ req'[m] = q /\ unsettled' = unsettled
           \/ pc'[m] = "idle" /\ unsettled' = unsettled \cup RegisterScope(r)
        /\ \A b \in Callers \ {m} : pc'[b] = pc[b] /\ req'[b] = req[b]
    BY <1>1, <2>1 DEF Goto, Local
  <2>5. /\ r.grants \subseteq OwnedBy(r.users) /\ shared \cap own \subseteq r.grants
        /\ r.grants \subseteq RegisterScope(r)
    BY <1>4, <1>7, <2>1 DEF GrantFacts, RegisterScope
  <2>6. \A g \in shared \ unsettled : g \in store.shares \/ g \in r.grants
    BY <1>1, <2>3, GrantsFound
  <2>7. GrantFacts(m, pc[m], req[m])'
    BY <2>1, <2>2, <2>4, <2>5 DEF GrantFacts, Registering, RegisterWriting, Dropping
  <2>8. \A g \in shared' \ unsettled' :
          g \in store'.shares \/ (pc'[m] \in Granting /\ g \in req'[m].grants)
    BY <1>7, <2>1, <2>2, <2>3, <2>4, <2>5, <2>6 DEF Granting
  <2> QED BY <1>1, <2>3, <2>4, <2>7, <2>8, GrantHolder DEF Goal
<1>16. CASE RenameRemove(m)
  <2> DEFINE st == RenameRemoveOld(store, LegacyNodeID(m))
  <2>1. RegisterWrite(m, "renameRemove", st, {store, st}, "renameInsert")
    BY <1>16 DEF RenameRemove
  <2>2. st.shares = store.shares
    BY <1>1, SharesUntouched, NodeIdTypes
  <2> HIDE DEF st
  <2> QED BY <1>5, <1>7, <2>1, <2>2
<1>17. CASE RenameInsert(m)
  <2> DEFINE st == RenameInsertNew(store, r.oldDoc, r.node)
  <2>1. RegisterWrite(m, "renameInsert", st, {store, st}, "upsert")
    BY <1>17 DEF RenameInsert
  <2>2. st.shares = store.shares
    BY <1>1, <1>2, <1>7, <2>1, SharesUntouched DEF RegisterWrite
  <2> HIDE DEF st
  <2> QED BY <1>5, <1>7, <2>1, <2>2
<1>18. CASE PersistNode(m)
  <2> DEFINE st == UpsertFileServer(store, r.node, m)
             outcomes == UpsertFileServerPartial(store, r.node, m)
  <2>1. RegisterWrite(m, "upsert", st, outcomes, AfterUpsert(r))
    BY <1>18 DEF PersistNode
  <2>2. \A x \in {st} \cup outcomes : x.shares = store.shares
    BY <1>1, <1>2, <1>7, <2>1, SharesUntouched DEF RegisterWrite
  <2>3. AfterUpsert(r) = "done" => r.grants = {}
    BY <1>7, <1>8, <2>1 DEF AfterUpsert, RegisterWrite
  <2> HIDE DEF st, outcomes
  <2> QED BY <1>5, <1>7, <2>1, <2>2, <2>3
<1>19. CASE PurgeUsers(m)
  <2> DEFINE st == RemoveUsers(store, r.purged)
             outcomes == RemoveUsersPartial(store, r.purged)
  <2>1. RegisterWrite(m, "purgeUsers", st, outcomes, "purgeShares")
    BY <1>19 DEF PurgeUsers
  <2>2. \A x \in {st} \cup outcomes : x.shares = store.shares
    BY <1>1, SharesUntouched
  <2> HIDE DEF st, outcomes
  <2> QED BY <1>5, <1>7, <2>1, <2>2
<1>20. CASE PurgeShares(m)
  <2> DEFINE S == Involving(r.purged)
             st == RemoveSharesInvolving(store, r.purged)
             outcomes == DropSharesPartial(store, S)
  <2>1. RegisterWrite(m, "purgeShares", st, outcomes, AfterPurge(r))
    BY <1>20 DEF PurgeShares
  <2>2. \A x \in {st} \cup outcomes : store.shares \ S \subseteq x.shares
    <3>1. /\ \A x \in outcomes : store.shares \ S \subseteq x.shares
          /\ [store EXCEPT !.shares = @ \ S].shares = store.shares \ S
      BY <1>1, <1>3, SharesKept
    <3>2. st.shares = store.shares \ S
      BY <3>1 DEF RemoveSharesInvolving
    <3> QED BY <3>1, <3>2
  <2>3. AfterPurge(r) = "done" => r.grants = {}
    BY <1>7, <1>8, <2>1 DEF RegisterWrite
  <2> HIDE DEF st, outcomes
  <2> QED BY <1>5, <1>7, <2>1, <2>2, <2>3
<1>21. CASE PersistUsers(m)
  <2> DEFINE st == AssignUsers(store, r.node, r.users)
             outcomes == AssignUsersPartial(store, r.node, r.users)
  <2>1. RegisterWrite(m, "assign", st, outcomes, "clear")
    BY <1>21 DEF PersistUsers
  <2>2. \A x \in {st} \cup outcomes : x.shares = store.shares
    BY <1>1, <1>2, <1>7, <2>1, SharesUntouched DEF RegisterWrite
  <2> HIDE DEF st, outcomes
  <2> QED BY <1>5, <1>7, <2>1, <2>2
<1>22. CASE ClearShares(m)
  <2> DEFINE S == OwnedBy(r.users)
             st == RemoveSharesByOwner(store, r.users)
             outcomes == DropSharesPartial(store, S)
  <2>1. RegisterWrite(m, "clear", st, outcomes, AfterClear(r))
    BY <1>22 DEF ClearShares
  <2>2. \A x \in {st} \cup outcomes : store.shares \ S \subseteq x.shares
    <3>1. /\ \A x \in outcomes : store.shares \ S \subseteq x.shares
          /\ [store EXCEPT !.shares = @ \ S].shares = store.shares \ S
      BY <1>1, <1>3, SharesKept
    <3>2. st.shares = store.shares \ S
      BY <3>1 DEF RemoveSharesByOwner
    <3> QED BY <3>1, <3>2
  <2>3. AfterClear(r) = "done" => r.grants = {}
    BY <1>7, <1>8, <2>1 DEF RegisterWrite
  <2> HIDE DEF st, outcomes
  <2> QED BY <1>5, <1>7, <2>1, <2>2, <2>3
<1>23. CASE PersistShares(m)
  <2> DEFINE st == AddShares(store, r.grants)
             outcomes == AddSharesPartial(store, r.grants)
  <2>1. RegisterWrite(m, "grant", st, outcomes, "done")
    BY <1>23 DEF PersistShares
  <2>2. \A x \in {st} \cup outcomes : store.shares \subseteq x.shares
    BY <1>1, SharesKept
  <2>3. r.grants \subseteq st.shares
    BY <1>1, SharesKept
  <2> HIDE DEF st, outcomes
  <2> QED BY <1>5, <1>7, <2>1, <2>2, <2>3
<1> QED
  BY <1>10, <1>11, <1>12, <1>13, <1>14, <1>15, <1>16, <1>17, <1>18, <1>19, <1>20, <1>21, <1>22,
     <1>23 DEF RegisterStep

\* Placements show no grant, and shares are stored or taken back.
LEMMA GrantServe ==
    ASSUME RevocationInv, GrantInv,
           \/ \E c \in Clients : GetRootsPlace(c) \/ PersistPlacement(c)
           \/ \E s \in Sharers : ShareStep(s)
    PROVE  GrantInv'
<1>1. /\ TypeInv /\ store \in Stores /\ shared \subseteq Grants
      /\ pc \in [Callers -> Labels] /\ req \in [Callers -> Requests]
  BY DEF RevocationInv, TypeInv, TypeOK
<1>2. ASSUME NEW a \in Clients \cup Sharers, writeOrderMu = a \/ writeOrderMu = Free,
             NEW label \in Labels \ Dropping, pc'[a] = label,
             \A b \in Callers \ {a} : pc'[b] = pc[b] /\ req'[b] = req[b],
             \A g \in shared' \ unsettled' :
                g \in store'.shares \/ (pc'[a] \in Granting /\ g \in req'[a].grants)
      PROVE  GrantInv'
  <2>1. a \in Callers /\ a \notin Machines
    BY CallersDisjoint
  <2>2. GrantFacts(a, pc[a], req[a])'
    BY <1>2, <2>1 DEF GrantFacts
  <2> QED BY <1>2, <2>1, <2>2, GrantHolder
<1>3. ASSUME NEW a \in Clients \cup Sharers, writeOrderMu = a \/ writeOrderMu = Free,
             pc[a] \notin Granting
      PROVE  \A g \in shared \ unsettled : g \in store.shares
  BY <1>3, GrantsFound, CallersDisjoint
<1>4. /\ {"idle", "in", "place", "addShare", "removeShare"} \subseteq Labels \ Dropping
      /\ \A l \in {"idle", "in", "place", "removeShare"} : l \notin Granting
      /\ "addShare" \in Granting
      /\ \A l \in {"place", "addShare", "removeShare"} : l \in Holding
  BY DEF Labels, Dropping, Granting, RegisterWriting, Holding
<1>5. ASSUME NEW c \in Clients, GetRootsPlace(c) PROVE GrantInv'
  <2>1. PICK q : Local(c, q)
    BY <1>5 DEF GetRootsPlace
  <2>2. /\ pc[c] = "idle" /\ writeOrderMu = Free /\ Goto(c, "place") /\ shared' \subseteq shared
        /\ store' = store /\ unsettled' = unsettled
    BY <1>5 DEF GetRootsPlace, Lock, history
  <2>3. pc'[c] = "place" /\ \A b \in Callers \ {c} : pc'[b] = pc[b] /\ req'[b] = req[b]
    BY <1>1, <2>1, <2>2, OthersStay, CallersDisjoint
  <2> QED BY <1>2, <1>3, <1>4, <2>2, <2>3
<1>6. ASSUME NEW c \in Clients, PersistPlacement(c) PROVE GrantInv'
  <2> DEFINE u == UserOf[c]
             st == AssignUser(store, req[c].node, u)
  <2>1. /\ pc[c] = "place" /\ store' \in {store, st}
        /\ \/ Goto(c, "in") /\ Local(c, NoReq) /\ shared' = shared /\ unsettled' = unsettled \ {u}
           \/ Goto(c, "idle") /\ Local(c, NoReq) /\ shared' \subseteq shared
              /\ unsettled' = unsettled \cup {u}
    BY <1>6 DEF PersistPlacement, Return, Applied, Failed, RollBackPlacement, memory
  <2>2. u \in Users /\ req[c].node \in NodeIds /\ writeOrderMu = c
    BY <1>1, <1>4, <2>1, CallersDisjoint, MetaServerAssumption
    DEF RevocationInv, HolderOK, TypeInv, RequestOK, Fits
  <2>3. st.shares = store.shares
    BY <1>1, <2>2, SharesUntouched DEF AssignUser
  <2>4. u \notin shared
    BY <1>1, <2>2, KindsAssumption
  <2> HIDE DEF st, u
  <2>5. pc'[c] \in {"in", "idle"} /\ \A b \in Callers \ {c} : pc'[b] = pc[b] /\ req'[b] = req[b]
    BY <1>1, <2>1, OthersStay, CallersDisjoint
  <2>6. \A g \in shared' \ unsettled' : g \in store'.shares
    BY <1>3, <1>4, <2>1, <2>2, <2>3, <2>4
  <2> QED BY <1>2, <1>4, <2>2, <2>5, <2>6
<1>7. ASSUME NEW s \in Sharers, RootShare(s) PROVE GrantInv'
  <2>1. PICK g \in Grants : shared' = shared \cup {g} /\ Local(s, [NoReq EXCEPT !.grants = {g}])
    BY <1>7 DEF RootShare
  <2> DEFINE q == [NoReq EXCEPT !.grants = {g}]
  <2>2. /\ pc[s] = "idle" /\ writeOrderMu = Free /\ Goto(s, "addShare")
        /\ store' = store /\ unsettled' = unsettled
    BY <1>7 DEF RootShare, Lock
  <2>3. q.grants = {g} /\ Local(s, q)
    BY <2>1 DEF NoReq
  <2> HIDE DEF q
  <2>4. /\ pc'[s] = "addShare" /\ req'[s] = q
        /\ \A b \in Callers \ {s} : pc'[b] = pc[b] /\ req'[b] = req[b]
    BY <1>1, <2>2, <2>3, OthersStay, CallersDisjoint
  <2>5. \A x \in shared' \ unsettled' : x \in store'.shares \/ x \in req'[s].grants
    BY <1>3, <1>4, <2>1, <2>2, <2>3, <2>4
  <2> QED BY <1>2, <1>4, <2>2, <2>4, <2>5
<1>8. ASSUME NEW s \in Sharers, RootUnshare(s) PROVE GrantInv'
  <2>1. PICK g \in Grants : shared' = shared \ {g} /\ Local(s, [NoReq EXCEPT !.grants = {g}])
    BY <1>8 DEF RootUnshare
  <2>2. /\ pc[s] = "idle" /\ writeOrderMu = Free /\ Goto(s, "removeShare")
        /\ store' = store /\ unsettled' = unsettled
    BY <1>8 DEF RootUnshare, Lock, history
  <2>3. pc'[s] = "removeShare" /\ \A b \in Callers \ {s} : pc'[b] = pc[b] /\ req'[b] = req[b]
    BY <1>1, <2>1, <2>2, OthersStay, CallersDisjoint
  <2> QED BY <1>2, <1>3, <1>4, <2>1, <2>2, <2>3
<1>9. ASSUME NEW s \in Sharers, PersistShare(s) PROVE GrantInv'
  <2> DEFINE g == CHOOSE x \in req[s].grants : TRUE
             st == AddShare(store, g)
  <2>1. /\ pc[s] = "addShare" /\ Goto(s, "idle") /\ Local(s, NoReq)
        /\ \/ store' = st /\ shared' = shared /\ unsettled' = unsettled \ {g}
           \/ store' \in {store, st} /\ shared' = shared \ {g} /\ unsettled' = unsettled \cup {g}
    BY <1>9 DEF PersistShare, Return, Applied, Failed
  <2>2. g \in Grants /\ req[s].grants = {g} /\ writeOrderMu = s
    BY <1>1, <1>4, <2>1, OneGrant, CallersDisjoint DEF RevocationInv, HolderOK
  <2> HIDE DEF g
  <2>3. st.shares = store.shares \cup {g}
    <3>1. {g} \in SUBSET Grants
      BY <2>2
    <3>2. AddShares(store, {g}).shares = store.shares \cup {g}
      BY <1>1, <3>1, SharesBounded
    <3> QED BY <3>2 DEF AddShare
  <2> HIDE DEF st
  <2>4. pc'[s] = "idle" /\ \A b \in Callers \ {s} : pc'[b] = pc[b] /\ req'[b] = req[b]
    BY <1>1, <2>1, OthersStay, CallersDisjoint
  <2>5. \A x \in shared \ unsettled : x \in store.shares \/ x = g
    BY <2>2, GrantsFound, CallersDisjoint
  <2>6. \A x \in shared' \ unsettled' : x \in store'.shares
    BY <2>1, <2>3, <2>5
  <2> QED BY <1>2, <1>4, <2>2, <2>4, <2>6
<1>10. ASSUME NEW s \in Sharers, PersistUnshare(s) PROVE GrantInv'
  <2> DEFINE g == CHOOSE x \in req[s].grants : TRUE
             st == RemoveShare(store, g)
  <2>1. /\ pc[s] = "removeShare" /\ Goto(s, "idle") /\ Local(s, NoReq) /\ shared' = shared
        /\ store' \in {store, st}
        /\ unsettled' = unsettled \ {g} \/ unsettled' = unsettled \cup {g}
    BY <1>10 DEF PersistUnshare, Return, Applied, Failed, memory
  <2>2. g \in Grants /\ req[s].grants = {g} /\ writeOrderMu = s /\ g \notin shared
    BY <1>1, <1>4, <2>1, OneGrant, CallersDisjoint DEF RevocationInv, HolderOK, Harmless
  <2>3. st.shares = store.shares \ {g}
    BY <1>1, <2>2, SharesBounded DEF RemoveShare
  <2> HIDE DEF g, st
  <2>4. pc'[s] = "idle" /\ \A b \in Callers \ {s} : pc'[b] = pc[b] /\ req'[b] = req[b]
    BY <1>1, <2>1, OthersStay, CallersDisjoint
  <2>5. \A x \in shared' \ unsettled' : x \in store'.shares
    BY <1>3, <1>4, <2>1, <2>2, <2>3
  <2> QED BY <1>2, <1>4, <2>2, <2>4, <2>5
<1> QED BY <1>5, <1>6, <1>7, <1>8, <1>9, <1>10 DEF ShareStep

\* A removal hides the grants of the users it removes, and shows them again when
\* it fails; the ones it has hidden are the only ones it deletes.
LEMMA GrantDeregister ==
    ASSUME RevocationInv, GrantInv, DeregisterStep
    PROVE  GrantInv'
<1> DEFINE r == req[Admin]
           gone == Involving(r.users)
<1>1. /\ TypeInv /\ Admin \in Callers /\ Admin \notin Machines /\ store \in Stores
      /\ shared \subseteq Grants /\ pc \in [Callers -> Labels] /\ req \in [Callers -> Requests]
  BY CallersDisjoint DEF RevocationInv, TypeInv, TypeOK
<1>2. /\ \A l \in Dropping : l \notin Granting /\ l \in Holding
      /\ "idle" \notin Dropping /\ "idle" \notin Granting
      /\ "dropUsers" \in Dropping /\ "dropShares" \in Dropping /\ "dropNode" \in Dropping
  BY DEF Dropping, Granting, RegisterWriting, Holding
<1>3. gone \subseteq Grants
  BY DEF Involving
<1>4. ASSUME NEW here \in Dropping, NEW st, NEW outcomes, NEW label \in Dropping \cup {"done"},
             DeregWrite(here, st, outcomes, label),
             \A x \in {st} \cup outcomes : store.shares \ gone \subseteq x.shares
      PROVE  GrantInv'
  <2>1. /\ writeOrderMu = Admin /\ pc[Admin] = here /\ r.prev \in Snapshots
        /\ r.users \subseteq Users /\ r.node \in NodeIds
        /\ store' \in {st} \cup outcomes
        /\ \/ /\ pc'[Admin] = label /\ label # "done" /\ req'[Admin] = r
              /\ shared' = shared /\ unsettled' = unsettled
           \/ /\ pc'[Admin] = "idle" /\ shared' = shared
              /\ unsettled' = unsettled \ DeregScope(r)
           \/ /\ pc'[Admin] = "idle" /\ shared' = r.prev.shared
              /\ unsettled' = unsettled \cup DeregScope(r)
        /\ \A b \in Callers \ {Admin} : pc'[b] = pc[b] /\ req'[b] = req[b]
    BY <1>4, DropMoves DEF memory, RollBackDeregister
  <2>2. shared = r.prev.shared \ gone
    BY <1>1, <1>2, <2>1 DEF GrantInv, GrantFacts
  <2>3. \A g \in shared \ unsettled : g \in store.shares
    BY <1>1, <1>2, <2>1, GrantsFound
  <2>4. store.shares \ gone \subseteq store'.shares
    BY <1>4, <2>1
  <2>5. /\ gone \subseteq DeregScope(r)
        /\ \A g \in Grants : g \in DeregScope(r) => g \in gone
    BY <2>1, KindsAssumption DEF DeregScope
  <2>6. r.prev.shared \subseteq Grants
    BY <2>1 DEF Snapshots
  <2> HIDE DEF gone, r
  <2>7. GrantFacts(Admin, pc[Admin], req[Admin])'
    BY <1>1, <1>2, <2>1, <2>2 DEF GrantFacts, gone
  <2>8. \A g \in shared' \ unsettled' : g \in store'.shares
    BY <1>1, <2>1, <2>2, <2>3, <2>4, <2>5, <2>6
  <2> QED BY <1>1, <2>1, <2>7, <2>8, GrantHolder
<1>5. CASE DeregisterFileServer
  <2>1. PICK t \in DeregTargets, U \in SUBSET Users :
          /\ Local(Admin, [NoReq EXCEPT
                !.node = t.node, !.num = t.num, !.users = U,
                !.prev = [info |-> IF t.num = None THEN None ELSE fileservers[t.num],
                          users |-> users, orphanedUsers |-> orphanedUsers,
                          shared |-> shared]])
          /\ shared' = shared \ Involving(U)
          /\ Goto(Admin, IF U # {} THEN "dropUsers" ELSE "dropNode")
    <3>1. PICK t \in DeregTargets :
            LET U == (IF t.num = None THEN {} ELSE UsersOn(t.num)) \cup OrphansOf(t.node) IN
            /\ Local(Admin, [NoReq EXCEPT
                  !.node = t.node, !.num = t.num, !.users = U,
                  !.prev = [info |-> IF t.num = None THEN None ELSE fileservers[t.num],
                            users |-> users, orphanedUsers |-> orphanedUsers,
                            shared |-> shared]])
            /\ shared' = shared \ Involving(U)
            /\ Goto(Admin, IF U # {} THEN "dropUsers" ELSE "dropNode")
      BY <1>5 DEF DeregisterFileServer
    <3>2. (IF t.num = None THEN {} ELSE UsersOn(t.num)) \cup OrphansOf(t.node) \in SUBSET Users
      BY DEF UsersOn, OrphansOf
    <3> QED BY <3>1, <3>2
  <2> DEFINE old == [info |-> IF t.num = None THEN None ELSE fileservers[t.num],
                     users |-> users, orphanedUsers |-> orphanedUsers, shared |-> shared]
             q == [NoReq EXCEPT !.node = t.node, !.num = t.num, !.users = U, !.prev = old]
  <2>2. q.users = U /\ q.prev.shared = shared
    BY DEF NoReq
  <2>3. PICK label \in {"dropUsers", "dropNode"} :
          Local(Admin, q) /\ Goto(Admin, label) /\ shared' = shared \ Involving(U)
    BY <2>1
  <2>4. pc[Admin] = "idle" /\ writeOrderMu = Free /\ store' = store /\ unsettled' = unsettled
    BY <1>5 DEF DeregisterFileServer, Lock
  <2> HIDE DEF q
  <2>5. /\ pc'[Admin] = label /\ req'[Admin] = q
        /\ \A b \in Callers \ {Admin} : pc'[b] = pc[b] /\ req'[b] = req[b]
    BY <1>1, <2>3, OthersStay
  <2>6. GrantFacts(Admin, pc[Admin], req[Admin])'
    BY <1>1, <2>2, <2>3, <2>5 DEF GrantFacts
  <2>7. \A g \in shared' \ unsettled' : g \in store'.shares
    BY <1>1, <1>2, <2>3, <2>4, GrantsFound
  <2> QED BY <1>1, <2>4, <2>5, <2>6, <2>7, GrantHolder
<1>6. CASE DropUsers
  <2> DEFINE st == RemoveUsers(store, r.users)
             outcomes == RemoveUsersPartial(store, r.users)
  <2>1. DeregWrite("dropUsers", st, outcomes, "dropShares")
    BY <1>6 DEF DropUsers
  <2>2. \A x \in {st} \cup outcomes : x.shares = store.shares
    BY <1>1, <2>1, <1>2, DropMoves, SharesUntouched
  <2> HIDE DEF st, outcomes, gone
  <2> QED BY <1>2, <1>4, <2>1, <2>2
<1>7. CASE DropShares
  <2> DEFINE st == RemoveSharesInvolving(store, r.users)
             outcomes == DropSharesPartial(store, gone)
             label == IF r.num # None THEN "dropNode" ELSE "done"
  <2>1. DeregWrite("dropShares", st, outcomes, label)
    BY <1>7 DEF DropShares
  <2>2. \A x \in {st} \cup outcomes : store.shares \ gone \subseteq x.shares
    <3>1. /\ \A x \in outcomes : store.shares \ gone \subseteq x.shares
          /\ [store EXCEPT !.shares = @ \ gone].shares = store.shares \ gone
      BY <1>1, <1>3, SharesKept
    <3>2. st.shares = store.shares \ gone
      BY <3>1 DEF RemoveSharesInvolving
    <3> QED BY <3>1, <3>2
  <2>3. label \in Dropping \cup {"done"}
    BY <1>2
  <2> HIDE DEF st, outcomes, gone, label
  <2> QED BY <1>2, <1>4, <2>1, <2>2, <2>3
<1>8. CASE DropNode
  <2> DEFINE st == RemoveFileServer(store, r.node)
  <2>1. DeregWrite("dropNode", st, {store, st}, "done")
    BY <1>8 DEF DropNode
  <2>2. st.shares = store.shares
    BY <1>1, <1>2, <2>1, DropMoves, SharesUntouched
  <2> HIDE DEF st, gone
  <2> QED BY <1>2, <1>4, <2>1, <2>2
<1> QED BY <1>5, <1>6, <1>7, <1>8 DEF DeregisterStep

\* A restart shows exactly what is stored.
LEMMA GrantCrash == ASSUME RevocationInv, GrantInv, Crash PROVE GrantInv'
<1>1. shared' = store.shares /\ store' = store
  BY DEF Crash, Hydrate
<1>2. ASSUME NEW a \in Callers PROVE pc'[a] \in {"in", "routed", "idle"}
  BY DEF Crash
<1>3. ASSUME NEW a \in Callers PROVE GrantFacts(a, pc[a], req[a])'
  BY <1>2 DEF GrantFacts, Registering, RegisterWriting, Dropping
<1> QED BY <1>1, <1>3 DEF GrantInv, GrantsShown

\* At first nothing is shown.
LEMMA GrantInit == Init => GrantInv
BY DEF Init, GrantInv, GrantsShown, GrantFacts, Registering, RegisterWriting, Dropping

\* Every step keeps the account.
LEMMA GrantStep == ASSUME RevocationInv, GrantInv, [Next]_vars PROVE GrantInv'
<1>1. ASSUME NEW c \in Clients, ClientStep(c) PROVE GrantInv'
  BY <1>1, GrantOutside, GrantServe DEF ClientStep
<1> QED
  BY <1>1, GrantOutside, GrantRegister, GrantServe, GrantDeregister, GrantCrash DEF Next

\* For every number of nodes, users, grants, clients and failures: once nobody is
\* inside a structural request, every grant that memory shows, and that no failed
\* request left in doubt, is in the store, so an acknowledged RootShare or
\* registration survives the restart of the metaserver.
THEOREM GrantsSurvive == Spec => []GrantsAreDurable
<1>1. Init => RevocationInv /\ GrantInv
  BY RevocationInit, GrantInit
<1>2. RevocationInv /\ GrantInv /\ [Next]_vars => (RevocationInv /\ GrantInv)'
  BY RevocationStep, GrantStep
<1>3. RevocationInv /\ GrantInv => GrantsAreDurable
  <2>1. ASSUME RevocationInv, GrantInv, writeOrderMu = Free, NEW g \in shared \ unsettled
        PROVE  g \in store.shares
    BY <2>1, CallersDisjoint, GrantsFound, CallersAssumption
    DEF RevocationInv, HolderOK, Holding, Granting, Registering
  <2> QED BY <2>1 DEF GrantsAreDurable, Quiet
<1> QED BY <1>1, <1>2, <1>3, PTL DEF Spec
-----------------------------------------------------------------------------
(* Homes and nodes, where every process sends its fs_id *)

\* What a request has yet to write: users whose home, and nodes whose document,
\* memory and the store need not agree on.
Owed(a, label, r) ==
    IF label \in RegisterWriting
    THEN r.users \cup r.purged \cup (IF label = "upsert" THEN {r.node} ELSE {})
    ELSE IF label \in {"alloc", "commit"} THEN {r.node}
    ELSE IF label = "place" THEN {UserOf[a]}
    ELSE IF label \in Dropping THEN r.users \cup (IF r.num = None THEN {} ELSE {r.node})
    ELSE {}

\* What a request knows about the homes it is moving.
HomeFacts(a, label, r) ==
    /\ a \in Machines /\ label \in RegisterWriting =>
          /\ ~Absent(fileservers, r.node)
          /\ \A u \in r.users : MemoryHome(u) = r.node
          /\ \A u \in r.purged : MemoryHome(u) = None
          /\ label # "upsert" => store.nodes[r.node] # None
          /\ label \in {"purgeShares", "assign", "clear", "grant"} =>
                \A u \in r.purged : store.users[u] = None
          /\ label \in {"clear", "grant"} => \A u \in r.users : store.users[u] = r.node
    /\ a \in Clients /\ label = "place" =>
          ~Absent(fileservers, r.node) /\ MemoryHome(UserOf[a]) = r.node
    /\ label \in Dropping =>
          /\ r.num # None => /\ r.prev.info # None /\ r.prev.info.node = r.node
                             /\ r.node \in FsIds /\ Absent(fileservers, r.node)
          /\ \A u \in Users : MemoryHome(u) # r.node
          /\ \A u \in r.users : MemoryHome(u) = None
          /\ label # "dropUsers" => \A u \in r.users : store.users[u] = None
          /\ label = "dropNode" => r.num # None

\* Every process sends its fs_id and no trace of a legacy identity is left.
Modern ==
    /\ upgraded = Machines
    /\ \A i \in Numerics : fileservers[i] # None => fileservers[i].node \in FsIds
    /\ \A n \in LegacyIds : store.nodes[n] = None
    /\ \A u \in Users : store.users[u] \notin LegacyIds
    /\ \A m \in Machines : pc[m] \notin Renaming

\* Memory and the store agree on u's home, or on whether node n exists.
HomeAgrees(u) == MemoryHome(u) = store.users[u]
NodeAgrees(n) == Absent(fileservers, n) <=> store.nodes[n] = None

DurableInv ==
    /\ Modern
    /\ \A u \in Users \ unsettled : HomeAgrees(u) \/ \E a \in Callers : u \in Owed(a, pc[a], req[a])
    /\ \A n \in NodeIds \ unsettled : NodeAgrees(n) \/ \E a \in Callers : n \in Owed(a, pc[a], req[a])
    /\ HomesAreRegistered
    /\ \A a \in Callers : HomeFacts(a, pc[a], req[a])

\* The points at which a request may owe the store a home or a node.
Owing == Registering \cup Dropping \cup {"place"}

\* Outside them there is no debt and nothing to know.
LEMMA NoDebt ==
    ASSUME NEW a, NEW label, label \notin Owing, NEW r
    PROVE  Owed(a, label, r) = {} /\ HomeFacts(a, label, r) /\ HomeFacts(a, label, r)'
BY DEF Owing, Owed, HomeFacts, Registering

\* The same nodes are present in a table that holds the same nodes, and the same
\* routes over it lead home.
LEMMA SameHomes ==
    ASSUME TypeInv, SameNodes(fileservers, fileservers'), users' = users,
           orphanedUsers' = orphanedUsers
    PROVE  /\ \A n : Absent(fileservers', n) <=> Absent(fileservers, n)
           /\ LoadInv => \A u \in Users : MemoryHome(u)' = MemoryHome(u)
<1>1. \A n : Absent(fileservers', n) <=> Absent(fileservers, n)
  BY DEF Absent, SameNodes
<1>2. ASSUME LoadInv, NEW u \in Users PROVE MemoryHome(u)' = MemoryHome(u)
  <2>1. users[u] # None => users[u] \in Numerics /\ fileservers[users[u]] # None
    BY <1>2 DEF TypeInv, TypeOK, LoadInv, Exact
  <2> QED BY <2>1 DEF MemoryHome, SameNodes
<1> QED BY <1>1, <1>2

\* A step that moves no node and no user, by a caller that owes nothing.
StaysPut ==
    /\ SameNodes(fileservers, fileservers') /\ users' = users /\ orphanedUsers' = orphanedUsers
    /\ store'.users = store.users /\ SameDocs(store, store')
    /\ upgraded \subseteq upgraded' /\ upgraded' \subseteq Machines
    /\ \A x \in Users \cup NodeIds : x \in unsettled' <=> x \in unsettled
    /\ \A a \in Callers : \/ pc'[a] = pc[a] /\ req'[a] = req[a]
                          \/ pc[a] \notin Owing /\ pc'[a] \notin Owing

\* Such a step keeps the account.
LEMMA DurableFrame == ASSUME TableInv, DurableInv, StaysPut PROVE DurableInv'
<1> USE DEF StaysPut
<1>1. TypeInv /\ LoadInv /\ store \in Stores /\ req \in [Callers -> Requests]
  BY DEF TableInv, RevocationInv, TypeInv, TypeOK
<1>2. /\ \A n : Absent(fileservers', n) <=> Absent(fileservers, n)
      /\ \A u \in Users : MemoryHome(u)' = MemoryHome(u)
      /\ \A n \in NodeIds : store'.nodes[n] = None <=> store.nodes[n] = None
  BY <1>1, SameHomes DEF SameDocs
<1>3. \A a \in Callers : Owed(a, pc'[a], req'[a]) = Owed(a, pc[a], req[a])
  BY NoDebt
<1>4. ASSUME NEW a \in Callers PROVE HomeFacts(a, pc[a], req[a])'
  <2>1. CASE pc'[a] \notin Owing
    BY <2>1, NoDebt
  <2>2. CASE pc'[a] \in Owing /\ pc'[a] = pc[a] /\ req'[a] = req[a]
    <3>1. HomeFacts(a, pc[a], req[a]) /\ req[a].users \subseteq Users /\ req[a].purged \subseteq Users
      BY <1>1 DEF DurableInv, Requests
    <3>2. a \in Clients => UserOf[a] \in Users
      BY MetaServerAssumption
    <3>3. a \in Machines /\ pc[a] \in RegisterWriting => req[a].node \in NodeIds
      BY <1>1 DEF TypeInv, RequestOK, Fits, Registering
    <3> QED BY <1>2, <2>2, <3>1, <3>2, <3>3 DEF HomeFacts
  <2> QED BY <2>1, <2>2
<1>5. Modern'
  <2>1. \A i \in Numerics : fileservers'[i] # None => fileservers'[i].node \in FsIds
    BY DEF DurableInv, Modern, SameNodes
  <2>2. \A n \in LegacyIds : store'.nodes[n] = None
    BY <1>2 DEF DurableInv, Modern, NodeIds
  <2>3. \A m \in Machines : pc'[m] \notin Renaming
    BY CallersDisjoint DEF DurableInv, Modern, Owing, Registering, RegisterWriting, Renaming
  <2> QED BY <2>1, <2>2, <2>3 DEF DurableInv, Modern
<1>6. HomesAreRegistered'
  <2>1. store.users \in [Users -> NodeIds \cup {None}]
    BY <1>1 DEF Stores
  <2> QED BY <1>2, <2>1 DEF DurableInv, HomesAreRegistered, Homeless
<1>7. /\ \A u \in Users : HomeAgrees(u)' <=> HomeAgrees(u)
      /\ \A n \in NodeIds : NodeAgrees(n)' <=> NodeAgrees(n)
  BY <1>2 DEF HomeAgrees, NodeAgrees
<1>8. \A u \in Users \ unsettled' :
        HomeAgrees(u)' \/ \E a \in Callers : u \in Owed(a, pc'[a], req'[a])
  BY <1>3, <1>7 DEF DurableInv
<1>9. \A n \in NodeIds \ unsettled' :
        NodeAgrees(n)' \/ \E a \in Callers : n \in Owed(a, pc'[a], req'[a])
  BY <1>3, <1>7 DEF DurableInv
<1> QED BY <1>4, <1>5, <1>6, <1>8, <1>9 DEF DurableInv

\* What the holder of the lock, or whoever takes it, finds.
LEMMA DurableFound ==
    ASSUME RevocationInv, DurableInv, NEW a \in Callers, writeOrderMu = a \/ writeOrderMu = Free
    PROVE  /\ HomeFacts(a, pc[a], req[a]) /\ Modern /\ HomesAreRegistered
           /\ \A u \in Users \ unsettled : HomeAgrees(u) \/ u \in Owed(a, pc[a], req[a])
           /\ \A n \in NodeIds \ unsettled : NodeAgrees(n) \/ n \in Owed(a, pc[a], req[a])
           /\ \A b \in Callers \ {a} : pc[b] \notin Owing
<1>1. \A b \in Callers \ {a} : pc[b] \notin Owing
  BY CallersAssumption DEF RevocationInv, HolderOK, Holding, Owing
<1>2. \A b \in Callers \ {a} : Owed(b, pc[b], req[b]) = {}
  BY <1>1, NoDebt
<1> QED BY <1>1, <1>2 DEF DurableInv

\* Steps of the caller that holds or takes the lock.
LEMMA DurableHolder ==
    ASSUME RevocationInv, DurableInv, NEW a \in Callers, writeOrderMu = a \/ writeOrderMu = Free,
           \A b \in Callers \ {a} : pc'[b] = pc[b] /\ req'[b] = req[b],
           upgraded' = upgraded, pc'[a] \notin Renaming,
           \A i \in Numerics : fileservers'[i] # None => fileservers'[i].node \in FsIds,
           \A n \in LegacyIds : store'.nodes[n] = None,
           \A u \in Users : store'.users[u] \notin LegacyIds,
           HomeFacts(a, pc[a], req[a])', HomesAreRegistered',
           \A u \in Users \ unsettled' : HomeAgrees(u)' \/ u \in Owed(a, pc'[a], req'[a]),
           \A n \in NodeIds \ unsettled' : NodeAgrees(n)' \/ n \in Owed(a, pc'[a], req'[a])
    PROVE  DurableInv'
<1>1. \A b \in Callers \ {a} : pc[b] \notin Owing
  BY DurableFound
<1>2. \A b \in Callers \ {a} : HomeFacts(b, pc[b], req[b])'
  BY <1>1, NoDebt
<1>3. Modern'
  BY <1>1, CallersDisjoint DEF DurableInv, Modern
<1> QED BY <1>2, <1>3 DEF DurableInv

\* Calls, heartbeats, the monitor, time, known users and shares move nobody.
LEMMA OutsideStays ==
    ASSUME TableInv,
           \/ \E m \in Machines : \/ SendRegister(m) \/ RejectRegister(m) \/ HeartbeatStep(m)
                                  \/ RestartFileServer(m)
           \/ \E c \in Clients : GetRootsKnown(c) \/ Navigate(c) \/ Connect(c)
           \/ \E s \in Sharers : ShareStep(s)
           \/ MonitorStep \/ (\E i \in Numerics : Expire(i)) \/ UNCHANGED vars
    PROVE  StaysPut
<1>1. /\ TypeInv /\ store \in Stores /\ fileservers \in [Numerics -> NodeInfos \cup {None}]
      /\ pc \in [Callers -> Labels] /\ req \in [Callers -> Requests] /\ upgraded \subseteq Machines
      /\ SameDocs(store, store) /\ SameNodes(fileservers, fileservers)
  BY DocsUntouched DEF TableInv, RevocationInv, TypeInv, TypeOK, SameNodes
<1> DEFINE Aside(label) == label \notin Owing
           Still == /\ SameNodes(fileservers, fileservers') /\ users' = users
                    /\ orphanedUsers' = orphanedUsers /\ store'.users = store.users
                    /\ SameDocs(store, store')
                    /\ upgraded \subseteq upgraded' /\ upgraded' \subseteq Machines
                    /\ \A x \in Users \cup NodeIds : x \in unsettled' <=> x \in unsettled
<1>2. \A label \in {"idle", "in", "routed", "beat", "register", "addShare", "removeShare"} :
        Aside(label)
  BY DEF Owing, Registering, RegisterWriting, Dropping
<1>3. ASSUME NEW a \in Callers, NEW label, Aside(label), Aside(pc[a]), Goto(a, label),
             (\E r : Local(a, r)) \/ req' = req, Still
      PROVE  StaysPut
  <2>1. pc'[a] = label /\ \A b \in Callers \ {a} : pc'[b] = pc[b] /\ req'[b] = req[b]
    BY <1>1, <1>3 DEF Goto, Local
  <2>2. \A b \in Callers : (pc'[b] = pc[b] /\ req'[b] = req[b]) \/ (pc[b] \notin Owing /\ pc'[b] \notin Owing)
    BY <1>3, <2>1
  <2> QED BY <1>3, <2>2 DEF Still, StaysPut
<1>4. ASSUME pc' = pc, req' = req, Still PROVE StaysPut
  BY <1>4 DEF Still, StaysPut
<1>5. ASSUME SameNodes(fileservers, fileservers'), users' = users, orphanedUsers' = orphanedUsers,
             store' = store, upgraded' = upgraded, unsettled' = unsettled
      PROVE  Still
  BY <1>1, <1>5
<1>6. \A n \in NodeIds, s \in Statuses :
        SameDocs(store, SetStatus(store, n, s)) /\ SetStatus(store, n, s).users = store.users
  <2>1. \A n \in NodeIds, s \in Statuses : SetStatus(store, n, s).users = store.users
    BY <1>1 DEF SetStatus, Stores
  <2> QED BY <1>1, <2>1, DocsUntouched
<1> HIDE DEF Aside, Still
<1>7. ASSUME NEW m \in Machines, SendRegister(m) \/ RejectRegister(m) PROVE StaysPut
  <2>1. PICK label \in {"register", "idle"} : Goto(m, label) /\ \E r : Local(m, r)
    BY <1>7 DEF SendRegister, RejectRegister
  <2>2. Still /\ pc[m] \in {"idle", "register"}
    BY <1>1, <1>5, <1>7 DEF SendRegister, RejectRegister, memory, machines, history
  <2> QED BY <1>2, <1>3, <2>1, <2>2, CallersDisjoint
<1>8. ASSUME NEW m \in Machines, HeartbeatStep(m) PROVE StaysPut
  <2>1. CASE Heartbeat(m)
    <3>1. PICK i \in Numerics :
            /\ fileservers[i] # None
            /\ fileservers' = [fileservers EXCEPT ![i].fresh = TRUE, ![i].status = "healthy"]
            /\ Local(m, [NoReq EXCEPT !.node = fileservers[i].node])
      BY <2>1 DEF Heartbeat, Accepted, ByNodeID
    <3>2. SameNodes(fileservers, fileservers')
      BY <1>1, <3>1, SameEntry
    <3>3. Still /\ pc[m] = "idle" /\ Goto(m, "beat")
      BY <1>5, <2>1, <3>2 DEF Heartbeat, machines, history
    <3> QED BY <1>2, <1>3, <3>1, <3>3, CallersDisjoint
  <2>2. CASE HeartbeatRejected(m)
    BY <1>1, <1>4, <1>5, <2>2 DEF HeartbeatRejected, memory, history
  <2>3. CASE PersistHeartbeat(m)
    <3>1. req[m].node \in NodeIds
      BY <1>1, <2>3, CallersDisjoint DEF PersistHeartbeat, TypeInv, RequestOK, Fits
    <3>2. SameDocs(store, store') /\ store'.users = store.users
      BY <1>1, <1>6, <2>3, <3>1 DEF PersistHeartbeat, Applied, Failed, RecordHeartbeat, Statuses
    <3>3. Still
      BY <1>1, <2>3, <3>2 DEF Still, PersistHeartbeat, memory, machines, history
    <3> QED BY <1>2, <1>3, <2>3, <3>3, CallersDisjoint DEF PersistHeartbeat
  <2> QED BY <1>8, <2>1, <2>2, <2>3 DEF HeartbeatStep
<1>9. ASSUME NEW m \in Machines, RestartFileServer(m) PROVE StaysPut
  <2>1. Still /\ pc' = pc /\ req' = req
    BY <1>1, <1>9 DEF Still, RestartFileServer, memory, history
  <2> QED BY <1>4, <2>1
<1>10. ASSUME NEW c \in Clients, GetRootsKnown(c) \/ Navigate(c) \/ Connect(c) PROVE StaysPut
  <2>1. PICK label \in {"in", "routed", "idle"} :
          Goto(c, label) /\ ((\E r : Local(c, r)) \/ req' = req)
    BY <1>10 DEF GetRootsKnown, Navigate, Connect
  <2>2. Still /\ pc[c] \in {"idle", "in", "routed"}
    BY <1>1, <1>5, <1>10 DEF GetRootsKnown, Navigate, Connect, memory, machines, history
  <2> QED BY <1>2, <1>3, <2>1, <2>2, CallersDisjoint
<1>11. ASSUME NEW s \in Sharers, ShareStep(s) PROVE StaysPut
  <2>1. CASE RootShare(s) \/ RootUnshare(s)
    <3>1. PICK label \in {"addShare", "removeShare"} : Goto(s, label) /\ \E r : Local(s, r)
      BY <2>1 DEF RootShare, RootUnshare
    <3>2. Still /\ pc[s] = "idle"
      BY <1>1, <1>5, <2>1 DEF RootShare, RootUnshare, machines, history
    <3> QED BY <1>2, <1>3, <3>1, <3>2, CallersDisjoint
  <2>2. CASE PersistShare(s) \/ PersistUnshare(s)
    <3> DEFINE g == CHOOSE x \in req[s].grants : TRUE
    <3>1. g \in Grants /\ pc[s] \in {"addShare", "removeShare"}
      BY <1>1, <2>2, OneGrant DEF PersistShare, PersistUnshare
    <3> HIDE DEF g
    <3>2. /\ SameDocs(store, AddShare(store, g)) /\ SameDocs(store, RemoveShare(store, g))
          /\ AddShare(store, g).users = store.users /\ RemoveShare(store, g).users = store.users
      <4>1. {g} \in SUBSET Grants
        BY <3>1
      <4>2. SameDocs(store, AddShares(store, {g})) /\ SameDocs(store, [store EXCEPT !.shares = @ \ {g}])
        BY <1>1, <4>1, DocsUntouched
      <4> QED BY <1>1, <4>2 DEF AddShare, AddShares, RemoveShare, Stores
    <3>3. store' \in {store, AddShare(store, g), RemoveShare(store, g)}
      BY <2>2 DEF PersistShare, PersistUnshare, Applied, Failed, g
    <3>4. unsettled' = unsettled \ {g} \/ unsettled' = unsettled \cup {g}
      BY <2>2 DEF PersistShare, PersistUnshare, g
    <3>5. g \notin Users \cup NodeIds
      BY <3>1, KindsAssumption
    <3>6. /\ fileservers' = fileservers /\ users' = users /\ orphanedUsers' = orphanedUsers
          /\ upgraded' = upgraded /\ Goto(s, "idle") /\ Local(s, NoReq)
      BY <2>2 DEF PersistShare, PersistUnshare, Return, memory, machines
    <3>7. Still
      BY <1>1, <3>2, <3>3, <3>4, <3>5, <3>6 DEF Still
    <3> QED BY <1>2, <1>3, <3>1, <3>6, <3>7, CallersDisjoint
  <2> QED BY <1>11, <2>1, <2>2 DEF ShareStep
<1>12. CASE MarkStale
  <2>1. \A i \in Numerics : \/ fileservers'[i] = fileservers[i]
                            \/ /\ fileservers[i] # None
                               /\ fileservers'[i] = [fileservers[i] EXCEPT !.status = "stale"]
    BY <1>12 DEF MarkStale
  <2>2. \A i \in Numerics : fileservers[i] # None => [fileservers[i] EXCEPT !.status = "stale"] # None
    BY <1>1, SameEntry, NodeInfosAssumption
  <2>3. \A i \in Numerics : fileservers[i] # None =>
          /\ [fileservers[i] EXCEPT !.status = "stale"].node = fileservers[i].node
          /\ [fileservers[i] EXCEPT !.status = "stale"].addr = fileservers[i].addr
    BY <1>1 DEF NodeInfos
  <2>4. SameNodes(fileservers, fileservers')
    BY <2>1, <2>2, <2>3 DEF SameNodes
  <2>5. Still /\ pc' = pc /\ req' = req
    BY <1>5, <1>12, <2>4 DEF MarkStale, machines, history
  <2> QED BY <1>4, <2>5
<1>13. ASSUME NEW n \in NodeIds, PersistStale(n) PROVE StaysPut
  <2>1. SameDocs(store, store') /\ store'.users = store.users
    BY <1>1, <1>6, <1>13 DEF PersistStale, Applied, Failed, SetFileServerStatus, Statuses
  <2>2. Still /\ pc' = pc /\ req' = req
    BY <1>1, <1>13, <2>1 DEF Still, PersistStale, memory, machines, history
  <2> QED BY <1>4, <2>2
<1>14. ASSUME NEW i \in Numerics, Expire(i) PROVE StaysPut
  <2>1. SameNodes(fileservers, fileservers')
    BY <1>1, <1>14, SameEntry DEF Expire
  <2>2. Still /\ pc' = pc /\ req' = req
    BY <1>5, <1>14, <2>1 DEF Expire, machines, history
  <2> QED BY <1>4, <2>2
<1>15. CASE UNCHANGED vars
  BY <1>1, <1>4, <1>5, <1>15 DEF vars, memory, machines, history
<1> QED BY <1>7, <1>8, <1>9, <1>10, <1>11, <1>12, <1>13, <1>14, <1>15 DEF MonitorStep

\* So the account is kept.
LEMMA DurableOutside ==
    ASSUME TableInv, DurableInv,
           \/ \E m \in Machines : \/ SendRegister(m) \/ RejectRegister(m) \/ HeartbeatStep(m)
                                  \/ RestartFileServer(m)
           \/ \E c \in Clients : GetRootsKnown(c) \/ Navigate(c) \/ Connect(c)
           \/ \E s \in Sharers : ShareStep(s)
           \/ MonitorStep \/ (\E i \in Numerics : Expire(i)) \/ UNCHANGED vars
    PROVE  DurableInv'
BY OutsideStays, DurableFrame

\* A registration that commits routes its users, and the orphans of its node, to
\* the node, routes the ones it purges nowhere and moves nobody else.
LEMMA CommitHomes ==
    ASSUME TableInv, TypeInv', NEW m \in Machines, NEW i \in Numerics, NEW label, Commit(m, i, label),
           req[m].node \in NodeIds, req[m].addr = m,
           fileservers[i] = None \/ fileservers[i].node = req[m].node
    PROVE  /\ \A n : Absent(fileservers', n) <=> Absent(fileservers, n) /\ n # req[m].node
           /\ \A u \in req[m].users : MemoryHome(u)' = req[m].node
           /\ \A u \in Purged(req[m], i) : MemoryHome(u)' = None
           /\ \A u \in Users \ (req[m].users \cup Purged(req[m], i)) : MemoryHome(u)' = MemoryHome(u)
<1> DEFINE r == req[m]
           purged == Purged(r, i)
<1>1. /\ TypeInv /\ r.users \subseteq Users /\ None \notin Numerics /\ None \notin NodeIds
      /\ fileservers \in [Numerics -> NodeInfos \cup {None}]
      /\ users \in [Users -> Numerics \cup {None}] /\ orphanedUsers \in [Users -> NodeIds \cup {None}]
  BY CallersDisjoint, MetaStoreAssumption DEF TableInv, RevocationInv, TypeInv, TypeOK, Requests
<1>2. PICK info \in NodeInfos : info.node = r.node /\ fileservers' = [fileservers EXCEPT ![i] = info]
  BY <1>1, CommitEntry
<1>3. info # None
  BY NodeInfosAssumption
<1>4. /\ users' = [u \in Users |-> IF u \in r.users \cup OrphansOf(r.node) THEN i
                                   ELSE IF u \in purged THEN None ELSE users[u]]
      /\ orphanedUsers' = [u \in Users |-> IF orphanedUsers[u] = r.node
                                           THEN None ELSE orphanedUsers[u]]
  BY DEF Commit
<1>5. \A u \in purged : u \in Users /\ users[u] = i /\ u \notin r.users
  BY DEF Purged, Missing, UsersOn
<1>6. \A u \in Users : orphanedUsers[u] # None => users[u] = None
  BY DEF TableInv, LoadInv, OrphansUnrouted
<1>7. \A u \in Users : users[u] # None => users[u] \in Numerics /\ fileservers[users[u]] # None
  BY <1>1 DEF TableInv, LoadInv, Exact
<1> HIDE DEF r, purged
<1>8. \A n : Absent(fileservers', n) <=> Absent(fileservers, n) /\ n # r.node
  BY <1>1, <1>2, <1>3 DEF Absent, r
<1>9. \A u \in r.users : MemoryHome(u)' = r.node
  BY <1>1, <1>2, <1>4 DEF MemoryHome
<1>10. \A u \in purged : MemoryHome(u)' = None
  BY <1>1, <1>4, <1>5, <1>6 DEF MemoryHome, OrphansOf, r
<1>11. ASSUME NEW u \in Users \ (r.users \cup purged) PROVE MemoryHome(u)' = MemoryHome(u)
  <2>1. CASE orphanedUsers[u] = r.node
    BY <1>1, <1>2, <1>4, <1>6, <2>1 DEF MemoryHome, OrphansOf, r
  <2>2. CASE orphanedUsers[u] # r.node
    <3>1. users'[u] = users[u] /\ orphanedUsers'[u] = orphanedUsers[u]
      BY <1>4, <2>2 DEF OrphansOf
    <3>2. users[u] # None => fileservers'[users[u]].node = fileservers[users[u]].node
      BY <1>1, <1>2, <1>7 DEF r
    <3> QED BY <3>1, <3>2 DEF MemoryHome
  <2> QED BY <2>1, <2>2
<1> QED BY <1>8, <1>9, <1>10, <1>11 DEF r, purged

\* A process in a registration goes by its fs_id.
LEMMA ModernNode ==
    ASSUME TableInv, DurableInv, NEW m \in Machines, pc[m] \in Registering \cup {"register"}
    PROVE  req[m].node \in FsIds /\ req[m].node \in NodeIds
<1>1. req[m].node = resolveNodeID(m)
  BY DEF TableInv, NumberInv, RegisterFacts
<1> QED BY <1>1, MetaServerAssumption DEF DurableInv, Modern, resolveNodeID, NodeIds

\* A registration commits: it owes the store its node and the homes it has moved.
LEMMA DurableCommit ==
    ASSUME TableInv, TypeInv', DurableInv, NEW m \in Machines, NEW i \in Numerics,
           Commit(m, i, "upsert"), pc[m] \in {"register", "commit"},
           writeOrderMu = m \/ writeOrderMu = Free,
           store' = store, unsettled' = unsettled, upgraded' = upgraded,
           fileservers[i] = None \/ fileservers[i].node = req[m].node
    PROVE  DurableInv'
<1> DEFINE r == req[m]
           purged == Purged(r, i)
           q == [r EXCEPT !.num = i, !.purged = purged]
<1>1. /\ RevocationInv /\ TypeInv /\ m \in Callers /\ r \in Requests /\ r.users \subseteq Users
      /\ pc[m] \in Registering \cup {"register"} /\ r.node \in FsIds /\ r.node \in NodeIds
      /\ r.addr = m /\ fileservers \in [Numerics -> NodeInfos \cup {None}]
  BY ModernNode, CallersDisjoint
  DEF TableInv, RevocationInv, TypeInv, TypeOK, RequestOK, Fits, Requests, Registering
<1>2. /\ Local(m, q) /\ Goto(m, "upsert")
  BY DEF Commit
<1>3. q.users = r.users /\ q.node = r.node /\ q.purged = purged
  BY <1>1 DEF Requests
<1>4. /\ \A n : Absent(fileservers', n) <=> Absent(fileservers, n) /\ n # r.node
      /\ \A u \in r.users : MemoryHome(u)' = r.node
      /\ \A u \in purged : MemoryHome(u)' = None
      /\ \A u \in Users \ (r.users \cup purged) : MemoryHome(u)' = MemoryHome(u)
  BY <1>1, CommitHomes
<1>5. PICK info \in NodeInfos : info.node = r.node /\ fileservers' = [fileservers EXCEPT ![i] = info]
  BY <1>1, CommitEntry
<1> HIDE DEF purged, q, r
<1>6. /\ pc'[m] = "upsert" /\ req'[m] = q
      /\ \A b \in Callers \ {m} : pc'[b] = pc[b] /\ req'[b] = req[b]
  BY <1>1, <1>2, OthersStay
<1>7. "upsert" \in RegisterWriting /\ "upsert" \notin Dropping /\ "upsert" \notin Renaming
      /\ m \notin Clients
  BY CallersDisjoint DEF RegisterWriting, Dropping, Renaming
<1>8. Owed(m, pc'[m], req'[m]) = r.users \cup purged \cup {r.node}
  BY <1>3, <1>6, <1>7 DEF Owed
<1>9. /\ Owed(m, pc[m], req[m]) \subseteq {r.node} /\ Modern /\ HomesAreRegistered
      /\ \A u \in Users \ unsettled : HomeAgrees(u) \/ u \in Owed(m, pc[m], req[m])
      /\ \A n \in NodeIds \ unsettled : NodeAgrees(n) \/ n \in Owed(m, pc[m], req[m])
  <2>1. Owed(m, pc[m], req[m]) \subseteq {r.node}
    BY DEF Owed, RegisterWriting, Dropping, r
  <2> QED BY <1>1, <2>1, DurableFound
<1>10. HomeFacts(m, pc[m], req[m])'
  BY <1>3, <1>4, <1>6, <1>7 DEF HomeFacts
<1>11. \A j \in Numerics : fileservers'[j] # None => fileservers'[j].node \in FsIds
  BY <1>1, <1>5, <1>9 DEF Modern
<1>12. \A u \in Users \ unsettled' : HomeAgrees(u)' \/ u \in Owed(m, pc'[m], req'[m])
  BY <1>4, <1>8, <1>9 DEF HomeAgrees
<1>13. \A n \in NodeIds \ unsettled' : NodeAgrees(n)' \/ n \in Owed(m, pc'[m], req'[m])
  BY <1>4, <1>8, <1>9 DEF NodeAgrees
<1>14. HomesAreRegistered'
  BY <1>9 DEF HomesAreRegistered, Homeless
<1> QED BY <1>1, <1>6, <1>7, <1>9, <1>10, <1>11, <1>12, <1>13, <1>14, DurableHolder DEF Modern

\* What a step of a registration may do to the stored homes and documents: it
\* touches the homes of its own users and homes nobody on a node without document.
WritesOwn(r, x) ==
    /\ \A n \in NodeIds \ {r.node} : x.nodes[n] = None <=> store.nodes[n] = None
    /\ store.nodes[r.node] # None => x.nodes[r.node] # None
    /\ \A u \in Users \ (r.users \cup r.purged) : x.users[u] = store.users[u]
    /\ \A u \in Users : \/ x.users[u] = store.users[u] \/ x.users[u] = None
                        \/ x.users[u] = r.node /\ store.nodes[r.node] # None

\* Such a write leaves a home on a missing node only where there was one.
LEMMA OwnHomes ==
    ASSUME NEW r, r.node \in NodeIds, store \in Stores, WritesOwn(r, store'), NEW u \in Homeless'
    PROVE  u \in Homeless /\ store'.users[u] = store.users[u]
<1>1. u \in Users /\ store'.users[u] # None /\ store'.nodes[store'.users[u]] = None
  BY DEF Homeless
<1>2. store.users[u] \in NodeIds \cup {None}
  BY <1>1 DEF Stores
<1>3. store'.users[u] # r.node \/ store.nodes[r.node] = None
  BY <1>1 DEF WritesOwn
<1>4. store'.users[u] = store.users[u]
  BY <1>1, <1>3 DEF WritesOwn
<1> QED BY <1>1, <1>2, <1>4 DEF WritesOwn, Homeless

\* A deferred write of a registration: it settles a part of the debt, and the last
\* one the rest.
LEMMA DurableWrite ==
    ASSUME TableInv, DurableInv, NEW m \in Machines, NEW here \in UserWriting \cup {"upsert"},
           NEW st, NEW outcomes, NEW label \in UserWriting \cup {"done"},
           RegisterWrite(m, here, st, outcomes, label),
           \A x \in {st} \cup outcomes : WritesOwn(req[m], x), st.nodes[req[m].node] # None,
           label \notin {"purgeUsers"} => \A u \in req[m].purged : st.users[u] = None,
           label \in {"clear", "grant", "done"} => \A u \in req[m].users : st.users[u] = req[m].node
    PROVE  DurableInv'
<1> DEFINE r == req[m]
           old == LegacyNodeID(m)
<1>1. /\ RevocationInv /\ here \in RegisterWriting /\ here \notin Renaming
      /\ label \in RegisterWriting \cup {"done"} /\ label \notin Renaming
      /\ RegisterWriting \subseteq Registering /\ RegisterWriting \cap Dropping = {}
      /\ label # "upsert" /\ "idle" \notin Owing /\ "idle" \notin Renaming
  BY DEF TableInv, UserWriting, RegisterWriting, Renaming, Registering, Dropping, Owing
<1>2. /\ TypeInv /\ m \in Callers /\ writeOrderMu = m /\ pc[m] = here
      /\ r.node \in NodeIds /\ r.addr = m /\ r.users \subseteq Users /\ r.purged \subseteq Users
      /\ store \in Stores /\ store' \in {st} \cup outcomes
      /\ fileservers' = fileservers /\ users' = users /\ orphanedUsers' = orphanedUsers
      /\ upgraded' = upgraded
      /\ \/ pc'[m] = "idle" /\ unsettled' = unsettled \cup RegisterScope(r)
         \/ /\ pc'[m] = "idle" /\ label = "done" /\ store' = st
            /\ unsettled' = unsettled \ RegisterScope(r)
         \/ /\ pc'[m] = label /\ label # "done" /\ req'[m] = r /\ store' = st
            /\ unsettled' = unsettled
      /\ \A b \in Callers \ {m} : pc'[b] = pc[b] /\ req'[b] = req[b]
  BY <1>1, WriteMoves DEF memory
<1>3. r.node \in FsIds /\ m \notin Clients /\ old \in LegacyIds /\ old \in NodeIds
  BY <1>1, <1>2, ModernNode, CallersDisjoint DEF LegacyIds, NodeIds
<1>4. /\ HomeFacts(m, pc[m], r) /\ Modern /\ HomesAreRegistered
      /\ \A u \in Users \ unsettled : HomeAgrees(u) \/ u \in Owed(m, pc[m], r)
      /\ \A n \in NodeIds \ unsettled : NodeAgrees(n) \/ n \in Owed(m, pc[m], r)
  BY <1>1, <1>2, DurableFound
<1>5. Owed(m, pc[m], r) \subseteq r.users \cup r.purged \cup {r.node}
  BY <1>1, <1>2 DEF Owed
<1>6. /\ ~Absent(fileservers, r.node)
      /\ \A u \in r.users : MemoryHome(u) = r.node
      /\ \A u \in r.purged : MemoryHome(u) = None
  BY <1>1, <1>2, <1>4 DEF HomeFacts
<1>7. /\ \A x \in Users : x \in RegisterScope(r) <=> x \in r.users \cup r.purged
      /\ \A x \in NodeIds : x \in RegisterScope(r) <=> x \in {r.node, old}
  <2>1. OwnedBy(r.users) \subseteq Grants /\ Involving(r.purged) \subseteq Grants
    BY DEF OwnedBy, Involving
  <2> QED BY <1>2, <1>3, <2>1, KindsAssumption DEF RegisterScope
<1>8. WritesOwn(r, store')
  BY <1>2
<1>9. \A u \in Users : MemoryHome(u)' = MemoryHome(u)
  BY <1>2 DEF MemoryHome
<1>10. /\ \A n \in LegacyIds : store'.nodes[n] = None
       /\ \A u \in Users : store'.users[u] \notin LegacyIds
  <2>1. FsIds \cap LegacyIds = {} /\ LegacyIds \subseteq NodeIds /\ None \notin LegacyIds
    BY MetaStoreAssumption DEF NodeIds
  <2> QED BY <1>3, <1>4, <1>8, <2>1 DEF WritesOwn, Modern
<1>11. \A u \in Homeless' : /\ u \in Homeless /\ store'.users[u] = store.users[u]
                            /\ store'.users[u] # r.node \/ store' # st
                            /\ store'.users[u] # None /\ store'.users[u] # old
  <2>1. \A u \in Homeless' : u \in Homeless /\ store'.users[u] = store.users[u]
    BY <1>2, <1>8, OwnHomes
  <2>2. \A u \in Homeless' : u \in Users /\ store'.users[u] # None /\ store'.nodes[store'.users[u]] = None
    BY DEF Homeless
  <2> QED BY <1>3, <1>10, <2>1, <2>2
<1>12. /\ \A u \in Users \ (r.users \cup r.purged) : HomeAgrees(u)' <=> HomeAgrees(u)
       /\ \A n \in NodeIds \ {r.node} : NodeAgrees(n)' <=> NodeAgrees(n)
       /\ store' = st => \A n \in {r.node} : NodeAgrees(n)'
       /\ NodeAgrees(old)'
  <2>1. \A u \in Users \ (r.users \cup r.purged) : HomeAgrees(u)' <=> HomeAgrees(u)
    BY <1>8, <1>9 DEF HomeAgrees, WritesOwn
  <2>2. \A n \in NodeIds \ {r.node} : NodeAgrees(n)' <=> NodeAgrees(n)
    BY <1>2, <1>8 DEF NodeAgrees, WritesOwn
  <2>3. store' = st => \A n \in {r.node} : NodeAgrees(n)'
    BY <1>2, <1>6 DEF NodeAgrees
  <2>4. Absent(fileservers, old)
    BY <1>3, <1>4, MetaStoreAssumption DEF Modern, Absent
  <2>5. NodeAgrees(old)'
    BY <1>2, <1>3, <1>10, <2>4 DEF NodeAgrees
  <2> QED BY <2>1, <2>2, <2>3, <2>5
<1>13. \A i \in Numerics : fileservers'[i] # None => fileservers'[i].node \in FsIds
  BY <1>2, <1>4 DEF Modern
<1> HIDE DEF r, old
<1>14. ASSUME pc'[m] \notin Renaming, HomeFacts(m, pc[m], req[m])', HomesAreRegistered',
              \A u \in Users \ unsettled' : HomeAgrees(u)' \/ u \in Owed(m, pc'[m], req'[m]),
              \A n \in NodeIds \ unsettled' : NodeAgrees(n)' \/ n \in Owed(m, pc'[m], req'[m])
       PROVE  DurableInv'
  BY <1>1, <1>2, <1>10, <1>13, <1>14, DurableHolder
<1>15. CASE pc'[m] = "idle" /\ unsettled' = unsettled \cup RegisterScope(r)
  <2>1. HomeFacts(m, pc[m], req[m])' /\ pc'[m] \notin Renaming
    BY <1>1, <1>15, NoDebt
  <2>2. HomesAreRegistered'
    BY <1>4, <1>11, <1>15 DEF HomesAreRegistered
  <2>3. \A u \in Users \ unsettled' : HomeAgrees(u)'
    BY <1>2, <1>3, <1>4, <1>5, <1>7, <1>12, <1>15
  <2>4. \A n \in NodeIds \ unsettled' : NodeAgrees(n)'
    BY <1>2, <1>3, <1>4, <1>5, <1>7, <1>12, <1>15, KindsAssumption
  <2> QED BY <1>14, <2>1, <2>2, <2>3, <2>4
<1>16. CASE pc'[m] = "idle" /\ label = "done" /\ store' = st /\ unsettled' = unsettled \ RegisterScope(r)
  <2>1. HomeFacts(m, pc[m], req[m])' /\ pc'[m] \notin Renaming
    BY <1>1, <1>16, NoDebt
  <2>2. (\A u \in r.users : store'.users[u] = r.node) /\ \A u \in r.purged : store'.users[u] = None
    BY <1>16 DEF r
  <2>3. HomesAreRegistered'
    <3>1. ASSUME NEW u \in Homeless' PROVE u \in unsettled' \/ store'.users[u] \in unsettled'
      <4>1. u \in Users /\ store.users[u] \in NodeIds \cup {None}
        BY <1>2 DEF Homeless, Stores
      <4>2. u \notin RegisterScope(r) /\ store'.users[u] \notin RegisterScope(r)
        BY <1>7, <1>11, <1>16, <2>2, <4>1
      <4> QED BY <1>4, <1>11, <1>16, <4>2 DEF HomesAreRegistered
    <3> QED BY <3>1 DEF HomesAreRegistered
  <2>4. \A u \in Users \ unsettled' : HomeAgrees(u)'
    <3>1. \A u \in r.users \cup r.purged : HomeAgrees(u)'
      BY <1>2, <1>6, <1>9, <2>2 DEF HomeAgrees
    <3> QED BY <1>2, <1>3, <1>4, <1>5, <1>7, <1>12, <1>16, <3>1, KindsAssumption
  <2>5. \A n \in NodeIds \ unsettled' : NodeAgrees(n)'
    BY <1>2, <1>3, <1>4, <1>5, <1>7, <1>12, <1>16, KindsAssumption
  <2> QED BY <1>14, <2>1, <2>3, <2>4, <2>5
<1>17. CASE pc'[m] = label /\ label # "done" /\ req'[m] = r /\ store' = st /\ unsettled' = unsettled
  <2>1. Owed(m, pc'[m], req'[m]) = r.users \cup r.purged
    BY <1>1, <1>17 DEF Owed
  <2>2. HomeFacts(m, pc[m], req[m])'
    <3>1. /\ \A u \in r.users : MemoryHome(u)' = r.node
          /\ \A u \in r.purged : MemoryHome(u)' = None
          /\ ~Absent(fileservers', r.node) /\ store'.nodes[r.node] # None
      BY <1>2, <1>6, <1>9, <1>17 DEF r
    <3>2. /\ label # "purgeUsers" => \A u \in r.purged : store'.users[u] = None
          /\ label \in {"clear", "grant"} => \A u \in r.users : store'.users[u] = r.node
      BY <1>17 DEF r
    <3> QED BY <1>1, <1>3, <1>17, <3>1, <3>2 DEF HomeFacts
  <2>3. HomesAreRegistered'
    BY <1>4, <1>11, <1>17 DEF HomesAreRegistered
  <2>4. \A u \in Users \ unsettled' : HomeAgrees(u)' \/ u \in Owed(m, pc'[m], req'[m])
    BY <1>2, <1>4, <1>5, <1>12, <1>17, <2>1, KindsAssumption
  <2>5. \A n \in NodeIds \ unsettled' : NodeAgrees(n)' \/ n \in Owed(m, pc'[m], req'[m])
    BY <1>2, <1>4, <1>5, <1>12, <1>17, KindsAssumption
  <2> QED BY <1>1, <1>14, <1>17, <2>2, <2>3, <2>4, <2>5
<1> QED BY <1>2, <1>15, <1>16, <1>17

\* Writes that concern users, shares or the node's own document write their own.
LEMMA OwnWrites ==
    ASSUME store \in Stores, NEW r, r.node \in NodeIds, r.users \subseteq Users, r.purged \subseteq Users
    PROVE  /\ \A x \in {RemoveUsers(store, r.purged)} \cup RemoveUsersPartial(store, r.purged) :
                 WritesOwn(r, x)
           /\ \A S \in SUBSET Grants : \A x \in {[store EXCEPT !.shares = @ \ S]}
                   \cup DropSharesPartial(store, S) \cup {AddShares(store, S)} \cup AddSharesPartial(store, S) :
                 WritesOwn(r, x) /\ x.users = store.users /\ x.nodes = store.nodes
           /\ store.nodes[r.node] # None =>
                 \A x \in {AssignUsers(store, r.node, r.users)} \cup AssignUsersPartial(store, r.node, r.users) :
                    WritesOwn(r, x)
           /\ \A addr \in Machines : \A x \in UpsertFileServerPartial(store, r.node, addr)
                   \cup {UpsertFileServer(store, r.node, addr)} :
                 /\ x.users = store.users
                 /\ \A n \in NodeIds \ {r.node} : x.nodes[n] = store.nodes[n]
<1>1. /\ store.nodes \in [NodeIds -> NodeDocs \cup {None}]
      /\ store.users \in [Users -> NodeIds \cup {None}]
  BY DEF Stores
<1>2. ASSUME NEW V \in SUBSET r.purged PROVE WritesOwn(r, RemoveUsers(store, V))
  <2>1. /\ RemoveUsers(store, V).nodes = store.nodes
        /\ RemoveUsers(store, V).users = [u \in Users |-> IF u \in V THEN None ELSE store.users[u]]
    BY DEF RemoveUsers, Stores
  <2> QED BY <1>1, <2>1 DEF WritesOwn
<1>3. \A x \in {RemoveUsers(store, r.purged)} \cup RemoveUsersPartial(store, r.purged) :
        WritesOwn(r, x)
  BY <1>2 DEF RemoveUsersPartial
<1>4. ASSUME NEW T \in SUBSET Grants, NEW x,
             x = [store EXCEPT !.shares = @ \ T] \/ x = [store EXCEPT !.shares = @ \cup T]
      PROVE  WritesOwn(r, x) /\ x.users = store.users /\ x.nodes = store.nodes
  BY <1>4 DEF Stores, WritesOwn
<1>5. \A S \in SUBSET Grants : \A x \in {[store EXCEPT !.shares = @ \ S]}
          \cup DropSharesPartial(store, S) \cup {AddShares(store, S)} \cup AddSharesPartial(store, S) :
        WritesOwn(r, x) /\ x.users = store.users /\ x.nodes = store.nodes
  <2> SUFFICES ASSUME NEW S \in SUBSET Grants,
                      NEW x \in {[store EXCEPT !.shares = @ \ S]} \cup DropSharesPartial(store, S)
                                 \cup {AddShares(store, S)} \cup AddSharesPartial(store, S)
               PROVE  WritesOwn(r, x) /\ x.users = store.users /\ x.nodes = store.nodes
    OBVIOUS
  <2>1. \E T \in SUBSET Grants : x = [store EXCEPT !.shares = @ \ T] \/ x = [store EXCEPT !.shares = @ \cup T]
    BY DEF DropSharesPartial, AddShares, AddSharesPartial
  <2> QED BY <1>4, <2>1
<1>6. ASSUME store.nodes[r.node] # None, NEW V \in SUBSET r.users
      PROVE  WritesOwn(r, AssignUsers(store, r.node, V))
  <2>1. /\ AssignUsers(store, r.node, V).nodes = store.nodes
        /\ AssignUsers(store, r.node, V).users = [u \in Users |-> IF u \in V THEN r.node ELSE store.users[u]]
    BY DEF AssignUsers, Stores
  <2> QED BY <1>1, <1>6, <2>1 DEF WritesOwn
<1>7. store.nodes[r.node] # None =>
        \A x \in {AssignUsers(store, r.node, r.users)} \cup AssignUsersPartial(store, r.node, r.users) :
           WritesOwn(r, x)
  BY <1>6 DEF AssignUsersPartial
<1>8. \A addr \in Machines : \A x \in UpsertFileServerPartial(store, r.node, addr)
          \cup {UpsertFileServer(store, r.node, addr)} :
        /\ x.users = store.users
        /\ \A n \in NodeIds \ {r.node} : x.nodes[n] = store.nodes[n]
  BY <1>1 DEF UpsertFileServerPartial, UpsertFileServer, Stores
<1> QED BY <1>3, <1>5, <1>7, <1>8

\* A registration, from its call to its last write.
LEMMA DurableRegister ==
    ASSUME TableInv, TypeInv', DurableInv, NEW m \in Machines, RegisterStep(m)
    PROVE  DurableInv'
<1> DEFINE r == req[m]
           Goal == DurableInv'
<1>1. /\ RevocationInv /\ TypeInv /\ m \in Callers /\ m \notin Clients /\ r \in Requests
      /\ store \in Stores /\ pc \in [Callers -> Labels] /\ req \in [Callers -> Requests]
      /\ r.users \subseteq Users /\ r.purged \subseteq Users /\ r.grants \subseteq Grants
      /\ OwnedBy(r.users) \subseteq Grants /\ Involving(r.purged) \subseteq Grants
  BY CallersDisjoint DEF TableInv, RevocationInv, TypeInv, TypeOK, Requests, OwnedBy, Involving
<1>2. pc[m] \in Registering \cup {"register"} => r.node \in FsIds /\ r.node \in NodeIds
  BY ModernNode
<1>3. pc[m] \in Registering => writeOrderMu = m
  BY <1>1 DEF RevocationInv, HolderOK, Holding
<1>4. /\ Modern /\ HomeFacts(m, pc[m], r)
      /\ \A n \in NodeIds : n \in LegacyIds => n \notin FsIds
  BY <1>1, MetaStoreAssumption DEF DurableInv
<1> SUFFICES Goal
  OBVIOUS
<1>5. ASSUME NEW here \in UserWriting \cup {"upsert"}, NEW st, NEW outcomes,
             NEW label \in UserWriting \cup {"done"}, RegisterWrite(m, here, st, outcomes, label),
             \A x \in {st} \cup outcomes : WritesOwn(r, x), st.nodes[r.node] # None,
             label # "purgeUsers" => \A u \in r.purged : st.users[u] = None,
             label \in {"clear", "grant", "done"} => \A u \in r.users : st.users[u] = r.node
      PROVE  Goal
  BY <1>5, DurableWrite
<1>6. ASSUME writeOrderMu = m \/ writeOrderMu = Free, UNCHANGED memory, upgraded' = upgraded,
             pc[m] \in {"register", "alloc"}, store'.users = store.users,
             \A n \in NodeIds \ {r.node} : store'.nodes[n] = store.nodes[n],
             store.nodes[r.node] # None => store'.nodes[r.node] # None,
             \A b \in Callers \ {m} : pc'[b] = pc[b] /\ req'[b] = req[b],
             \/ pc'[m] \in {"alloc", "commit"} /\ req'[m].node = r.node /\ unsettled' = unsettled
             \/ pc'[m] = "idle" /\ unsettled' = unsettled \cup RegisterScope(r)
      PROVE  Goal
  <2>1. /\ Owed(m, pc[m], r) \subseteq {r.node} /\ r.node \in FsIds /\ r.node \in NodeIds
        /\ pc'[m] \notin RegisterWriting /\ pc'[m] \notin Dropping /\ pc'[m] \notin Renaming
        /\ pc'[m] # "idle" => Owed(m, pc'[m], req'[m]) = {r.node}
        /\ r.node \in RegisterScope(r)
    BY <1>2, <1>6 DEF Owed, RegisterWriting, Dropping, Renaming, Registering, RegisterScope
  <2>2. /\ HomesAreRegistered
        /\ \A u \in Users \ unsettled : HomeAgrees(u) \/ u \in Owed(m, pc[m], r)
        /\ \A n \in NodeIds \ unsettled : NodeAgrees(n) \/ n \in Owed(m, pc[m], r)
    BY <1>1, <1>6, DurableFound
  <2> HIDE DEF r
  <2>3. HomeFacts(m, pc[m], req[m])'
    BY <1>1, <2>1 DEF HomeFacts
  <2>4. /\ \A n \in LegacyIds : store'.nodes[n] = None
        /\ \A u \in Users : store'.users[u] \notin LegacyIds
        /\ \A i \in Numerics : fileservers'[i] # None => fileservers'[i].node \in FsIds
    BY <1>4, <1>6, <2>1 DEF Modern, memory, NodeIds
  <2>5. HomesAreRegistered'
    <3>1. \A u \in Users : store.users[u] \in NodeIds \cup {None}
      BY <1>1 DEF Stores
    <3>2. Homeless' \subseteq Homeless
      BY <1>6, <3>1 DEF Homeless
    <3> QED BY <1>6, <2>2, <3>2 DEF HomesAreRegistered
  <2>6. /\ \A u \in Users : HomeAgrees(u)' <=> HomeAgrees(u)
        /\ \A n \in NodeIds \ {r.node} : NodeAgrees(n)' <=> NodeAgrees(n)
    BY <1>6 DEF HomeAgrees, NodeAgrees, MemoryHome, memory
  <2>7. \A u \in Users \ unsettled' : HomeAgrees(u)'
    BY <1>6, <2>1, <2>2, <2>6, KindsAssumption
  <2>8. \A n \in NodeIds \ unsettled' : NodeAgrees(n)' \/ n \in Owed(m, pc'[m], req'[m])
    BY <1>6, <2>1, <2>2, <2>6
  <2> QED BY <1>1, <1>6, <2>1, <2>3, <2>4, <2>5, <2>7, <2>8, DurableHolder
<1>7. /\ UserWriting \cup {"upsert"} \subseteq RegisterWriting
      /\ RegisterWriting \subseteq Registering /\ "alloc" \in Registering /\ "commit" \in Registering
      /\ "purgeUsers" \in UserWriting /\ "purgeShares" \in UserWriting /\ "assign" \in UserWriting
      /\ "clear" \in UserWriting /\ "grant" \in UserWriting
      /\ AfterUpsert(r) \in UserWriting \cup {"done"} /\ AfterPurge(r) \in UserWriting \cup {"done"}
      /\ AfterClear(r) \in UserWriting \cup {"done"}
  BY DEF RegisterWriting, Registering, UserWriting, AfterUpsert, AfterPurge, AfterClear
<1>8. /\ AfterPurge(r) \notin {"purgeUsers", "clear", "grant"} /\ AfterClear(r) \in {"grant", "done"}
      /\ AfterUpsert(r) \notin {"clear", "grant"}
      /\ AfterPurge(r) = "done" => r.users = {}
      /\ AfterUpsert(r) = "done" => r.users = {}
      /\ AfterUpsert(r) # "purgeUsers" => r.purged = {}
  BY DEF AfterUpsert, AfterPurge, AfterClear
<1>9. ASSUME pc[m] \in RegisterWriting
      PROVE  /\ pc[m] # "upsert" => store.nodes[r.node] # None
             /\ pc[m] \in {"purgeShares", "assign", "clear", "grant"} =>
                   \A u \in r.purged : store.users[u] = None
             /\ pc[m] \in {"clear", "grant"} => \A u \in r.users : store.users[u] = r.node
  BY <1>4, <1>9 DEF HomeFacts
<1> HIDE DEF Goal
<1>10. CASE RegisterKnown(m)
  <2>1. PICK t \in Targets(r) :
          /\ t.num # None
          /\ Commit(m, t.num, IF t.adopt THEN "rename" ELSE "upsert")
          /\ unsettled' = IF t.adopt THEN unsettled \cup {r.node, LegacyNodeID(m)} ELSE unsettled
    BY <1>10 DEF RegisterKnown
  <2>2. t.num \in Numerics
    BY <2>1, TargetTypes
  <2>3. ~t.adopt /\ fileservers[t.num].node = r.node
    <3>1. fileservers[t.num] # None => fileservers[t.num].node \notin LegacyIds
      BY <1>4, <2>2, MetaStoreAssumption DEF Modern
    <3> QED BY <2>1, <3>1, NewTarget
  <2>4. pc[m] = "register" /\ writeOrderMu = Free /\ store' = store /\ upgraded' = upgraded
    BY <1>10 DEF RegisterKnown, Lock, machines
  <2> QED BY <2>1, <2>2, <2>3, <2>4, DurableCommit DEF Goal
<1>11. CASE RegisterNew(m)
  <2>1. /\ pc[m] = "register" /\ Goto(m, "alloc") /\ req' = req /\ writeOrderMu = Free
        /\ UNCHANGED memory /\ store' = store /\ unsettled' = unsettled /\ upgraded' = upgraded
    BY <1>11 DEF RegisterNew, Lock, machines, history
  <2>2. pc'[m] = "alloc" /\ \A b \in Callers \ {m} : pc'[b] = pc[b] /\ req'[b] = req[b]
    BY <1>1, <2>1 DEF Goto
  <2> QED BY <1>6, <2>1, <2>2
<1>12. CASE RejectRegister(m)
  BY <1>12, DurableOutside DEF Goal
<1>13. CASE AllocateNode(m)
  <2> DEFINE q == [r EXCEPT !.num = store'.nodes[r.node].num]
             st == UpsertFileServer(store, r.node, m)
             outcomes == UpsertFileServerPartial(store, r.node, m)
  <2>1. /\ pc[m] = "alloc" /\ UNCHANGED memory /\ upgraded' = upgraded
        /\ Allocates(store, r.node) => store.next < MaxNum
        /\ store' \in {st} \cup outcomes
        /\ \/ Goto(m, "commit") /\ Local(m, q) /\ unsettled' = unsettled
           \/ Goto(m, "idle") /\ Local(m, NoReq) /\ unsettled' = unsettled \cup RegisterScope(r)
    BY <1>13 DEF AllocateNode, AbortRegister, Return, Applied, Failed
  <2>2. q.node = r.node
    BY <1>1 DEF Requests
  <2>3. writeOrderMu = m /\ r.node \in NodeIds /\ r.node \in FsIds
    BY <1>2, <1>3, <1>7, <2>1
  <2>4. /\ store'.users = store.users
        /\ \A n \in NodeIds \ {r.node} : store'.nodes[n] = store.nodes[n]
    BY <1>1, <2>1, <2>3, OwnWrites
  <2>5. store.nodes[r.node] # None => store'.nodes[r.node] # None
    <3>1. store.nodes[r.node] # None => outcomes = {store, st}
      BY DEF UpsertFileServerPartial, Allocates
    <3>2. store.nodes[r.node] # None => st.nodes[r.node] # None
      BY <1>1, <2>3, MetaStoreAssumption DEF UpsertFileServer, Allocates, Stores, NodeDocs, Statuses
    <3> QED BY <2>1, <3>1, <3>2
  <2> HIDE DEF q, st, outcomes
  <2>6. /\ (pc'[m] = "commit" /\ req'[m] = q /\ unsettled' = unsettled)
           \/ (pc'[m] = "idle" /\ unsettled' = unsettled \cup RegisterScope(r))
        /\ \A b \in Callers \ {m} : pc'[b] = pc[b] /\ req'[b] = req[b]
    BY <1>1, <2>1 DEF Goto, Local
  <2> QED BY <1>6, <2>1, <2>2, <2>3, <2>4, <2>5, <2>6
<1>14. CASE CommitNew(m)
  <2>1. /\ pc[m] = "commit" /\ Commit(m, r.num, "upsert") /\ store' = store /\ unsettled' = unsettled
        /\ upgraded' = upgraded /\ fileservers[r.num] = None
    BY <1>14 DEF CommitNew, RecheckPasses, machines
  <2>2. r.num \in Numerics
    BY <1>1, <2>1 DEF TypeInv, RequestOK, Fits
  <2> QED BY <1>3, <1>7, <2>1, <2>2, DurableCommit DEF Goal
<1>15. CASE RenameUsers(m) \/ RenameRemove(m) \/ RenameInsert(m)
  <2>1. pc[m] \in Renaming
    BY <1>15 DEF RenameUsers, RenameRemove, RenameInsert, RegisterWrite, Renaming
  <2> QED BY <1>4, <2>1 DEF Modern
<1>16. CASE PersistNode(m)
  <2> DEFINE st == UpsertFileServer(store, r.node, m)
             outcomes == UpsertFileServerPartial(store, r.node, m)
  <2>1. /\ RegisterWrite(m, "upsert", st, outcomes, AfterUpsert(r)) /\ pc[m] = "upsert"
        /\ Allocates(store, r.node) => store.next < MaxNum
    BY <1>16 DEF PersistNode
  <2>2. r.node \in NodeIds /\ r.node \in FsIds
    BY <1>2, <1>7, <2>1
  <2>3. /\ st \in outcomes /\ st.nodes[r.node] # None
    <3>1. /\ StoreNumbered(store) /\ Numbered(fileservers, store)
          /\ SlotsAgree(fileservers, store, upgraded)
      BY <1>1, TableNumbered DEF TableInv, NumberInv
    <3>2. r.node \notin LegacyIds /\ store \in outcomes
      BY <2>2, MetaStoreAssumption DEF UpsertFileServerPartial
    <3> QED BY <1>1, <2>1, <2>2, <3>1, <3>2, UpsertNumbering
  <2>4. \A x \in {st} \cup outcomes :
          x.users = store.users /\ \A n \in NodeIds \ {r.node} : x.nodes[n] = store.nodes[n]
    BY <1>1, <2>2, OwnWrites
  <2>5. store.nodes[r.node] # None => outcomes = {store, st}
    BY DEF UpsertFileServerPartial, Allocates
  <2> HIDE DEF st, outcomes
  <2>6. \A x \in {st} \cup outcomes : WritesOwn(r, x)
    BY <2>3, <2>4, <2>5 DEF WritesOwn
  <2> QED BY <1>5, <1>7, <1>8, <2>1, <2>3, <2>6
<1>17. CASE PurgeUsers(m)
  <2> DEFINE st == RemoveUsers(store, r.purged)
             outcomes == RemoveUsersPartial(store, r.purged)
  <2>1. RegisterWrite(m, "purgeUsers", st, outcomes, "purgeShares") /\ pc[m] = "purgeUsers"
    BY <1>17 DEF PurgeUsers, RegisterWrite
  <2>2. r.node \in NodeIds /\ store.nodes[r.node] # None
    BY <1>2, <1>7, <1>9, <2>1
  <2>3. \A x \in {st} \cup outcomes : WritesOwn(r, x)
    BY <1>1, <2>2, OwnWrites
  <2>4. st.nodes = store.nodes /\ \A u \in r.purged : st.users[u] = None
    BY <1>1 DEF RemoveUsers, Stores
  <2> HIDE DEF st, outcomes
  <2> QED BY <1>5, <1>7, <2>1, <2>2, <2>3, <2>4
<1>18. CASE PurgeShares(m)
  <2> DEFINE S == Involving(r.purged)
             st == RemoveSharesInvolving(store, r.purged)
             outcomes == DropSharesPartial(store, S)
  <2>1. RegisterWrite(m, "purgeShares", st, outcomes, AfterPurge(r)) /\ pc[m] = "purgeShares"
    BY <1>18 DEF PurgeShares, RegisterWrite
  <2>2. r.node \in NodeIds /\ store.nodes[r.node] # None
    BY <1>2, <1>7, <1>9, <2>1
  <2>3. \A x \in {st} \cup outcomes : WritesOwn(r, x) /\ x.users = store.users /\ x.nodes = store.nodes
    <3>1. S \in SUBSET Grants
      BY <1>1
    <3>2. st = [store EXCEPT !.shares = @ \ S]
      BY DEF RemoveSharesInvolving
    <3> HIDE DEF S, st
    <3> QED BY <1>1, <2>2, <3>1, <3>2, OwnWrites
  <2> HIDE DEF st, outcomes
  <2> QED BY <1>5, <1>7, <1>8, <1>9, <2>1, <2>2, <2>3
<1>19. CASE PersistUsers(m)
  <2> DEFINE st == AssignUsers(store, r.node, r.users)
             outcomes == AssignUsersPartial(store, r.node, r.users)
  <2>1. RegisterWrite(m, "assign", st, outcomes, "clear") /\ pc[m] = "assign"
    BY <1>19 DEF PersistUsers, RegisterWrite
  <2>2. r.node \in NodeIds /\ store.nodes[r.node] # None /\ \A u \in r.purged : store.users[u] = None
    BY <1>2, <1>7, <1>9, <2>1
  <2>3. \A x \in {st} \cup outcomes : WritesOwn(r, x)
    BY <1>1, <2>2, OwnWrites
  <2>4. /\ st.nodes = store.nodes /\ \A u \in r.users : st.users[u] = r.node
        /\ \A u \in Users \ r.users : st.users[u] = store.users[u]
    BY <1>1 DEF AssignUsers, Stores
  <2>5. \A u \in r.purged : st.users[u] = None
    <3>1. \A u \in r.users : MemoryHome(u) = r.node
      BY <1>4, <1>7, <2>1 DEF HomeFacts
    <3>2. \A u \in r.purged : MemoryHome(u) = None
      BY <1>4, <1>7, <2>1 DEF HomeFacts
    <3>3. r.users \cap r.purged = {}
      BY <2>2, <3>1, <3>2, MetaStoreAssumption
    <3> QED BY <1>1, <2>2, <2>4, <3>3
  <2> HIDE DEF st, outcomes
  <2> QED BY <1>5, <1>7, <2>1, <2>2, <2>3, <2>4, <2>5
<1>20. CASE ClearShares(m)
  <2> DEFINE S == OwnedBy(r.users)
             st == RemoveSharesByOwner(store, r.users)
             outcomes == DropSharesPartial(store, S)
  <2>1. RegisterWrite(m, "clear", st, outcomes, AfterClear(r)) /\ pc[m] = "clear"
    BY <1>20 DEF ClearShares, RegisterWrite
  <2>2. r.node \in NodeIds /\ store.nodes[r.node] # None
    BY <1>2, <1>7, <1>9, <2>1
  <2>3. \A x \in {st} \cup outcomes : WritesOwn(r, x) /\ x.users = store.users /\ x.nodes = store.nodes
    <3>1. S \in SUBSET Grants
      BY <1>1
    <3>2. st = [store EXCEPT !.shares = @ \ S]
      BY DEF RemoveSharesByOwner
    <3> HIDE DEF S, st
    <3> QED BY <1>1, <2>2, <3>1, <3>2, OwnWrites
  <2> HIDE DEF st, outcomes
  <2> QED BY <1>5, <1>7, <1>9, <2>1, <2>2, <2>3
<1>21. CASE PersistShares(m)
  <2> DEFINE st == AddShares(store, r.grants)
             outcomes == AddSharesPartial(store, r.grants)
  <2>1. RegisterWrite(m, "grant", st, outcomes, "done") /\ pc[m] = "grant"
    BY <1>21 DEF PersistShares, RegisterWrite
  <2>2. r.node \in NodeIds /\ store.nodes[r.node] # None
    BY <1>2, <1>7, <1>9, <2>1
  <2>3. \A x \in {st} \cup outcomes : WritesOwn(r, x) /\ x.users = store.users /\ x.nodes = store.nodes
    BY <1>1, <2>2, OwnWrites
  <2> HIDE DEF st, outcomes
  <2> QED BY <1>5, <1>7, <1>9, <2>1, <2>2, <2>3
<1> QED
  BY <1>10, <1>11, <1>12, <1>13, <1>14, <1>15, <1>16, <1>17, <1>18, <1>19, <1>20, <1>21
  DEF RegisterStep

\* A first login owes the store one home; a failed one takes it back.
LEMMA DurablePlacement ==
    ASSUME TableInv, DurableInv, NEW c \in Clients, GetRootsPlace(c) \/ PersistPlacement(c)
    PROVE  DurableInv'
<1> DEFINE u == UserOf[c]
           r == req[c]
<1>1. /\ RevocationInv /\ TypeInv /\ LoadInv /\ c \in Callers /\ c \notin Machines /\ c # Admin
      /\ u \in Users /\ store \in Stores /\ fileservers \in [Numerics -> NodeInfos \cup {None}]
      /\ users \in [Users -> Numerics \cup {None}] /\ None \notin Numerics
  BY CallersDisjoint, MetaStoreAssumption, MetaServerAssumption
  DEF TableInv, RevocationInv, TypeInv, TypeOK
<1>2. \A v \in Users : users[v] # None => users[v] \in Numerics /\ fileservers[users[v]] # None
  BY <1>1 DEF LoadInv, Exact
<1>3. /\ Modern
      /\ \A l \in {"place", "in", "idle"} : /\ l \notin Renaming /\ l \notin RegisterWriting
                                            /\ l \notin Dropping /\ l \notin {"alloc", "commit"}
  BY DEF DurableInv, Renaming, RegisterWriting, Dropping
<1> HIDE DEF u
<1>4. ASSUME SameNodes(fileservers, fileservers'), orphanedUsers' = orphanedUsers,
             NEW i, users' = [users EXCEPT ![u] = i]
      PROVE  /\ \A n : Absent(fileservers', n) <=> Absent(fileservers, n)
             /\ \A v \in Users \ {u} : MemoryHome(v)' = MemoryHome(v)
             /\ \A j \in Numerics : fileservers'[j] # None => fileservers'[j].node \in FsIds
  <2>1. \A n : Absent(fileservers', n) <=> Absent(fileservers, n)
    BY <1>4 DEF Absent, SameNodes
  <2>2. \A v \in Users \ {u} : MemoryHome(v)' = MemoryHome(v)
    BY <1>1, <1>2, <1>4 DEF MemoryHome, SameNodes
  <2>3. \A j \in Numerics : fileservers'[j] # None => fileservers'[j].node \in FsIds
    BY <1>3, <1>4 DEF Modern, SameNodes
  <2> QED BY <2>1, <2>2, <2>3
<1>5. CASE GetRootsPlace(c)
  <2>1. PICK i \in LeastLoaded :
          /\ users' = [users EXCEPT ![u] = i]
          /\ fileservers' = [fileservers EXCEPT ![i].userCount = @ + 1]
          /\ Local(c, [NoReq EXCEPT !.num = i, !.node = fileservers[i].node])
    BY <1>5 DEF GetRootsPlace, u
  <2>2. i \in Numerics /\ fileservers[i] # None
    BY DEF LeastLoaded, isHealthy
  <2>3. /\ writeOrderMu = Free /\ Goto(c, "place") /\ pc[c] = "idle"
        /\ orphanedUsers' = orphanedUsers /\ store' = store /\ unsettled' = unsettled
        /\ upgraded' = upgraded
    BY <1>5 DEF GetRootsPlace, Lock, machines, history
  <2>4. SameNodes(fileservers, fileservers')
    BY <1>1, <2>1, <2>2, SameEntry
  <2> DEFINE n0 == fileservers[i].node
             q == [NoReq EXCEPT !.num = i, !.node = n0]
  <2>5. q.node = n0 /\ Local(c, q)
    BY <2>1 DEF NoReq
  <2>6. fileservers'[i] # None /\ fileservers'[i].node = n0 /\ ~Absent(fileservers', n0)
    BY <2>2, <2>4 DEF SameNodes, Absent
  <2> HIDE DEF q, n0
  <2>7. /\ pc'[c] = "place" /\ req'[c] = q
        /\ \A b \in Callers \ {c} : pc'[b] = pc[b] /\ req'[b] = req[b]
    BY <1>1, <2>3, <2>5, OthersStay
  <2>8. users'[u] = i /\ i # None
    BY <1>1, <2>1, <2>2
  <2>9. HomeFacts(c, pc[c], req[c])'
    <3>1. users'[UserOf[c]] = i
      BY <2>8 DEF u
    <3>2. MemoryHome(UserOf[c])' = n0
      BY <2>6, <2>8, <3>1 DEF MemoryHome
    <3> QED BY <1>1, <1>3, <2>5, <2>6, <2>7, <3>2 DEF HomeFacts
  <2>10. /\ Owed(c, pc'[c], req'[c]) = {u} /\ Owed(c, pc[c], req[c]) = {}
    BY <1>3, <2>3, <2>7 DEF Owed, u
  <2>11. /\ HomesAreRegistered
         /\ \A v \in Users \ unsettled : HomeAgrees(v)
         /\ \A n \in NodeIds \ unsettled : NodeAgrees(n)
    BY <1>1, <2>3, <2>10, DurableFound
  <2>12. /\ \A n : Absent(fileservers', n) <=> Absent(fileservers, n)
         /\ \A v \in Users \ {u} : MemoryHome(v)' = MemoryHome(v)
         /\ \A j \in Numerics : fileservers'[j] # None => fileservers'[j].node \in FsIds
    BY <1>4, <2>1, <2>3, <2>4
  <2>13. \A v \in Users \ unsettled' : HomeAgrees(v)' \/ v \in Owed(c, pc'[c], req'[c])
    BY <2>3, <2>10, <2>11, <2>12 DEF HomeAgrees
  <2>14. \A n \in NodeIds \ unsettled' : NodeAgrees(n)'
    BY <2>3, <2>11, <2>12 DEF NodeAgrees
  <2>15. HomesAreRegistered'
    BY <2>3, <2>11 DEF HomesAreRegistered, Homeless
  <2> QED BY <1>1, <1>3, <2>3, <2>7, <2>9, <2>12, <2>13, <2>14, <2>15, DurableHolder DEF Modern
<1>6. CASE PersistPlacement(c)
  <2> DEFINE st == AssignUser(store, r.node, u)
  <2>1. /\ pc[c] = "place" /\ upgraded' = upgraded
        /\ \/ /\ store' = st /\ Goto(c, "in") /\ Local(c, NoReq) /\ UNCHANGED memory
              /\ unsettled' = unsettled \ {u}
           \/ /\ store' \in {store, st} /\ Goto(c, "idle") /\ Local(c, NoReq)
              /\ RollBackPlacement(c) /\ unsettled' = unsettled \cup {u}
    BY <1>6 DEF PersistPlacement, Return, Applied, Failed, machines, u
  <2>2. /\ writeOrderMu = c /\ r.node \in NodeIds /\ r.num \in Numerics
        /\ users[u] = r.num /\ fileservers[r.num] # None
    BY <1>1, <2>1 DEF RevocationInv, HolderOK, Holding, TypeInv, RequestOK, Fits, LoadInv, PlacedOK, u
  <2>3. /\ st.nodes = store.nodes /\ st.users = [store.users EXCEPT ![u] = r.node]
        /\ store.users \in [Users -> NodeIds \cup {None}]
    <3>1. /\ st.nodes = store.nodes
          /\ st.users = [v \in Users |-> IF v = u THEN r.node ELSE store.users[v]]
          /\ store.users \in [Users -> NodeIds \cup {None}]
      BY <1>1 DEF AssignUser, AssignUsers, Stores
    <3> QED BY <3>1
  <2>4. /\ ~Absent(fileservers, r.node) /\ MemoryHome(u) = r.node
        /\ Owed(c, pc[c], r) = {u}
    BY <1>1, <1>3, <2>1 DEF DurableInv, HomeFacts, Owed, u
  <2>5. /\ HomesAreRegistered
        /\ \A v \in Users \ unsettled : HomeAgrees(v) \/ v = u
        /\ \A n \in NodeIds \ unsettled : NodeAgrees(n)
    BY <1>1, <2>2, <2>4, DurableFound, KindsAssumption
  <2>6. r.node \in FsIds
    BY <1>3, <2>4 DEF Modern, Absent
  <2>7. /\ pc'[c] \in {"in", "idle"}
        /\ \A b \in Callers \ {c} : pc'[b] = pc[b] /\ req'[b] = req[b]
    BY <1>1, <2>1, OthersStay
  <2> HIDE DEF st, r
  <2>8. HomeFacts(c, pc[c], req[c])'
    BY <1>3, <2>7, NoDebt DEF Owing, Registering
  <2>9. /\ \A n \in LegacyIds : store'.nodes[n] = None
        /\ \A v \in Users : store'.users[v] \notin LegacyIds
    <3>1. store'.nodes = store.nodes /\ \A v \in Users : store'.users[v] \in {store.users[v], r.node}
      BY <2>1, <2>3
    <3> QED BY <1>3, <2>6, <3>1, MetaStoreAssumption DEF Modern
  <2>10. SameNodes(fileservers, fileservers') /\ orphanedUsers' = orphanedUsers
         /\ users' \in {users, [users EXCEPT ![u] = None]}
    <3>1. CASE UNCHANGED memory
      BY <3>1 DEF memory, SameNodes
    <3>2. CASE RollBackPlacement(c)
      <4>1. \/ fileservers' = fileservers
            \/ /\ fileservers[r.num].userCount > 0
               /\ fileservers' = [fileservers EXCEPT ![r.num].userCount = @ - 1]
        BY <3>2 DEF RollBackPlacement, r
      <4>2. SameNodes(fileservers, fileservers')
        <5>1. SameNodes(fileservers, fileservers)
          BY DEF SameNodes
        <5> QED BY <1>1, <2>2, <4>1, <5>1, SameEntry
      <4> QED BY <3>2, <4>2 DEF RollBackPlacement, u
    <3> QED BY <2>1, <3>1, <3>2
  <2>11. users = [users EXCEPT ![u] = users[u]]
    BY <1>1
  <2>12. /\ \A n : Absent(fileservers', n) <=> Absent(fileservers, n)
         /\ \A v \in Users \ {u} : MemoryHome(v)' = MemoryHome(v)
         /\ \A j \in Numerics : fileservers'[j] # None => fileservers'[j].node \in FsIds
    BY <1>4, <2>10, <2>11
  <2>13. \A v \in Users \ {u} : store'.users[v] = store.users[v]
    BY <2>1, <2>3
  <2>14. store'.nodes = store.nodes
    BY <2>1, <2>3
  <2>15. \A n \in NodeIds \ unsettled' : NodeAgrees(n)'
    BY <1>1, <2>1, <2>5, <2>12, <2>14, KindsAssumption DEF NodeAgrees
  <2>16. \A v \in Users \ unsettled' : HomeAgrees(v)'
    <3>1. \A v \in Users \ (unsettled \cup {u}) : HomeAgrees(v)'
      BY <2>5, <2>12, <2>13 DEF HomeAgrees
    <3>2. CASE store' = st /\ UNCHANGED memory /\ unsettled' = unsettled \ {u}
      <4>1. \A v \in {u} : HomeAgrees(v)'
        BY <1>1, <2>3, <2>4, <3>2 DEF HomeAgrees, MemoryHome, memory
      <4> QED BY <3>1, <3>2, <4>1
    <3>3. CASE unsettled' = unsettled \cup {u}
      BY <3>1, <3>3
    <3> QED BY <2>1, <3>2, <3>3
  <2>17. HomesAreRegistered'
    <3>1. ASSUME NEW v \in Homeless' PROVE v \in unsettled' \/ store'.users[v] \in unsettled'
      <4>1. v \in Users /\ store'.users[v] # None /\ store.nodes[store'.users[v]] = None
        BY <2>14 DEF Homeless
      <4>2. CASE v # u
        <5>1. v \in Homeless /\ store'.users[v] = store.users[v] /\ store.users[v] \in NodeIds
          BY <2>3, <2>13, <4>1, <4>2 DEF Homeless
        <5> QED BY <1>1, <2>1, <2>5, <4>2, <5>1, KindsAssumption DEF HomesAreRegistered
      <4>3. CASE v = u
        <5>1. CASE u \in unsettled'
          BY <4>3, <5>1
        <5>2. CASE store' = st /\ unsettled' = unsettled \ {u}
          <6>1. store'.users[u] = r.node
            BY <1>1, <2>3, <5>2
          <6>2. r.node \in unsettled
            BY <2>2, <2>4, <2>5, <4>1, <4>3, <6>1 DEF NodeAgrees
          <6> QED BY <1>1, <2>2, <4>3, <5>2, <6>1, <6>2, KindsAssumption
        <5> QED BY <2>1, <5>1, <5>2
      <4> QED BY <4>2, <4>3
    <3> QED BY <3>1 DEF HomesAreRegistered
  <2> QED BY <1>1, <1>3, <2>1, <2>2, <2>7, <2>8, <2>9, <2>12, <2>15, <2>16, <2>17, DurableHolder
<1> QED BY <1>5, <1>6

\* A removal starts: it takes every user homed on the node out of memory, and owes
\* the store their homes and the node.
LEMMA DurableRemoval ==
    ASSUME TableInv, TypeInv', DurableInv, DeregisterFileServer
    PROVE  DurableInv'
<1>1. /\ RevocationInv /\ TypeInv /\ LoadInv /\ Admin \in Callers /\ store \in Stores
      /\ Admin \notin Machines /\ Admin \notin Clients
      /\ fileservers \in [Numerics -> NodeInfos \cup {None}] /\ Numbered(fileservers, store)
      /\ users \in [Users -> Numerics \cup {None}] /\ orphanedUsers \in [Users -> NodeIds \cup {None}]
      /\ None \notin Numerics /\ None \notin NodeIds
      /\ pc \in [Callers -> Labels] /\ req \in [Callers -> Requests]
  BY CallersDisjoint, MetaStoreAssumption, TableNumbered
  DEF TableInv, RevocationInv, TypeInv, TypeOK
<1>2. PICK t \in DeregTargets :
        LET U == (IF t.num = None THEN {} ELSE UsersOn(t.num)) \cup OrphansOf(t.node) IN
        /\ Found(t) /\ (t.num # None \/ U # {})
        /\ Local(Admin, [NoReq EXCEPT
              !.node = t.node, !.num = t.num, !.users = U,
              !.prev = [info |-> IF t.num = None THEN None ELSE fileservers[t.num],
                        users |-> users, orphanedUsers |-> orphanedUsers,
                        shared |-> shared]])
        /\ users' = [u \in Users |-> IF u \in U THEN None ELSE users[u]]
        /\ orphanedUsers' = [u \in Users |-> IF u \in U THEN None ELSE orphanedUsers[u]]
        /\ fileservers' = IF t.num = None THEN fileservers ELSE [fileservers EXCEPT ![t.num] = None]
        /\ Goto(Admin, IF U # {} THEN "dropUsers" ELSE "dropNode")
  BY DEF DeregisterFileServer
<1>3. /\ writeOrderMu = Free /\ pc[Admin] = "idle" /\ store' = store /\ unsettled' = unsettled
      /\ upgraded' = upgraded
  BY DEF DeregisterFileServer, Lock, machines
<1> DEFINE U == (IF t.num = None THEN {} ELSE UsersOn(t.num)) \cup OrphansOf(t.node)
           info == IF t.num = None THEN None ELSE fileservers[t.num]
           old == [info |-> info, users |-> users, orphanedUsers |-> orphanedUsers,
                   shared |-> shared]
           q == [NoReq EXCEPT !.node = t.node, !.num = t.num, !.users = U, !.prev = old]
           label == IF U # {} THEN "dropUsers" ELSE "dropNode"
<1>4. /\ t.node \in NodeIds /\ t.num \in Numerics \cup {None}
      /\ t.num # None => fileservers[t.num] # None /\ fileservers[t.num].node = t.node
      /\ t.num = None => Absent(fileservers, t.node)
  BY <1>2 DEF DeregTargets, Found, ByNodeID, Absent
<1>5. U \subseteq Users /\ \A u \in Users : u \in U <=> MemoryHome(u) = t.node
  <2>1. \A u \in Users : orphanedUsers[u] # None => users[u] = None
    BY <1>1 DEF LoadInv, OrphansUnrouted
  <2>2. \A u \in Users : users[u] # None => users[u] \in Numerics /\ fileservers[users[u]] # None
    BY <1>1 DEF LoadInv, Exact
  <2>3. \A i, j \in Numerics : fileservers[i] # None /\ fileservers[j] # None
          /\ fileservers[i].node = fileservers[j].node => i = j
    BY <1>1 DEF Numbered
  <2>4. ASSUME NEW u \in Users PROVE u \in U <=> MemoryHome(u) = t.node
    <3>1. CASE users[u] = None
      BY <1>1, <1>4, <3>1 DEF MemoryHome, UsersOn, OrphansOf
    <3>2. CASE users[u] # None
      <4>1. orphanedUsers[u] # t.node
        BY <1>1, <1>4, <2>1, <3>2
      <4>2. t.num # None /\ users[u] = t.num <=> fileservers[users[u]].node = t.node
        BY <1>4, <2>2, <2>3, <3>2 DEF Absent
      <4> QED BY <1>1, <3>2, <4>1, <4>2 DEF MemoryHome, UsersOn, OrphansOf
    <3> QED BY <3>1, <3>2
  <2> QED BY <2>4 DEF UsersOn, OrphansOf
<1>6. /\ q.users = U /\ q.node = t.node /\ q.num = t.num /\ q.prev.info = info
      /\ t.num # None => info # None /\ info.node = t.node
  BY <1>4 DEF NoReq
<1>7. /\ Local(Admin, q) /\ Goto(Admin, label) /\ label \in {"dropUsers", "dropNode"}
      /\ label = "dropNode" => U = {} /\ t.num # None
      /\ users' = [u \in Users |-> IF u \in U THEN None ELSE users[u]]
      /\ orphanedUsers' = [u \in Users |-> IF u \in U THEN None ELSE orphanedUsers[u]]
      /\ fileservers' = IF t.num = None THEN fileservers ELSE [fileservers EXCEPT ![t.num] = None]
  BY <1>2
<1>8. t.num # None => \A u \in Users \ U : users[u] # t.num
  BY DEF UsersOn
<1> HIDE DEF q, label, info, U
<1>9. /\ \A n : Absent(fileservers', n) <=> Absent(fileservers, n) \/ n = t.node
  <2>1. \A i, j \in Numerics : fileservers[i] # None /\ fileservers[j] # None
          /\ fileservers[i].node = fileservers[j].node => i = j
    BY <1>1 DEF Numbered
  <2>2. CASE t.num = None
    BY <1>4, <1>7, <2>2
  <2>3. CASE t.num # None
    <3>1. \A i \in Numerics : fileservers'[i] = IF i = t.num THEN None ELSE fileservers[i]
      BY <1>1, <1>4, <1>7, <2>3
    <3> QED BY <1>4, <2>1, <2>3, <3>1 DEF Absent
  <2> QED BY <2>2, <2>3
<1>10. /\ \A u \in U : MemoryHome(u)' = None
       /\ \A u \in Users \ U : MemoryHome(u)' = MemoryHome(u)
  <2>1. \A u \in U : MemoryHome(u)' = None
    BY <1>5, <1>7 DEF MemoryHome
  <2>2. ASSUME NEW u \in Users \ U PROVE MemoryHome(u)' = MemoryHome(u)
    <3>1. users'[u] = users[u] /\ orphanedUsers'[u] = orphanedUsers[u]
      BY <1>7
    <3>2. users[u] # None => users[u] \in Numerics /\ fileservers'[users[u]] = fileservers[users[u]]
      BY <1>1, <1>4, <1>7, <1>8
    <3> QED BY <3>1, <3>2 DEF MemoryHome
  <2> QED BY <2>1, <2>2
<1>11. /\ pc'[Admin] = label /\ req'[Admin] = q
       /\ \A b \in Callers \ {Admin} : pc'[b] = pc[b] /\ req'[b] = req[b]
  BY <1>1, <1>7, OthersStay
<1>12. /\ label \in Dropping /\ label \notin RegisterWriting \cup {"alloc", "commit", "place"}
       /\ label \notin Renaming
  BY <1>7 DEF Dropping, RegisterWriting, Renaming
<1>13. Owed(Admin, pc'[Admin], req'[Admin]) = U \cup (IF t.num = None THEN {} ELSE {t.node})
  BY <1>6, <1>11, <1>12 DEF Owed
<1>14. /\ Modern /\ HomesAreRegistered
       /\ \A u \in Users \ unsettled : HomeAgrees(u)
       /\ \A n \in NodeIds \ unsettled : NodeAgrees(n)
  <2>1. Owed(Admin, pc[Admin], req[Admin]) = {}
    BY <1>3 DEF Owed, RegisterWriting, Dropping
  <2> QED BY <1>1, <1>3, <2>1, DurableFound
<1>15. \A i \in Numerics : fileservers'[i] # None => fileservers'[i].node \in FsIds
  BY <1>1, <1>4, <1>7, <1>14 DEF Modern
<1>16. HomeFacts(Admin, pc[Admin], req[Admin])'
  <2>1. \A u \in Users : MemoryHome(u)' # t.node
    BY <1>1, <1>4, <1>5, <1>10
  <2>2. t.num # None => t.node \in FsIds
    BY <1>4, <1>14 DEF Modern
  <2> QED BY <1>1, <1>6, <1>7, <1>9, <1>10, <1>11, <1>12, <2>1, <2>2 DEF HomeFacts
<1>17. \A u \in Users \ unsettled' : HomeAgrees(u)' \/ u \in Owed(Admin, pc'[Admin], req'[Admin])
  BY <1>3, <1>10, <1>13, <1>14 DEF HomeAgrees
<1>18. \A n \in NodeIds \ unsettled' : NodeAgrees(n)' \/ n \in Owed(Admin, pc'[Admin], req'[Admin])
  BY <1>3, <1>4, <1>9, <1>13, <1>14 DEF NodeAgrees
<1>19. HomesAreRegistered'
  BY <1>3, <1>14 DEF HomesAreRegistered, Homeless
<1> QED BY <1>1, <1>3, <1>11, <1>12, <1>14, <1>15, <1>16, <1>17, <1>18, <1>19, DurableHolder DEF Modern

\* A write of a removal deletes homes of the removed users and, in its last step,
\* the document of the removed node, and nothing else.
DropsOnly(r, last, x) ==
    /\ \A u \in Users : x.users[u] = store.users[u] \/ (u \in r.users /\ x.users[u] = None)
    /\ \A n \in NodeIds : \/ x.nodes[n] = None <=> store.nodes[n] = None
                          \/ last /\ n = r.node /\ x.nodes[n] = None

\* What putting the snapshot back does to routes and nodes.
LEMMA DurableRollBack ==
    ASSUME TableInv, DurableInv, pc[Admin] \in Dropping, RollBackDeregister
    PROVE  /\ \A u \in Users \ req[Admin].users : MemoryHome(u)' = MemoryHome(u)
           /\ \A n : n # req[Admin].node \/ req[Admin].num = None =>
                (Absent(fileservers', n) <=> Absent(fileservers, n))
           /\ \A i \in Numerics : fileservers'[i] # None => fileservers'[i].node \in FsIds
<1> DEFINE r == req[Admin]
           info == r.prev.info
<1>1. /\ Admin \in Callers /\ r \in Requests
      /\ fileservers \in [Numerics -> NodeInfos \cup {None}]
      /\ users \in [Users -> Numerics \cup {None}]
      /\ None \notin Numerics
  BY CallersDisjoint, MetaStoreAssumption DEF TableInv, RevocationInv, TypeInv, TypeOK
<1>2. /\ r.num # None => fileservers[r.num] = None
      /\ r.num = None <=> info = None
  BY DEF TableInv, NumberInv, SlotIsKept
<1>3. /\ r.num # None => info.node = r.node /\ r.node \in FsIds
      /\ \A i \in Numerics : fileservers[i] # None => fileservers[i].node \in FsIds
  BY <1>1 DEF DurableInv, HomeFacts, Modern
<1>4. \A u \in Users : users[u] # None => users[u] \in Numerics /\ fileservers[users[u]] # None
  BY <1>1 DEF TableInv, LoadInv, Exact
<1>5. /\ fileservers' = IF info = None THEN fileservers
                        ELSE [fileservers EXCEPT ![r.num] = info]
      /\ \A u \in Users \ r.users : users'[u] = users[u] /\ orphanedUsers'[u] = orphanedUsers[u]
  BY DEF RollBackDeregister
<1>6. r.num \in Numerics \cup {None}
  BY <1>1 DEF Requests
<1> HIDE DEF r, info
<1>7. ASSUME NEW i \in Numerics
      PROVE  fileservers'[i] = IF r.num # None /\ i = r.num THEN info ELSE fileservers[i]
  BY <1>1, <1>2, <1>5, <1>6
<1>8. \A u \in Users \ r.users : MemoryHome(u)' = MemoryHome(u)
  BY <1>2, <1>4, <1>5, <1>7 DEF MemoryHome
<1>9. ASSUME NEW n, n # r.node \/ r.num = None
      PROVE  Absent(fileservers', n) <=> Absent(fileservers, n)
  BY <1>2, <1>3, <1>7, <1>9 DEF Absent
<1>10. \A i \in Numerics : fileservers'[i] # None => fileservers'[i].node \in FsIds
  BY <1>3, <1>7
<1> QED BY <1>8, <1>9, <1>10 DEF r

\* A write of a removal pays what it owes, or puts the snapshot back and leaves
\* what it was writing in doubt.
LEMMA DurableDrop ==
    ASSUME TableInv, DurableInv,
           NEW here \in Dropping, NEW st, NEW outcomes, NEW label \in Dropping \cup {"done"},
           DeregWrite(here, st, outcomes, label),
           \A x \in {st} \cup outcomes : DropsOnly(req[Admin], here = "dropNode", x),
           \A u \in req[Admin].users : st.users[u] = None,
           label # "dropUsers", here = "dropNode" => label = "done",
           label = "dropNode" => req[Admin].num # None,
           label = "done" /\ req[Admin].num # None => st.nodes[req[Admin].node] = None
    PROVE  DurableInv'
<1> DEFINE r == req[Admin]
<1>1. /\ RevocationInv /\ TypeInv /\ writeOrderMu = Admin /\ pc[Admin] = here
      /\ Admin \in Callers /\ Admin \notin Machines /\ Admin \notin Clients
      /\ r.node \in NodeIds /\ r.users \subseteq Users
      /\ store \in Stores /\ store' \in {st} \cup outcomes
      /\ upgraded' = upgraded
      /\ \/ /\ pc'[Admin] = label /\ label # "done" /\ req'[Admin] = r
            /\ store' = st /\ UNCHANGED <<memory, unsettled>>
         \/ /\ pc'[Admin] = "idle" /\ label = "done" /\ store' = st /\ UNCHANGED memory
            /\ unsettled' = unsettled \ DeregScope(r)
         \/ /\ pc'[Admin] = "idle" /\ RollBackDeregister
            /\ unsettled' = unsettled \cup DeregScope(r)
      /\ \A b \in Callers \ {Admin} : pc'[b] = pc[b] /\ req'[b] = req[b]
  BY DropMoves, CallersDisjoint DEF TableInv, machines
<1>2. /\ HomeFacts(Admin, here, r) /\ Modern /\ HomesAreRegistered
      /\ \A u \in Users \ unsettled : HomeAgrees(u) \/ u \in Owed(Admin, here, r)
      /\ \A n \in NodeIds \ unsettled : NodeAgrees(n) \/ n \in Owed(Admin, here, r)
  BY <1>1, DurableFound
<1>3. /\ \A l \in Dropping : l \notin RegisterWriting \cup {"alloc", "commit", "place"}
      /\ \A l \in Dropping \cup {"idle"} : l \notin Renaming
      /\ "idle" \notin Owing
  BY DEF Dropping, RegisterWriting, Renaming, Owing, Registering
<1> DEFINE debt == r.users \cup (IF r.num = None THEN {} ELSE {r.node})
<1>4. \A l \in Dropping : Owed(Admin, l, r) = debt
  BY <1>3 DEF Owed
<1>5. /\ \A u \in Users \cup NodeIds : u \in DeregScope(r) <=> u \in debt
      /\ \A u \in Users : u \in debt <=> u \in r.users
      /\ \A n \in NodeIds : n \in debt <=> r.num # None /\ n = r.node
  BY <1>1, KindsAssumption DEF DeregScope, Involving
<1>6. /\ \A u \in Users : store'.users[u] = store.users[u] \/ (u \in r.users /\ store'.users[u] = None)
      /\ \A n \in NodeIds : \/ store'.nodes[n] = None <=> store.nodes[n] = None
                            \/ here = "dropNode" /\ n = r.node /\ store'.nodes[n] = None
  BY <1>1 DEF DropsOnly
<1>7. /\ here = "dropNode" => r.num # None
      /\ \A u \in Users : MemoryHome(u) # r.node
      /\ \A u \in r.users : MemoryHome(u) = None
      /\ r.num # None => Absent(fileservers, r.node)
  BY <1>2 DEF HomeFacts
<1>8. store.users \in [Users -> NodeIds \cup {None}] /\ None \notin NodeIds
  BY <1>1, MetaStoreAssumption DEF Stores
<1> HIDE DEF debt
<1>9. \A n \in LegacyIds : store'.nodes[n] = None
  BY <1>2, <1>6 DEF Modern, NodeIds
<1>10. \A u \in Users : store'.users[u] \notin LegacyIds
  BY <1>2, <1>6, MetaStoreAssumption DEF Modern, NodeIds
<1>11. CASE /\ pc'[Admin] = label /\ label # "done" /\ req'[Admin] = r
            /\ store' = st /\ UNCHANGED <<memory, unsettled>>
  <2>1. /\ \A u \in Users : MemoryHome(u)' = MemoryHome(u)
        /\ \A n : Absent(fileservers', n) <=> Absent(fileservers, n)
        /\ unsettled' = unsettled /\ fileservers' = fileservers
    BY <1>11 DEF memory, MemoryHome
  <2>2. label \in Dropping /\ Owed(Admin, pc'[Admin], req'[Admin]) = debt
    BY <1>4, <1>11
  <2>3. HomeFacts(Admin, pc[Admin], req[Admin])'
    BY <1>1, <1>2, <1>3, <1>11, <2>1, <2>2 DEF HomeFacts
  <2>4. \A u \in Users \ unsettled' : HomeAgrees(u)' \/ u \in Owed(Admin, pc'[Admin], req'[Admin])
    BY <1>2, <1>4, <1>5, <1>6, <2>1, <2>2 DEF HomeAgrees
  <2>5. \A n \in NodeIds \ unsettled' : NodeAgrees(n)' \/ n \in Owed(Admin, pc'[Admin], req'[Admin])
    BY <1>2, <1>4, <1>6, <1>11, <2>1, <2>2 DEF NodeAgrees
  <2>6. HomesAreRegistered'
    BY <1>2, <1>6, <1>8, <1>11, <2>1 DEF HomesAreRegistered, Homeless
  <2> QED BY <1>1, <1>2, <1>3, <1>9, <1>10, <1>11, <2>1, <2>2, <2>3, <2>4, <2>5, <2>6, DurableHolder
          DEF Modern
<1>12. CASE /\ pc'[Admin] = "idle" /\ label = "done" /\ store' = st /\ UNCHANGED memory
            /\ unsettled' = unsettled \ DeregScope(r)
  <2>1. /\ \A u \in Users : MemoryHome(u)' = MemoryHome(u)
        /\ \A n : Absent(fileservers', n) <=> Absent(fileservers, n)
        /\ fileservers' = fileservers
    BY <1>12 DEF memory, MemoryHome
  <2>2. HomeFacts(Admin, pc[Admin], req[Admin])'
    BY <1>3, <1>12, NoDebt
  <2>3. \A u \in Users \ unsettled' : HomeAgrees(u)'
    BY <1>2, <1>4, <1>5, <1>6, <1>7, <1>12, <2>1 DEF HomeAgrees
  <2>4. \A n \in NodeIds \ unsettled' : NodeAgrees(n)'
    BY <1>2, <1>4, <1>5, <1>6, <1>7, <1>12, <2>1 DEF NodeAgrees
  <2>5. ASSUME NEW u \in Homeless'
        PROVE  u \in unsettled' \/ store'.users[u] \in unsettled'
    <3>1. u \in Users /\ store'.users[u] # None /\ store'.nodes[store'.users[u]] = None
      BY <2>5 DEF Homeless
    <3>2. u \notin r.users /\ store'.users[u] = store.users[u] /\ store.users[u] \in NodeIds
      BY <1>6, <1>8, <1>12, <3>1
    <3>3. u \notin DeregScope(r)
      BY <1>5, <3>1, <3>2
    <3>4. CASE r.num # None /\ store.users[u] = r.node
      <4>1. ~HomeAgrees(u)
        BY <1>7, <3>1, <3>4 DEF HomeAgrees
      <4> QED BY <1>2, <1>4, <1>5, <1>12, <3>1, <3>2, <3>3, <4>1
    <3>5. CASE r.num = None \/ store.users[u] # r.node
      <4>1. store.nodes[store.users[u]] = None /\ store.users[u] \notin DeregScope(r)
        BY <1>5, <1>6, <1>7, <3>1, <3>2, <3>5
      <4>2. u \in Homeless
        BY <3>1, <3>2, <4>1 DEF Homeless
      <4> QED BY <1>2, <1>12, <3>2, <3>3, <4>1, <4>2 DEF HomesAreRegistered
    <3> QED BY <3>4, <3>5
  <2>6. HomesAreRegistered'
    BY <2>5 DEF HomesAreRegistered
  <2> QED BY <1>1, <1>2, <1>3, <1>9, <1>10, <1>12, <2>1, <2>2, <2>3, <2>4, <2>6, DurableHolder
          DEF Modern
<1>13. CASE /\ pc'[Admin] = "idle" /\ RollBackDeregister
            /\ unsettled' = unsettled \cup DeregScope(r)
  <2>1. /\ \A u \in Users \ r.users : MemoryHome(u)' = MemoryHome(u)
        /\ \A n : n # r.node \/ r.num = None =>
             (Absent(fileservers', n) <=> Absent(fileservers, n))
        /\ \A i \in Numerics : fileservers'[i] # None => fileservers'[i].node \in FsIds
    BY <1>1, <1>13, DurableRollBack
  <2>2. HomeFacts(Admin, pc[Admin], req[Admin])'
    BY <1>3, <1>13, NoDebt
  <2>3. \A u \in Users \ unsettled' : HomeAgrees(u)'
    BY <1>2, <1>4, <1>5, <1>6, <1>13, <2>1 DEF HomeAgrees
  <2>4. \A n \in NodeIds \ unsettled' : NodeAgrees(n)'
    BY <1>2, <1>4, <1>5, <1>6, <1>7, <1>13, <2>1 DEF NodeAgrees
  <2>5. ASSUME NEW u \in Homeless'
        PROVE  u \in unsettled' \/ store'.users[u] \in unsettled'
    <3>1. /\ u \in Users /\ store'.users[u] # None /\ store'.nodes[store'.users[u]] = None
          /\ store'.users[u] = store.users[u] /\ store.users[u] \in NodeIds
      BY <1>6, <1>8, <2>5 DEF Homeless
    <3>2. CASE store.nodes[store.users[u]] = None
      BY <1>2, <1>13, <3>1, <3>2 DEF HomesAreRegistered, Homeless
    <3>3. CASE store.nodes[store.users[u]] # None
      BY <1>5, <1>6, <1>7, <1>13, <3>1, <3>3
    <3> QED BY <3>2, <3>3
  <2>6. HomesAreRegistered'
    BY <2>5 DEF HomesAreRegistered
  <2> QED BY <1>1, <1>2, <1>3, <1>9, <1>10, <1>13, <2>1, <2>2, <2>3, <2>4, <2>6, DurableHolder
          DEF Modern
<1> QED BY <1>1, <1>11, <1>12, <1>13

\* A removal, from its call to its last write.
LEMMA DurableDeregister ==
    ASSUME TableInv, TypeInv', DurableInv, DeregisterStep
    PROVE  DurableInv'
<1> DEFINE r == req[Admin]
<1>1. /\ RevocationInv /\ store \in Stores /\ Admin \in Callers
      /\ "dropUsers" \in Dropping /\ "dropShares" \in Dropping /\ "dropNode" \in Dropping
  BY CallersDisjoint DEF TableInv, RevocationInv, TypeInv, TypeOK, Dropping
<1>2. HomeFacts(Admin, pc[Admin], r)
  BY <1>1 DEF DurableInv
<1>3. CASE DropUsers
  <2> DEFINE st == RemoveUsers(store, r.users)
             outcomes == RemoveUsersPartial(store, r.users)
  <2>1. DeregWrite("dropUsers", st, outcomes, "dropShares")
    BY <1>3 DEF DropUsers
  <2>2. r.users \subseteq Users
    BY <1>1, <2>1, DropMoves
  <2>3. ASSUME NEW V \in SUBSET Users
        PROVE  /\ \A u \in Users : RemoveUsers(store, V).users[u] =
                                     IF u \in V THEN None ELSE store.users[u]
               /\ RemoveUsers(store, V).nodes = store.nodes
    BY <1>1 DEF RemoveUsers, Stores
  <2>4. \A x \in {st} \cup outcomes : DropsOnly(r, FALSE, x)
    <3>1. ASSUME NEW x \in {st} \cup outcomes PROVE DropsOnly(r, FALSE, x)
      <4>1. PICK V \in SUBSET r.users : x = RemoveUsers(store, V)
        BY <3>1 DEF RemoveUsersPartial
      <4> QED BY <2>2, <2>3, <4>1 DEF DropsOnly
    <3> QED BY <3>1
  <2>5. \A u \in r.users : st.users[u] = None
    BY <2>2, <2>3
  <2> HIDE DEF st, outcomes
  <2> QED BY <1>1, <2>1, <2>4, <2>5, DurableDrop
<1>4. CASE DropShares
  <2> DEFINE gone == Involving(r.users)
             st == RemoveSharesInvolving(store, r.users)
             outcomes == DropSharesPartial(store, gone)
             label == IF r.num # None THEN "dropNode" ELSE "done"
  <2>1. DeregWrite("dropShares", st, outcomes, label)
    BY <1>4 DEF DropShares
  <2>2. \A x \in {st} \cup outcomes : x.users = store.users /\ x.nodes = store.nodes
    BY <1>1 DEF RemoveSharesInvolving, DropSharesPartial, Stores
  <2>3. \A x \in {st} \cup outcomes : DropsOnly(r, FALSE, x)
    BY <2>2 DEF DropsOnly
  <2>4. pc[Admin] = "dropShares"
    BY <2>1 DEF DeregWrite
  <2>5. \A u \in r.users : st.users[u] = None
    BY <1>1, <1>2, <2>2, <2>4 DEF HomeFacts
  <2>6. /\ label \in Dropping \cup {"done"} /\ label # "dropUsers"
        /\ label = "dropNode" => r.num # None
        /\ label = "done" => r.num = None
    BY <1>1
  <2> HIDE DEF st, outcomes, label
  <2> QED BY <1>1, <2>1, <2>3, <2>5, <2>6, DurableDrop
<1>5. CASE DropNode
  <2> DEFINE st == RemoveFileServer(store, r.node)
  <2>1. DeregWrite("dropNode", st, {store, st}, "done")
    BY <1>5 DEF DropNode
  <2>2. r.node \in NodeIds /\ pc[Admin] = "dropNode"
    BY <1>1, <2>1, DropMoves
  <2>3. /\ st.users = store.users /\ st.nodes[r.node] = None
        /\ \A n \in NodeIds \ {r.node} : st.nodes[n] = store.nodes[n]
    BY <1>1, <2>2 DEF RemoveFileServer, Stores
  <2> HIDE DEF st
  <2>4. \A x \in {st} \cup {store, st} : DropsOnly(r, TRUE, x)
    BY <2>3 DEF DropsOnly
  <2>5. \A u \in r.users : st.users[u] = None
    BY <1>1, <1>2, <2>2, <2>3 DEF HomeFacts
  <2> QED BY <1>1, <2>1, <2>3, <2>4, <2>5, DurableDrop
<1> QED BY <1>3, <1>4, <1>5, DurableRemoval DEF DeregisterStep

\* After a restart a slot holds the node that the store has under its number.
LEMMA HydratedTable ==
    ASSUME TableInv, Crash
    PROVE  /\ \A i \in Numerics : \A n \in NodeIds :
                store.nodes[n] # None /\ store.nodes[n].num = i =>
                   fileservers'[i] # None /\ fileservers'[i].node = n
           /\ \A i \in Numerics : fileservers'[i] # None =>
                \E n \in NodeIds : /\ store.nodes[n] # None /\ store.nodes[n].num = i
                                   /\ fileservers'[i].node = n
<1>1. store \in Stores /\ StoreNumbered(store)
  BY DEF TableInv, RevocationInv, TypeInv, TypeOK, NumberInv
<1>2. PICK F : Hydrate(F)
  BY DEF Crash
<1>3. ASSUME NEW i \in Numerics, NEW n \in NodeIds, store.nodes[n] # None, store.nodes[n].num = i
      PROVE  fileservers'[i] # None /\ fileservers'[i].node = n
  <2> DEFINE load == Cardinality({u \in Users : store.users[u] = n})
             info == [node |-> n, addr |-> store.nodes[n].addr, fresh |-> n \in F,
                      status |-> store.nodes[n].status, userCount |-> load]
  <2>1. StoredAs(i) = {n}
    BY <1>1, <1>3 DEF StoredAs, StoreNumbered
  <2>2. (CHOOSE x \in StoredAs(i) : TRUE) = n
    BY <2>1
  <2>3. fileservers'[i] = info
    BY <1>2, <2>1, <2>2 DEF Hydrate
  <2>4. load \in Nat
    <3>1. IsFiniteSet({u \in Users : store.users[u] = n})
      BY FS_Subset, MetaServerAssumption
    <3> QED BY <3>1, FS_CardinalityType
  <2> HIDE DEF load
  <2>5. info \in NodeInfos /\ info.node = n
    BY <1>1, <1>3, <2>4 DEF NodeInfos, Stores, NodeDocs
  <2> HIDE DEF info
  <2> QED BY <2>3, <2>5, NodeInfosAssumption
<1>4. ASSUME NEW i \in Numerics, fileservers'[i] # None
      PROVE  \E n \in NodeIds : /\ store.nodes[n] # None /\ store.nodes[n].num = i
                                /\ fileservers'[i].node = n
  <2>1. StoredAs(i) # {}
    BY <1>2, <1>4 DEF Hydrate
  <2> QED BY <1>3, <2>1 DEF StoredAs
<1> QED BY <1>3, <1>4

\* A restart takes homes and nodes over from the store, orphans included.
LEMMA DurableCrash ==
    ASSUME TableInv, DurableInv, Crash
    PROVE  DurableInv'
<1>1. /\ TypeInv /\ store \in Stores /\ pc \in [Callers -> Labels] /\ StoreNumbered(store)
      /\ None \notin Numerics /\ None \notin NodeIds
      /\ Modern /\ HomesAreRegistered
  BY MetaStoreAssumption DEF TableInv, RevocationInv, TypeInv, TypeOK, NumberInv, DurableInv
<1>2. /\ store' = store /\ upgraded' = upgraded
      /\ unsettled' = unsettled \cap (NodeIds \cup Homeless)
      /\ \A a \in Callers : pc'[a] \in {"idle", "in", "routed"}
  BY <1>1 DEF Crash
<1>3. \A a \in Callers : pc'[a] \notin Owing /\ pc'[a] \notin Renaming
  BY <1>2 DEF Owing, Registering, RegisterWriting, Dropping, Renaming
<1>4. PICK F : Hydrate(F)
  BY DEF Crash
<1>5. /\ \A n \in NodeIds : store.nodes[n] # None => store.nodes[n].num \in Numerics
      /\ \A u \in Users : store.users[u] # None => store.users[u] \in NodeIds
  BY <1>1 DEF Stores, NodeDocs
<1>6. /\ \A i \in Numerics : \A n \in NodeIds :
            store.nodes[n] # None /\ store.nodes[n].num = i =>
               fileservers'[i] # None /\ fileservers'[i].node = n
      /\ \A i \in Numerics : fileservers'[i] # None =>
            \E n \in NodeIds : store.nodes[n] # None /\ fileservers'[i].node = n
  BY HydratedTable
<1>8. \A n \in NodeIds : NodeAgrees(n)'
  BY <1>2, <1>5, <1>6 DEF NodeAgrees, Absent
<1>9. ASSUME NEW u \in Users PROVE HomeAgrees(u)'
  <2>1. /\ users'[u] = IF store.users[u] # None /\ store.nodes[store.users[u]] # None
                       THEN store.nodes[store.users[u]].num ELSE None
        /\ orphanedUsers'[u] = IF store.users[u] # None /\ store.nodes[store.users[u]] = None
                               THEN store.users[u] ELSE None
    BY <1>4 DEF Hydrate
  <2> QED BY <1>1, <1>2, <1>5, <1>6, <2>1 DEF HomeAgrees, MemoryHome
<1>10. \A a \in Callers : HomeFacts(a, pc[a], req[a])'
  BY <1>3, NoDebt
<1>11. HomesAreRegistered'
  BY <1>1, <1>2, <1>5 DEF HomesAreRegistered, Homeless
<1>12. Modern'
  <2>1. \A i \in Numerics : fileservers'[i] # None => fileservers'[i].node \in FsIds
    BY <1>1, <1>6 DEF Modern, NodeIds
  <2> QED BY <1>1, <1>2, <1>3, <2>1, CallersDisjoint DEF Modern
<1> QED BY <1>8, <1>9, <1>10, <1>11, <1>12 DEF DurableInv

\* Where no process starts without its fs_id, nothing is owed at first.
LEMMA DurableInit == ASSUME LegacyMachines = {}, Init PROVE DurableInv
<1>1. /\ None \notin LegacyIds
      /\ \A a \in Callers : pc[a] = "idle"
      /\ store.users = [u \in Users |-> None] /\ store.nodes = [n \in NodeIds |-> None]
      /\ fileservers = [i \in Numerics |-> None] /\ users = [u \in Users |-> None]
      /\ orphanedUsers = [u \in Users |-> None] /\ upgraded = Machines
  BY MetaStoreAssumption DEF Init, EmptyStore, NodeIds
<1>2. Modern
  BY <1>1, CallersDisjoint DEF Modern, Renaming, NodeIds
<1>3. (\A u \in Users : HomeAgrees(u)) /\ (\A n \in NodeIds : NodeAgrees(n))
  BY <1>1 DEF HomeAgrees, NodeAgrees, MemoryHome, Absent
<1>4. \A a \in Callers : HomeFacts(a, pc[a], req[a])
  BY <1>1, NoDebt DEF Owing, Registering, RegisterWriting, Dropping
<1>5. HomesAreRegistered
  BY <1>1 DEF HomesAreRegistered, Homeless
<1> QED BY <1>2, <1>3, <1>4, <1>5 DEF DurableInv

\* Every step keeps the account.
LEMMA DurableStep == ASSUME TableInv, TypeInv', DurableInv, [Next]_vars PROVE DurableInv'
<1>1. ASSUME NEW c \in Clients, ClientStep(c) PROVE DurableInv'
  BY <1>1, DurableOutside, DurablePlacement DEF ClientStep
<1> QED
  BY <1>1, DurableOutside, DurableRegister, DurableDeregister, DurableCrash DEF Next

\* The account is kept from the start.
LEMMA DurableInduction == ASSUME LegacyMachines = {} PROVE Spec => [](TableInv /\ DurableInv)
<1>1. Init => DurableInv
  BY DurableInit
<1>2. TableInv /\ TableInv' /\ DurableInv /\ [Next]_vars => DurableInv'
  BY DurableStep DEF TableInv, RevocationInv
<1>3. Spec => []TableInv
  BY TableInduction
<1> QED BY <1>1, <1>2, <1>3, PTL DEF Spec

\* Nobody owes anything while nobody holds the lock.
LEMMA DurableQuiet ==
    ASSUME TableInv, DurableInv, Quiet
    PROVE  /\ \A u \in Users \ unsettled : HomeAgrees(u)
           /\ \A n \in NodeIds \ unsettled : NodeAgrees(n)
<1>1. ASSUME NEW a \in Callers PROVE pc[a] \notin Owing
  BY <1>1, CallersAssumption DEF TableInv, RevocationInv, HolderOK, Holding, Owing, Quiet
<1>2. \A a \in Callers : Owed(a, pc[a], req[a]) = {}
  BY <1>1, NoDebt
<1> QED BY <1>2 DEF DurableInv

\* Where every process sends its fs_id, and for every number of nodes, users,
\* clients, failed writes, crashes and removals: once nobody is inside a
\* structural request, memory routes or orphans every user where the store homes
\* them, unless a failed request left that user in doubt.  A restart of the
\* metaserver therefore never routes a user away from their files.
THEOREM RoutesSurvive == ASSUME LegacyMachines = {} PROVE Spec => []RoutingIsDurable
<1>1. TableInv /\ DurableInv => RoutingIsDurable
  BY DurableQuiet DEF RoutingIsDurable, HomeAgrees
<1> QED BY <1>1, DurableInduction, PTL

\* Under the same hypothesis: once nobody is inside a structural request, memory
\* and the store agree on which nodes exist, unless a failed request left the
\* node in doubt: no late heartbeat or stale mark brings a removed node back, and
\* no registration is acknowledged before its document is written.
THEOREM NodesSurvive == ASSUME LegacyMachines = {} PROVE Spec => []NodeTableIsDurable
<1>1. \A n : Absent(fileservers, n) <=> ByNodeID(n) = {}
  BY DEF Absent, ByNodeID
<1>2. TableInv /\ DurableInv => NodeTableIsDurable
  BY <1>1, DurableQuiet DEF NodeTableIsDurable, NodeAgrees
<1> QED BY <1>2, DurableInduction, PTL

\* Under the same hypothesis, in every state, also in the middle of a request and
\* after any failed or half-applied write: the store never homes a user on a node
\* it does not have, unless a failed request left the user or the node in doubt.
THEOREM HomesHaveNodes == ASSUME LegacyMachines = {} PROVE Spec => []HomesAreRegistered
<1>1. TableInv /\ DurableInv => HomesAreRegistered
  BY DEF DurableInv
<1> QED BY <1>1, DurableInduction, PTL
=============================================================================
