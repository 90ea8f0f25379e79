-------------------------- MODULE AdminServerProofs --------------------------
(***************************************************************************)
(* The admin backend with everything that goes on in it at once: what the  *)
(* alert engine keeps true under the calls the console makes, that it is   *)
(* the board of AlertBoard, that the locks of the orchestrator are owned,  *)
(* and that a removed node is gone and stays hidden.                       *)
(***************************************************************************)
EXTENDS AdminServer, AlertManagerProofs

AlertsInv == AlertInv /\ clock \in Nat

\* The ways a step of the console reaches the alert engine.
AlertCall ==
    \/ UNCHANGED <<alertVars, crashes>>
    \/ UNCHANGED crashes /\ \E u \in Users : \E e : CheckUserQuota(u, e, clock)
    \/ /\ UNCHANGED crashes
       /\ \E n \in FsIDs : \E h : /\ h.status # "offline" => h.metrics # None
                                  /\ CheckNodeHealth(n, h, clock)
    \/ UNCHANGED crashes /\ \E id : ResolveAlert(id)
    \/ UNCHANGED crashes /\ ResolveAll
    \/ LoadAlerts /\ crashes' = crashes + 1
-----------------------------------------------------------------------------
LEMMA StatusFacts ==
    ASSUME NEW m, NEW seen, computeNodeStatus(m, seen) # "offline"
    PROVE  m # None
BY DEF computeNodeStatus

\* updateNodeFailure and pollNode check a node only under a status that goes
\* with the metrics they have.
LEMMA PollCalls ==
    ASSUME NEW f \in FsIDs, updateNodeFailure(f) \/ pollNode(f)
    PROVE  AlertCall /\ UNCHANGED clock
<1>1. ASSUME updateNodeFailure(f)
      PROVE  AlertCall /\ UNCHANGED clock
  <2>1. PICK n, status, h :
          /\ status = computeNodeStatus(n.metrics, n.seen)
          /\ WriteNode(f, [n EXCEPT !.status = status])
          /\ h = [status |-> status, metrics |-> n.metrics, errPct |-> 0, restarted |-> FALSE]
          /\ CheckNodeHealth(f, h, clock)
    BY <1>1 DEF updateNodeFailure
  <2>2. h.status = status /\ h.metrics = n.metrics
    BY <2>1
  <2>3. h.status # "offline" => h.metrics # None
    BY <2>1, <2>2, StatusFacts
  <2>4. UNCHANGED <<clock, crashes>>
    BY <2>1 DEF WriteNode, pastVars
  <2> QED BY <2>1, <2>3, <2>4 DEF AlertCall
<1>2. ASSUME pollNode(f)
      PROVE  AlertCall /\ UNCHANGED clock
  <2>1. PICK r \in readings \ {None}, quota \in {polls[f].quotas, quotas} :
         LET n == Polled(f)
             m == [disk |-> r.disk, temp |-> r.temp, used |-> r.used, quota |-> quota]
             recent == n.metrics # None /\ clock > n.seen /\ clock - n.seen <= RateWindow
             status == computeNodeStatus(m, clock)
         IN  /\ WriteNode(f, [n EXCEPT !.metrics = m, !.seen = clock, !.status = status])
             /\ CheckNodeHealth(f, [status |-> status, metrics |-> m,
                                    restarted |-> r.anew /\ n.metrics # None,
                                    errPct |-> IF recent /\ ~r.anew THEN r.err ELSE 0], clock)
    BY <1>2 DEF pollNode
  <2>2. PICK m, status, h, nd :
          /\ status = computeNodeStatus(m, clock) /\ h.status = status /\ h.metrics = m
          /\ WriteNode(f, nd) /\ CheckNodeHealth(f, h, clock)
    BY <2>1
  <2>3. h.status # "offline" => h.metrics # None
    BY <2>2, StatusFacts
  <2>4. UNCHANGED <<clock, crashes>>
    BY <2>2 DEF WriteNode, pastVars
  <2> QED BY <2>2, <2>3, <2>4 DEF AlertCall
<1> QED BY <1>1, <1>2

LEMMA NextCalls ==
    ASSUME clock \in Nat, [Next]_vars
    PROVE  AlertCall /\ clock' \in Nat
<1>1. ASSUME NEW m \in Machines, NodeRegisters(m) \/ NodeHeartbeats(m)
      PROVE  AlertCall /\ clock' \in Nat
  BY <1>1 DEF NodeRegisters, NodeHeartbeats, AlertCall, pastVars
<1>2. CASE Tick
  BY <1>2 DEF Tick, AlertCall, pastVars
<1>3. CASE LoopStep
  <2>1. CASE RefreshLoad \/ RefreshApply \/ PollAllNodes \/ PollsEnd \/ SaveMetricsSnapshot
    BY <2>1 DEF RefreshLoad, RefreshApply, PollAllNodes, PollsEnd, SaveMetricsSnapshot, AlertCall, pastVars
  <2>2. ASSUME NEW u \in Users, RefreshQuota(u)
        PROVE  AlertCall /\ clock' \in Nat
    <3>1. CheckUserQuota(u, Exceeds(nodes[users[u]].metrics, u), clock) /\ UNCHANGED <<clock, crashes>>
      BY <2>2 DEF RefreshQuota, pastVars
    <3> QED BY <3>1 DEF AlertCall
  <2>3. ASSUME NEW f \in FsIDs, PollWithoutURL(f)
        PROVE  AlertCall /\ clock' \in Nat
    BY <2>3 DEF PollWithoutURL, WriteNode, AlertCall, pastVars
  <2>4. ASSUME NEW f \in FsIDs, updateNodeFailure(f) \/ pollNode(f)
        PROVE  AlertCall /\ clock' \in Nat
    BY <2>4, PollCalls
  <2> QED BY <1>3, <2>1, <2>2, <2>3, <2>4 DEF LoopStep
<1>4. ASSUME NEW o \in Operators, RequestStep(o)
      PROVE  AlertCall /\ clock' \in Nat
  BY <1>4 DEF RequestStep, RemoveLookup, RemoveById, CallDeregister, RemoveHide, QuotaLookup,
     CallSetQuota, CacheQuota, Quiet, AlertCall, pastVars
<1>5. CASE handleResolveAlert \/ handleResolveAllAlerts
  BY <1>5 DEF handleResolveAlert, handleResolveAllAlerts, Undisturbed, AlertCall, pastVars
<1>6. ASSUME NEW c \in Callers, handleActionExecute(c) \/ ActionProceeds(c)
      PROVE  AlertCall /\ clock' \in Nat
  BY <1>6 DEF handleActionExecute, ActionProceeds, Undisturbed, AlertCall, pastVars
<1>7. CASE Restart
  BY <1>7 DEF Restart, AlertCall
<1>8. CASE UNCHANGED vars
  BY <1>8 DEF vars, pastVars, AlertCall
<1> QED BY <1>1, <1>2, <1>3, <1>4, <1>5, <1>6, <1>7, <1>8 DEF Next
-----------------------------------------------------------------------------
(* The alert engine in the console. *)

LEMMA CallKeepsAlerts ==
    ASSUME AlertsInv, AlertCall
    PROVE  AlertInv' /\ NoneAdded
<1>1. AlertInv /\ clock \in Nat
  BY DEF AlertsInv
<1>2. CASE UNCHANGED <<alertVars, crashes>>
  BY <1>1, <1>2, AlertsUntouched
<1>3. CASE \E u \in Users : \E e : CheckUserQuota(u, e, clock)
  BY <1>1, <1>3, CheckUserQuotaStep
<1>4. CASE \E n \in FsIDs : \E h : /\ h.status # "offline" => h.metrics # None
                                   /\ CheckNodeHealth(n, h, clock)
  BY <1>1, <1>4, CheckNodeHealthStep
<1>5. CASE \E id : ResolveAlert(id)
  BY <1>1, <1>5, ResolveAlertStep
<1>6. CASE ResolveAll
  BY <1>1, <1>6, ResolveAllStep
<1>7. CASE LoadAlerts
  BY <1>1, <1>7, LoadAlertsStep
<1> QED BY <1>2, <1>3, <1>4, <1>5, <1>6, <1>7 DEF AlertCall

LEMMA AlertsInitially ==
    ASSUME Init
    PROVE  AlertsInv
<1>1. AlertInit /\ clock = 1
  BY DEF Init
<1>2. AlertInv
  BY <1>1, AlertsStart
<1> QED BY <1>1, <1>2 DEF AlertsInv

LEMMA AlertsStep ==
    ASSUME AlertsInv, [Next]_vars
    PROVE  AlertsInv' /\ NoneAdded
<1>1. AlertCall /\ clock' \in Nat
  BY NextCalls DEF AlertsInv
<1>2. AlertInv' /\ NoneAdded
  BY <1>1, CallKeepsAlerts
<1> QED BY <1>1, <1>2 DEF AlertsInv

\* What the last check of a condition found wrong is listed, for any number
\* of nodes, users and operators and any length of the log: through stale
\* pointers, changes of severity, resolutions and restarts.
THEOREM TroublesAreListed == Spec => []TroubleIsListed
<1>1. AlertsInv => TroubleIsListed
  BY AlertsListed DEF AlertsInv
<1>2. AlertsInv /\ [Next]_vars => AlertsInv'
  BY AlertsStep
<1>3. Init => AlertsInv
  BY AlertsInitially
<1> QED BY <1>1, <1>2, <1>3, PTL DEF Spec

\* A condition is never held active by an alert that is shown as resolved.
THEOREM ActiveConditionsAreOpen == Spec => []ActiveAlertsAreOpen
<1>1. AlertsInv => ActiveAlertsAreOpen
  BY AlertsOpen DEF AlertsInv
<1>2. AlertsInv /\ [Next]_vars => AlertsInv'
  BY AlertsStep
<1>3. Init => AlertsInv
  BY AlertsInitially
<1> QED BY <1>1, <1>2, <1>3, PTL DEF Spec

\* The condition that NoFlooding makes on the state: it is active at the
\* severity the last check found.
LEMMA SettledFacts ==
    ASSUME AlertInv, NEW k \in Conditions, trouble[k] # None,
           Cardinality(Unresolved(am.log, k)) = 1,
           am.active[k] # None => am.active[k].id \in Ids(am.log)
    PROVE  am.active[k] # None /\ am.active[k].sev = trouble[k]
<1>1. /\ EngineOK(am) /\ DOMAIN am.log = 1 .. Len(am.log) /\ Len(am.log) \in Nat
  BY EngineFacts, LenProperties DEF AlertInv
<1>2. /\ am.active[k] # None
      /\ \A i \in 1 .. Len(am.log) :
           am.log[i].id = am.active[k].id => OpenAbove(am.log, i, k, trouble[k])
  BY DEF AlertInv, TroubleAt
<1>3. PICK i \in 1 .. Len(am.log) : am.log[i].id = am.active[k].id
  BY <1>1, <1>2 DEF Ids
<1>4. PICK j \in 1 .. i : am.log[j].key = k /\ ~am.log[j].resolved /\ am.log[j].sev = trouble[k]
  BY <1>2, <1>3 DEF OpenAbove
<1>5. j \in 1 .. Len(am.log)
  BY <1>1, <1>3
<1>6. am.log[i].key = k /\ ~am.log[i].resolved /\ am.log[i].sev = am.active[k].sev
  BY <1>1, <1>2, <1>3 DEF EngineOK, ActiveOK
<1>7. PICK U : U = Unresolved(am.log, k)
  OBVIOUS
<1>8. i \in U /\ j \in U /\ U \subseteq 1 .. Len(am.log)
  BY <1>1, <1>4, <1>5, <1>6, <1>7 DEF Unresolved
<1>9. IsFiniteSet(U)
  <2>1. IsFiniteSet(1 .. Len(am.log))
    BY <1>1, FS_Interval
  <2> QED BY <1>8, <2>1, FS_Subset
<1>10. \E x : U = {x}
  BY <1>7, <1>9, FS_Singleton
<1>11. i = j
  BY <1>8, <1>10
<1> QED BY <1>2, <1>4, <1>6, <1>11

\* No step of the console adds an alert of a condition that is as it was and
\* is reported once.
THEOREM NeverFlooded == Spec => NoFlooding
<1> DEFINE Quiet1 ==
       \A k \in Conditions :
          /\ trouble[k] # None /\ trouble'[k] = trouble[k]
          /\ Cardinality(Unresolved(am.log, k)) = 1
          /\ am.active[k] # None => am.active[k].id \in Ids(am.log)
          => \A i \in DOMAIN am'.log : am'.log[i].id >= am.next => am'.log[i].key # k
<1>1. ASSUME AlertsInv, [Next]_vars
      PROVE  Quiet1
  <2>1. AlertInv /\ AlertInv' /\ NoneAdded
    BY <1>1, AlertsStep DEF AlertsInv
  <2>2. ASSUME NEW k \in Conditions,
               trouble[k] # None, trouble'[k] = trouble[k],
               Cardinality(Unresolved(am.log, k)) = 1,
               am.active[k] # None => am.active[k].id \in Ids(am.log),
               NEW i \in DOMAIN am'.log, am'.log[i].id >= am.next
        PROVE  am'.log[i].key # k
    <3>1. am.active[k] # None /\ am.active[k].sev = trouble'[k]
      BY <2>1, <2>2, SettledFacts
    <3>2. PICK t : t = am'
      OBVIOUS
    <3>3. EngineOK(t) /\ EngineOK(am)
      BY <2>1, <3>2 DEF AlertInv
    <3>4. DOMAIN t.log = 1 .. Len(t.log) /\ \A x \in 1 .. Len(t.log) : t.log[x] \in Alerts
      BY <3>3, EngineFacts, LenProperties
    <3>5. am.next \in Nat /\ t.log[i].id \in Nat
      BY <2>2, <3>2, <3>3, <3>4, EngineFacts DEF Alerts
    <3>6. t.log[i].key = k => t.log[i].id < am.next
      BY <2>1, <2>2, <3>1, <3>2, <3>4 DEF NoneAdded
    <3> QED BY <2>2, <3>2, <3>5, <3>6
  <2> QED BY <2>2
<1>2. AlertsInv /\ [Next]_vars => AlertsInv' /\ Quiet1
  BY <1>1, AlertsStep
<1>3. Init => AlertsInv
  BY AlertsInitially
<1>4. Quiet1 => [\A k \in Conditions :
          /\ trouble[k] # None /\ trouble'[k] = trouble[k]
          /\ Cardinality(Unresolved(am.log, k)) = 1
          /\ am.active[k] # None => am.active[k].id \in Ids(am.log)
          => \A i \in DOMAIN am'.log : am'.log[i].id >= am.next => am'.log[i].key # k]_vars
  OBVIOUS
<1> HIDE DEF Quiet1
<1> QED BY <1>2, <1>3, <1>4, PTL DEF Spec, NoFlooding
-----------------------------------------------------------------------------
(* The engine is a board. *)

\* What the board shows.
Shown == [k \in Conditions |-> IF am.active[k] = None THEN None ELSE am.active[k].sev]

LEMMA BoardSets ==
    /\ Board!NodeKinds = NodeKinds /\ Board!Conditions = Conditions
    /\ Board!Severities = Severities /\ Board!Shown = Severities \cup {None}
    /\ \A kind, of : Board!Condition(kind, of) = Condition(kind, of)
BY DEF Board!NodeKinds, NodeKinds, Board!Conditions, Conditions, Board!Severities, Severities,
   Board!Shown, Board!Condition, Condition

LEMMA ShownTyped ==
    ASSUME AlertInv'
    PROVE  Shown' \in [Conditions -> Severities \cup {None}]
<1>1. PICK t : t = am'
  OBVIOUS
<1>2. EngineOK(t)
  BY <1>1 DEF AlertInv
<1>3. \A k \in Conditions : t.active[k] # None => t.active[k].sev \in Severities
  BY <1>2, EngineFacts
<1> QED BY <1>1, <1>3 DEF Shown

LEMMA SameShown ==
    ASSUME NEW k \in Conditions, SameActive(am, am', k)
    PROVE  Shown'[k] = Shown[k]
BY DEF SameActive, Shown

\* A step that concerns the conditions K only is one of the board's.
LEMMA OnlyThese ==
    ASSUME AlertInv', NEW K, \A k \in Conditions \ K : SameActive(am, am', k), UNCHANGED crashes
    PROVE  Board!Only(K)
<1>1. Shown' \in [Conditions -> Severities \cup {None}]
  BY ShownTyped
<1>2. \A k \in Conditions \ K : Shown'[k] = Shown[k]
  BY SameShown
<1> QED BY <1>1, <1>2, BoardSets DEF Board!Only, Shown

LEMMA BoardStep ==
    ASSUME AlertsInv, AlertsInv', AlertCall
    PROVE  [Board!Next]_<<Shown, crashes>>
<1>1. AlertInv /\ AlertInv' /\ clock \in Nat /\ EngineOK(am) /\ EngineOK(am')
  BY DEF AlertsInv, AlertInv
<1>2. CASE UNCHANGED <<alertVars, crashes>>
  BY <1>2 DEF alertVars, Shown
<1>3. ASSUME NEW u \in Users, NEW e, CheckUserQuota(u, e, clock), UNCHANGED crashes
      PROVE  Board!Next
  <2>1. PICK k : k = Condition("quota", u)
    OBVIOUS
  <2>2. PICK t : t = UserQuota(am, u, e, clock)
    OBVIOUS
  <2>3. am' = t /\ k \in Conditions /\ About(am, t, {k})
    BY <1>1, <1>3, <2>1, <2>2, UserQuotaFacts DEF CheckUserQuota
  <2>4. Board!Only({k})
    BY <1>1, <1>3, <2>3, OnlyThese DEF About, Keeps
  <2>5. Shown'[k] # "critical"
    <3>1. CASE am'.active[k] = None
      BY <2>3, <3>1, NoneAssumption DEF Shown, Severities
    <3>2. CASE am'.active[k] # None
      <4>1. am'.active[k].sev \in Grade(k)
        BY <1>1, <2>3, <3>2 DEF EngineOK, ActiveOK
      <4>2. am'.active[k].sev = "warning"
        BY <2>1, <4>1 DEF Grade, Condition
      <4> QED BY <2>3, <3>2, <4>2 DEF Shown
    <3> QED BY <3>1, <3>2
  <2>6. Board!CheckUsers({u})
    <3>1. {Board!Condition("quota", v) : v \in {u}} = {k}
      BY <2>1, BoardSets
    <3>2. Board!Condition("quota", u) = k
      BY <2>1, BoardSets
    <3> QED BY <2>4, <2>5, <3>1, <3>2 DEF Board!CheckUsers, Shown
  <2> QED BY <2>6 DEF Board!Next
<1>4. ASSUME NEW n \in FsIDs, NEW h, CheckNodeHealth(n, h, clock), UNCHANGED crashes
      PROVE  Board!Next
  <2>1. PICK k : k = Condition("offline", n)
    OBVIOUS
  <2>2. PICK t : t = NodeHealth(am, n, h, clock)
    OBVIOUS
  <2>3. am' = t /\ k \in Conditions /\ Board!Condition("offline", n) = k
    BY <1>4, <2>1, <2>2, BoardSets DEF CheckNodeHealth, Condition, Conditions, NodeKinds
  <2>4. CASE h.status = "offline"
    <3>1. About(am, t, {k}) /\ Finds(am, t, k, "critical") /\ t.active[k].sev = "critical"
      <4>1. t = CheckOffline(am, n, clock)
        BY <2>2, <2>4 DEF NodeHealth
      <4> QED BY <1>1, <2>1, <4>1, OfflineFacts
    <3>2. Board!Only({k})
      BY <1>1, <1>4, <2>3, <3>1, OnlyThese DEF About, Keeps
    <3>3. t.active[k] # None
      BY <3>1, NoneAssumption DEF Finds, Severities
    <3>4. Shown'[k] = "critical"
      BY <2>3, <3>1, <3>3 DEF Shown
    <3>5. Board!FoundOffline(n)
      BY <2>3, <3>2, <3>4 DEF Board!FoundOffline, Shown
    <3> QED BY <3>5 DEF Board!Next
  <2>5. CASE h.status # "offline"
    <3>1. PICK K : K = {Condition(kind, n) : kind \in NodeKinds}
      OBVIOUS
    <3>2. About(am, t, K) /\ Finds(am, t, k, None)
      BY <1>1, <2>1, <2>2, <2>5, <3>1, HealthyFacts
    <3>3. Board!Only(K)
      BY <1>1, <1>4, <2>3, <3>2, OnlyThese DEF About, Keeps
    <3>4. Shown'[k] = None
      BY <2>3, <3>2 DEF Shown, Finds
    <3>5. K = {Board!Condition(kind, n) : kind \in Board!NodeKinds}
      BY <3>1, BoardSets
    <3>6. Board!FoundOnline(n)
      BY <2>3, <3>3, <3>4, <3>5 DEF Board!FoundOnline, Shown
    <3> QED BY <3>6 DEF Board!Next
  <2> QED BY <2>4, <2>5
<1>5. ASSUME NEW id, ResolveAlert(id), UNCHANGED crashes
      PROVE  [Board!Next]_<<Shown, crashes>>
  <2>1. /\ \A l \in Conditions : am'.active[l] # am.active[l] => am'.active[l] = None
        /\ \A k, l \in Conditions :
             am'.active[k] # am.active[k] /\ am'.active[l] # am.active[l] => k = l
    BY <1>1, <1>5, ResolveAlertStep
  <2>2. CASE \A l \in Conditions : am'.active[l] = am.active[l]
    BY <1>5, <2>2 DEF Shown
  <2>3. ASSUME NEW k \in Conditions, am'.active[k] # am.active[k]
        PROVE  Board!Next
    <3>1. \A l \in Conditions \ {k} : SameActive(am, am', l)
      BY <2>1, <2>3 DEF SameActive
    <3>2. Board!Only({k})
      BY <1>1, <1>5, <3>1, OnlyThese
    <3>3. Shown'[k] = None
      BY <2>1, <2>3 DEF Shown
    <3>4. Board!Resolve(k)
      BY <3>2, <3>3 DEF Board!Resolve, Shown
    <3> QED BY <3>4, BoardSets DEF Board!Next
  <2> QED BY <2>2, <2>3
<1>6. ASSUME ResolveAll, UNCHANGED crashes
      PROVE  Board!Next
  <2>1. am'.active = Calm
    BY <1>1, <1>6, ResolveAllStep
  <2>2. Board!Only(Conditions)
    BY <1>1, <1>6, OnlyThese
  <2>3. Shown' = [k \in Conditions |-> None]
    BY <2>1 DEF Shown, Calm
  <2>4. Board!ResolveAll
    BY <2>2, <2>3, BoardSets DEF Board!ResolveAll, Shown
  <2> QED BY <2>4 DEF Board!Next
<1>7. ASSUME crashes' = crashes + 1
      PROVE  Board!Next
  <2>1. Shown' \in [Conditions -> Severities \cup {None}]
    BY <1>1, ShownTyped
  <2>2. Board!Restart
    BY <1>7, <2>1, BoardSets DEF Board!Restart, Shown
  <2> QED BY <2>2 DEF Board!Next
<1> QED BY <1>2, <1>3, <1>4, <1>5, <1>6, <1>7 DEF AlertCall

\* The alert engine implements AlertBoard: a condition changes only when its
\* own node or user is checked, when an operator resolves it or when the
\* process restarts, whatever else the console does.
THEOREM EngineIsABoard == Spec => ImplementsBoard
<1>1. Init => Board!Init
  <2> SUFFICES ASSUME Init PROVE Board!Init
    OBVIOUS
  <2>1. am.active = Calm /\ crashes = 0
    BY DEF Init, AlertInit
  <2>2. Shown = [k \in Conditions |-> None]
    BY <2>1 DEF Shown, Calm
  <2> QED BY <2>1, <2>2, BoardSets DEF Board!Init, Shown
<1>2. AlertsInv /\ [Next]_vars => AlertsInv' /\ [Board!Next]_<<Shown, crashes>>
  <2> SUFFICES ASSUME AlertsInv, [Next]_vars
               PROVE  AlertsInv' /\ [Board!Next]_<<Shown, crashes>>
    OBVIOUS
  <2>1. AlertsInv' /\ AlertCall
    BY AlertsStep, NextCalls DEF AlertsInv
  <2> QED BY <2>1, BoardStep
<1>3. Init => AlertsInv
  BY AlertsInitially
<1>4. [Board!Next]_<<Shown, crashes>> =>
        [Board!Next]_<<[k \in Conditions |-> IF am.active[k] = None THEN None ELSE am.active[k].sev],
                       crashes>>
  BY DEF Shown
<1> QED BY <1>1, <1>2, <1>3, <1>4, PTL DEF Spec, ImplementsBoard, Board!Spec
-----------------------------------------------------------------------------
(* The orchestrator. *)

Acts == [pc : {"idle", "lock", "run", "release"}, id : Nat \cup {None}, todo : Seq(FsIDs),
         held : SUBSET FsIDs, running : SUBSET FsIDs, targets : SUBSET FsIDs, failed : SUBSET FsIDs]

\* How far an action is: it holds every node before it runs anything there.
ActFacts(a) ==
    /\ a.pc = "idle" => a.id = None /\ a.held = {} /\ a.running = {}
    /\ a.pc # "idle" => a.id \in 0 .. begun - 1
    /\ a.pc = "lock" => a.running = {} /\ a.targets \subseteq a.held \cup ToSet(a.todo)
    /\ a.pc = "run" => a.running \subseteq a.targets /\ a.targets \subseteq a.held
    /\ a.pc = "release" => a.running = {}

\* The locks are those the actions hold, and no two actions have the same id.
LockInv ==
    /\ begun \in Nat /\ activeNodes \in [FsIDs -> 0 .. begun - 1 \cup {None}]
    /\ acts \in [Callers -> Acts]
    /\ \A c \in Callers : ActFacts(acts[c])
    /\ \A c, d \in Callers : acts[c].id # None /\ acts[c].id = acts[d].id => c = d
    /\ \A c \in Callers : \A n \in acts[c].held : activeNodes[n] = acts[c].id
    /\ \A n \in FsIDs : activeNodes[n] # None =>
         \E c \in Callers : acts[c].id = activeNodes[n] /\ n \in acts[c].held

LEMMA LocksInitially ==
    ASSUME Init
    PROVE  LockInv
<1>1. /\ begun = 0 /\ activeNodes = [n \in FsIDs |-> None] /\ acts = [c \in Callers |-> Idle]
  BY DEF Init, ActionInit
<1>2. Idle \in Acts /\ ActFacts(Idle) /\ Idle.id = None /\ Idle.held = {}
  <2>1. <<>> \in Seq(FsIDs)
    BY EmptySeq
  <2> QED BY <2>1 DEF Idle, Acts, ActFacts
<1> QED BY <1>1, <1>2 DEF LockInv

\* An action that goes on with the id and the nodes it has.
LEMMA ActGoesOn ==
    ASSUME LockInv, NEW c \in Callers, NEW b \in Acts, ActFacts(b),
           b.id = acts[c].id, b.held = acts[c].held,
           acts' = [acts EXCEPT ![c] = b], UNCHANGED <<activeNodes, begun>>
    PROVE  LockInv'
<1>1. \A d \in Callers : ActFacts(acts[d])'
  BY DEF LockInv, ActFacts
<1>2. acts' \in [Callers -> Acts] /\ \A d \in Callers : acts'[d].id = acts[d].id /\ acts'[d].held = acts[d].held
  BY DEF LockInv
<1> QED BY <1>1, <1>2 DEF LockInv

LEMMA StartLocks ==
    ASSUME LockInv, NEW c \in Callers, NEW listed, StartAction(c, listed)
    PROVE  LockInv'
<1>1. PICK todo \in SeqOf(FsIDs, MaxTargets) \ {<<>>} :
        acts' = [acts EXCEPT ![c] = [Idle EXCEPT !.pc = "lock", !.id = begun, !.todo = todo,
                                                 !.targets = ToSet(todo) \cap listed]]
  BY DEF StartAction
<1>2. todo \in Seq(FsIDs)
  <2>1. PICK m \in 0 .. MaxTargets : todo \in [1 .. m -> FsIDs]
    BY <1>1 DEF SeqOf
  <2> QED BY <2>1, OrchestratorAssumption, SeqDef
<1>3. PICK b : b = [Idle EXCEPT !.pc = "lock", !.id = begun, !.todo = todo,
                                !.targets = ToSet(todo) \cap listed]
  OBVIOUS
<1>4. /\ b \in Acts /\ b.pc = "lock" /\ b.id = begun /\ b.held = {} /\ b.running = {}
      /\ b.targets \subseteq ToSet(b.todo)
  <2>1. ToSet(todo) \subseteq FsIDs
    BY <1>2, ElementOfSeq, LenProperties DEF ToSet
  <2> QED BY <1>2, <1>3, <2>1 DEF Acts, Idle, LockInv
<1>5. acts[c].pc = "idle" /\ begun' = begun + 1 /\ UNCHANGED activeNodes /\ begun \in Nat
  BY DEF StartAction, LockInv
<1>6. \A d \in Callers : acts'[d] = IF d = c THEN b ELSE acts[d]
  BY <1>1, <1>3 DEF LockInv
<1>7. acts' \in [Callers -> Acts]
  BY <1>1, <1>3, <1>4 DEF LockInv
<1>8. \A d \in Callers : acts[d].id = None \/ acts[d].id \in 0 .. begun - 1
  BY DEF LockInv, ActFacts
<1>9. \A d \in Callers : ActFacts(acts[d])'
  BY <1>4, <1>5, <1>6 DEF LockInv, ActFacts
<1>10. acts[c].id = None /\ acts[c].held = {} /\ None \notin Nat
  BY <1>5, AdminAssumption DEF LockInv, ActFacts
<1>11. \A d, e \in Callers : acts'[d].id # None /\ acts'[d].id = acts'[e].id => d = e
  BY <1>4, <1>5, <1>6, <1>8, <1>10 DEF LockInv
<1>12. \A d \in Callers : \A n \in acts'[d].held : activeNodes'[n] = acts'[d].id
  BY <1>4, <1>5, <1>6 DEF LockInv
<1>13. \A n \in FsIDs : activeNodes'[n] # None =>
         \E d \in Callers : acts'[d].id = activeNodes'[n] /\ n \in acts'[d].held
  <2> TAKE n \in FsIDs
  <2> HAVE activeNodes'[n] # None
  <2>1. PICK d \in Callers : acts[d].id = activeNodes[n] /\ n \in acts[d].held
    BY <1>5 DEF LockInv
  <2>2. d # c
    BY <1>10, <2>1
  <2> QED BY <1>5, <1>6, <2>1, <2>2
<1>14. begun' \in Nat /\ activeNodes' \in [FsIDs -> 0 .. begun' - 1 \cup {None}]
  BY <1>5 DEF LockInv
<1> QED BY <1>7, <1>9, <1>11, <1>12, <1>13, <1>14 DEF LockInv

LEMMA LockNodeLocks ==
    ASSUME LockInv, NEW c \in Callers, LockNode(c)
    PROVE  LockInv'
<1>1. PICK n : n = Head(acts[c].todo)
  OBVIOUS
<1>2. /\ acts[c] \in Acts /\ ActFacts(acts[c]) /\ acts[c].pc = "lock" /\ acts[c].todo \in Seq(FsIDs)
      /\ acts[c].todo # <<>> /\ UNCHANGED begun /\ acts[c].id \in 0 .. begun - 1
  BY DEF LockNode, LockInv, Acts, ActFacts
<1>3. n \in FsIDs /\ Tail(acts[c].todo) \in Seq(FsIDs)
  BY <1>1, <1>2, HeadTailProperties
<1>4. ToSet(acts[c].todo) \subseteq {n} \cup ToSet(Tail(acts[c].todo))
  <2>1. PICK s : s = acts[c].todo
    OBVIOUS
  <2>2. s \in Seq(FsIDs) /\ s # <<>> /\ n = Head(s)
    BY <1>1, <1>2, <2>1
  <2>3. /\ Len(Tail(s)) = Len(s) - 1 /\ Len(s) \in Nat /\ DOMAIN s = 1 .. Len(s)
        /\ DOMAIN Tail(s) = 1 .. Len(Tail(s)) /\ n = s[1]
        /\ \A i \in 1 .. Len(Tail(s)) : Tail(s)[i] = s[i + 1]
    BY <2>2, HeadTailProperties, LenProperties
  <2>4. ASSUME NEW i \in 1 .. Len(s), i # 1
        PROVE  s[i] \in ToSet(Tail(s))
    <3>1. i - 1 \in 1 .. Len(Tail(s)) /\ Tail(s)[i - 1] = s[i]
      BY <2>3, <2>4
    <3> QED BY <2>3, <3>1 DEF ToSet
  <2> QED BY <2>1, <2>3, <2>4 DEF ToSet
<1>5. CASE activeNodes[n] # None
  <2>1. PICK b : b = [acts[c] EXCEPT !.pc = "release"]
    OBVIOUS
  <2>2. acts' = [acts EXCEPT ![c] = b] /\ UNCHANGED activeNodes
    BY <1>1, <1>5, <2>1 DEF LockNode
  <2>3. b \in Acts /\ ActFacts(b) /\ b.id = acts[c].id /\ b.held = acts[c].held
    BY <1>2, <2>1 DEF Acts, ActFacts
  <2> QED BY <1>2, <2>2, <2>3, ActGoesOn
<1>6. CASE activeNodes[n] = None
  <2>1. PICK b : b = [acts[c] EXCEPT !.todo = Tail(@), !.held = @ \cup {n}]
    OBVIOUS
  <2>2. acts' = [acts EXCEPT ![c] = b] /\ activeNodes' = [activeNodes EXCEPT ![n] = acts[c].id]
    BY <1>1, <1>6, <2>1 DEF LockNode
  <2>3. /\ b \in Acts /\ b.id = acts[c].id /\ b.held = acts[c].held \cup {n} /\ b.pc = "lock"
        /\ b.running = acts[c].running /\ b.targets = acts[c].targets /\ b.todo = Tail(acts[c].todo)
    BY <1>2, <1>3, <2>1 DEF Acts
  <2>4. ActFacts(b)
    BY <1>2, <1>4, <2>3 DEF ActFacts
  <2>5. \A d \in Callers : acts'[d] = IF d = c THEN b ELSE acts[d]
    BY <2>2 DEF LockInv
  <2>6. acts' \in [Callers -> Acts]
    BY <2>2, <2>3 DEF LockInv
  <2>7. \A d \in Callers : ActFacts(acts[d])'
    BY <1>2, <2>4, <2>5 DEF LockInv, ActFacts
  <2>8. \A d, e \in Callers : acts'[d].id # None /\ acts'[d].id = acts'[e].id => d = e
    BY <2>3, <2>5 DEF LockInv
  <2>9. /\ activeNodes' \in [FsIDs -> 0 .. begun' - 1 \cup {None}]
        /\ \A k \in FsIDs : activeNodes'[k] = IF k = n THEN acts[c].id ELSE activeNodes[k]
    BY <1>2, <1>3, <2>2 DEF LockInv
  <2>10. \A d \in Callers : \A k \in acts'[d].held : activeNodes'[k] = acts'[d].id
    <3>1. \A d \in Callers : n \notin acts[d].held
      <4> SUFFICES ASSUME NEW d \in Callers, n \in acts[d].held PROVE FALSE
        OBVIOUS
      <4>1. activeNodes[n] = acts[d].id
        BY DEF LockInv
      <4>2. acts[d].id = None /\ acts[d].pc # "idle"
        BY <1>6, <4>1 DEF LockInv, ActFacts
      <4> QED BY <4>2, AdminAssumption DEF LockInv, ActFacts
    <3>2. \A d \in Callers : acts[d].held \subseteq FsIDs
      BY DEF LockInv, Acts
    <3> SUFFICES ASSUME NEW d \in Callers, NEW k \in acts'[d].held
                 PROVE  activeNodes'[k] = acts'[d].id
      OBVIOUS
    <3>3. CASE k = n
      BY <1>3, <2>3, <2>5, <2>9, <3>1, <3>3
    <3>4. CASE k # n
      <4>1. k \in acts[d].held /\ acts'[d].id = acts[d].id
        BY <2>3, <2>5, <3>4
      <4> QED BY <2>9, <3>2, <3>4, <4>1 DEF LockInv
    <3> QED BY <3>3, <3>4
  <2>11. \A k \in FsIDs : activeNodes'[k] # None =>
           \E d \in Callers : acts'[d].id = activeNodes'[k] /\ k \in acts'[d].held
    BY <2>3, <2>5, <2>9 DEF LockInv
  <2> QED BY <1>2, <2>6, <2>7, <2>8, <2>9, <2>10, <2>11 DEF LockInv
<1> QED BY <1>5, <1>6

LEMMA ReleaseLocks ==
    ASSUME LockInv, NEW c \in Callers, ReleaseNode(c)
    PROVE  LockInv'
<1>1. /\ acts[c] \in Acts /\ ActFacts(acts[c]) /\ acts[c].pc = "release"
      /\ UNCHANGED begun /\ acts[c].id \in 0 .. begun - 1 /\ None \notin Nat
  BY AdminAssumption DEF ReleaseNode, LockInv, ActFacts
<1>2. CASE acts[c].held = {}
  <2>1. acts' = [acts EXCEPT ![c] = Idle] /\ UNCHANGED activeNodes
    BY <1>2 DEF ReleaseNode
  <2>2. Idle \in Acts /\ ActFacts(Idle) /\ Idle.id = None /\ Idle.held = {}
    <3>1. <<>> \in Seq(FsIDs)
      BY EmptySeq
    <3> QED BY <3>1 DEF Idle, Acts, ActFacts
  <2>3. \A d \in Callers : acts'[d] = IF d = c THEN Idle ELSE acts[d]
    BY <2>1 DEF LockInv
  <2>4. acts' \in [Callers -> Acts]
    BY <2>1, <2>2 DEF LockInv
  <2>5. \A d \in Callers : ActFacts(acts[d])'
    BY <1>1, <2>2, <2>3 DEF LockInv, ActFacts
  <2>6. \A d, e \in Callers : acts'[d].id # None /\ acts'[d].id = acts'[e].id => d = e
    BY <2>2, <2>3 DEF LockInv
  <2>7. \A d \in Callers : \A k \in acts'[d].held : activeNodes'[k] = acts'[d].id
    BY <2>1, <2>2, <2>3 DEF LockInv
  <2>8. \A k \in FsIDs : activeNodes'[k] # None =>
           \E d \in Callers : acts'[d].id = activeNodes'[k] /\ k \in acts'[d].held
    BY <1>2, <2>1, <2>3 DEF LockInv
  <2> QED BY <1>1, <2>1, <2>4, <2>5, <2>6, <2>7, <2>8 DEF LockInv
<1>3. CASE acts[c].held # {}
  <2>1. PICK n \in acts[c].held : /\ activeNodes' = [activeNodes EXCEPT ![n] = None]
                                  /\ acts' = [acts EXCEPT ![c].held = @ \ {n}]
    BY <1>3 DEF ReleaseNode
  <2>2. PICK b : b = [acts[c] EXCEPT !.held = @ \ {n}]
    OBVIOUS
  <2>3. acts' = [acts EXCEPT ![c] = b]
    BY <2>1, <2>2
  <2>4. /\ b \in Acts /\ b.id = acts[c].id /\ b.held = acts[c].held \ {n} /\ b.pc = "release"
        /\ b.running = acts[c].running
    BY <1>1, <2>2 DEF Acts
  <2>5. \A d \in Callers : acts'[d] = IF d = c THEN b ELSE acts[d]
    BY <2>3 DEF LockInv
  <2>6. acts' \in [Callers -> Acts]
    BY <2>3, <2>4 DEF LockInv
  <2>7. \A d \in Callers : ActFacts(acts[d])'
    BY <1>1, <2>4, <2>5 DEF LockInv, ActFacts
  <2>8. \A d, e \in Callers : acts'[d].id # None /\ acts'[d].id = acts'[e].id => d = e
    BY <2>4, <2>5 DEF LockInv
  <2>9. /\ activeNodes' \in [FsIDs -> 0 .. begun' - 1 \cup {None}]
        /\ \A k \in FsIDs : activeNodes'[k] = IF k = n THEN None ELSE activeNodes[k]
    BY <1>1, <2>1 DEF LockInv
  <2>10. \A d \in Callers : \A k \in acts'[d].held : activeNodes'[k] = acts'[d].id
    <3>1. \A d \in Callers : d # c => n \notin acts[d].held
      <4> SUFFICES ASSUME NEW d \in Callers, d # c, n \in acts[d].held PROVE FALSE
        OBVIOUS
      <4>1. activeNodes[n] = acts[d].id /\ activeNodes[n] = acts[c].id
        BY <2>1 DEF LockInv
      <4> QED BY <1>1, <4>1 DEF LockInv
    <3>2. \A d \in Callers : acts[d].held \subseteq FsIDs
      BY DEF LockInv, Acts
    <3> QED BY <2>4, <2>5, <2>9, <3>1, <3>2 DEF LockInv
  <2>11. \A k \in FsIDs : activeNodes'[k] # None =>
           \E d \in Callers : acts'[d].id = activeNodes'[k] /\ k \in acts'[d].held
    BY <2>4, <2>5, <2>9 DEF LockInv
  <2> QED BY <1>1, <2>6, <2>7, <2>8, <2>9, <2>10, <2>11 DEF LockInv
<1> QED BY <1>2, <1>3

LEMMA ActionLocks ==
    ASSUME LockInv, NEW c \in Callers, ActionStep(c)
    PROVE  LockInv'
<1>1. acts[c] \in Acts /\ ActFacts(acts[c])
  BY DEF LockInv
<1>2. CASE LockNode(c)
  BY <1>2, LockNodeLocks
<1>3. CASE RunAction(c)
  <2>1. PICK b : b = [acts[c] EXCEPT !.pc = "run", !.running = acts[c].targets]
    OBVIOUS
  <2>2. acts' = [acts EXCEPT ![c] = b] /\ UNCHANGED <<activeNodes, begun>>
    BY <1>3, <2>1 DEF RunAction
  <2>3. ToSet(acts[c].todo) = {}
    BY <1>3 DEF RunAction, ToSet
  <2>4. b \in Acts /\ ActFacts(b) /\ b.id = acts[c].id /\ b.held = acts[c].held
    BY <1>1, <1>3, <2>1, <2>3 DEF Acts, ActFacts, RunAction
  <2> QED BY <2>2, <2>4, ActGoesOn
<1>4. CASE RecordAction(c)
  <2>1. PICK b : b = [acts[c] EXCEPT !.pc = "release"]
    OBVIOUS
  <2>2. acts' = [acts EXCEPT ![c] = b] /\ UNCHANGED <<activeNodes, begun>>
    BY <1>4, <2>1 DEF RecordAction
  <2>3. b \in Acts /\ ActFacts(b) /\ b.id = acts[c].id /\ b.held = acts[c].held
    BY <1>1, <1>4, <2>1 DEF Acts, ActFacts, RecordAction
  <2> QED BY <2>2, <2>3, ActGoesOn
<1>5. CASE ReleaseNode(c)
  BY <1>5, ReleaseLocks
<1>6. ASSUME NEW n \in FsIDs, NEW result \in SSHRun, NodeFinishes(c, n, result)
      PROVE  LockInv'
  <2>1. PICK b : b = [acts[c] EXCEPT !.running = @ \ {n},
                                     !.failed = IF result = "zero" THEN @ ELSE @ \cup {n}]
    OBVIOUS
  <2>2. acts' = [acts EXCEPT ![c] = b] /\ UNCHANGED <<activeNodes, begun>> /\ acts[c].pc = "run"
    BY <1>6, <2>1 DEF NodeFinishes
  <2>3. b \in Acts /\ ActFacts(b) /\ b.id = acts[c].id /\ b.held = acts[c].held
    BY <1>1, <2>1, <2>2 DEF Acts, ActFacts
  <2> QED BY <2>2, <2>3, ActGoesOn
<1> QED BY <1>2, <1>3, <1>4, <1>5, <1>6 DEF ActionStep

LEMMA LoadLocks ==
    ASSUME LockInv, LoadHistory
    PROVE  LockInv'
<1>1. /\ begun' = begun /\ begun \in Nat /\ activeNodes' = [n \in FsIDs |-> None]
      /\ acts' = [c \in Callers |-> Idle]
  BY DEF LoadHistory, LockInv
<1>2. Idle \in Acts /\ ActFacts(Idle)' /\ Idle.id = None /\ Idle.held = {}
  <2>1. <<>> \in Seq(FsIDs)
    BY EmptySeq
  <2> QED BY <2>1 DEF Idle, Acts, ActFacts
<1> QED BY <1>1, <1>2 DEF LockInv
Commands == [id : Nat \cup {None}, nodes : SUBSET FsIDs, status : {"success", "failed"}]

\* The buffer holds what has ended last, going back from the write position.
Holds(rb, records) ==
    /\ rb = [data |-> rb.data, head |-> rb.head, count |-> rb.count]
    /\ DOMAIN rb.data = Slots /\ rb.head \in Slots /\ rb.count \in 0 .. HistoryLimit
    /\ rb.count = IF Len(records) < HistoryLimit THEN Len(records) ELSE HistoryLimit
    /\ \A i \in 1 .. rb.count :
         rb.data[(rb.head - i + HistoryLimit) % HistoryLimit] = records[i]

HistoryInv ==
    /\ finished \in Seq(Commands) /\ historyFile \in Seq(Commands)
    /\ Holds(history, finished)

LEMMA Wraps ==
    ASSUME NEW L \in Nat \ {0}
    PROVE  /\ \A n \in 0 .. L : n % L = IF n < L THEN n ELSE 0
           /\ \A h \in 0 .. L - 1, i \in 1 .. L :
                (h - i + L) % L = IF i <= h THEN h - i ELSE h - i + L
<1>1. ASSUME NEW n \in 0 .. L
      PROVE  n % L = IF n < L THEN n ELSE 0
  OBVIOUS
<1>2. ASSUME NEW h \in 0 .. L - 1, NEW i \in 1 .. L
      PROVE  (h - i + L) % L = IF i <= h THEN h - i ELSE h - i + L
  <2>1. PICK a : a = IF i <= h THEN h - i ELSE h - i + L
    OBVIOUS
  <2>2. a \in 0 .. L - 1 /\ (h - i + L = a \/ h - i + L = a + L)
    BY <2>1
  <2>3. a % L = a /\ (a + L) % L = a
    BY <2>2
  <2> QED BY <2>1, <2>2, <2>3
<1> QED BY <1>1, <1>2

LEMMA EmptyHolds == Holds(EmptyRing, <<>>)
BY RingAssumption DEF Holds, EmptyRing, Slots

LEMMA PushHolds ==
    ASSUME NEW rb, NEW records \in Seq(Commands), NEW x \in Commands, Holds(rb, records)
    PROVE  Holds(Push(rb, x), <<x>> \o records)
<1> DEFINE L == HistoryLimit
           r == Push(rb, x)
           more == <<x>> \o records
<1>1. L \in Nat \ {0} /\ Slots = 0 .. L - 1
  BY RingAssumption DEF Slots
<1>2. /\ DOMAIN rb.data = Slots /\ rb.head \in Slots /\ rb.count \in 0 .. L
      /\ rb.count = IF Len(records) < L THEN Len(records) ELSE L
      /\ \A i \in 1 .. rb.count : rb.data[(rb.head - i + L) % L] = records[i]
  BY DEF Holds
<1>3. Len(records) \in Nat /\ Len(more) = Len(records) + 1 /\ more[1] = x
      /\ \A i \in 2 .. Len(records) + 1 : more[i] = records[i - 1]
  <2>1. <<x>> \in Seq(Commands) /\ Len(<<x>>) = 1 /\ <<x>>[1] = x
    OBVIOUS
  <2>2. Len(records) \in Nat
    BY LenProperties
  <2> QED BY <2>1, <2>2, ConcatProperties
<1>4. /\ r.data = [rb.data EXCEPT ![rb.head] = x] /\ r.head = (rb.head + 1) % L
      /\ r.count = IF rb.count < L THEN rb.count + 1 ELSE rb.count
      /\ r = [data |-> r.data, head |-> r.head, count |-> r.count]
  BY DEF Push
<1>5. r.head = IF rb.head + 1 < L THEN rb.head + 1 ELSE 0
  <2>1. PICK n : n = rb.head + 1
    OBVIOUS
  <2>2. n \in 0 .. L
    BY <1>1, <1>2, <2>1
  <2>3. n % L = IF n < L THEN n ELSE 0
    BY <1>1, <2>2, Wraps
  <2> QED BY <1>4, <2>1, <2>3
<1>6. /\ DOMAIN r.data = Slots /\ r.head \in Slots /\ r.count \in 0 .. L
      /\ r.count = IF Len(more) < L THEN Len(more) ELSE L
  BY <1>1, <1>2, <1>3, <1>4, <1>5
<1>7. ASSUME NEW i \in 1 .. r.count
      PROVE  r.data[(r.head - i + L) % L] = more[i]
  <2>1. PICK s : s = (r.head - i + L) % L
    OBVIOUS
  <2>2. s = IF i <= r.head THEN r.head - i ELSE r.head - i + L
    <3>1. r.head \in 0 .. L - 1 /\ i \in 1 .. L
      BY <1>1, <1>6
    <3>2. (r.head - i + L) % L = IF i <= r.head THEN r.head - i ELSE r.head - i + L
      BY <1>1, <3>1, Wraps
    <3> QED BY <2>1, <3>2
  <2>3. CASE i = 1
    <3>1. s = rb.head
      BY <1>1, <1>2, <1>5, <2>2, <2>3
    <3> QED BY <1>2, <1>3, <1>4, <2>1, <2>3, <3>1
  <2>4. CASE i # 1
    <3>1. PICK j : j = i - 1
      OBVIOUS
    <3>2. j \in 1 .. rb.count /\ j < L /\ i \in 2 .. Len(records) + 1
      <4>1. PICK c, d, k : c = rb.count /\ d = r.count /\ k = Len(records)
        OBVIOUS
      <4>2. /\ c \in 0 .. L /\ k \in Nat /\ c = IF k < L THEN k ELSE L
            /\ d = IF c < L THEN c + 1 ELSE c
        BY <1>2, <1>3, <1>4, <4>1
      <4>3. i \in 1 .. d
        BY <4>1
      <4> QED BY <1>1, <2>4, <3>1, <4>1, <4>2, <4>3
    <3>3. rb.head \in 0 .. L - 1 /\ j \in 1 .. L
      BY <1>1, <1>2, <3>2
    <3>4. (rb.head - j + L) % L = IF j <= rb.head THEN rb.head - j ELSE rb.head - j + L
      BY <1>1, <3>3, Wraps
    <3>5. s = (rb.head - j + L) % L /\ s # rb.head /\ s \in Slots
      <4>1. PICK h, g : h = rb.head /\ g = r.head
        OBVIOUS
      <4>2. h \in 0 .. L - 1 /\ g = (IF h + 1 < L THEN h + 1 ELSE 0) /\ j \in 1 .. L
        BY <1>5, <3>3, <4>1
      <4>3. s = IF i <= g THEN g - i ELSE g - i + L
        BY <2>2, <4>1
      <4>4. s = (IF j <= h THEN h - j ELSE h - j + L) /\ s # h /\ s \in 0 .. L - 1
        BY <1>1, <2>4, <3>1, <3>2, <4>2, <4>3
      <4> QED BY <1>1, <3>4, <4>1, <4>4
    <3>6. rb.data[s] = records[j] /\ more[i] = records[j]
      BY <1>2, <1>3, <3>1, <3>2, <3>5
    <3> QED BY <1>2, <1>4, <2>1, <3>5, <3>6
  <2> QED BY <2>3, <2>4
<1> QED BY <1>4, <1>6, <1>7 DEF Holds

LEMMA LoadHolds ==
    ASSUME NEW records \in Seq(Commands)
    PROVE  Holds(LoadRing(records), records)
<1> DEFINE L == HistoryLimit
           r == LoadRing(records)
<1>1. L \in Nat \ {0} /\ Slots = 0 .. L - 1 /\ Len(records) \in Nat
  BY RingAssumption, LenProperties DEF Slots
<1>2. PICK n : n = IF Len(records) > L THEN L ELSE Len(records)
  OBVIOUS
<1>3. /\ r.data = [i \in Slots |-> IF i < n THEN records[n - i] ELSE NoEntry]
      /\ r.head = n % L /\ r.count = n
      /\ r = [data |-> r.data, head |-> r.head, count |-> r.count]
  BY <1>2 DEF LoadRing
<1>4. n \in 0 .. L /\ n = IF Len(records) < L THEN Len(records) ELSE L
  BY <1>1, <1>2
<1>5. r.head = IF n < L THEN n ELSE 0
  <2>1. n % L = IF n < L THEN n ELSE 0
    BY <1>1, <1>4, Wraps
  <2> QED BY <1>3, <2>1
<1>6. ASSUME NEW i \in 1 .. n
      PROVE  r.data[(r.head - i + L) % L] = records[i]
  <2>1. PICK h : h = r.head
    OBVIOUS
  <2>2. h \in 0 .. L - 1 /\ i \in 1 .. L /\ h = IF n < L THEN n ELSE 0
    BY <1>1, <1>4, <1>5, <2>1
  <2>3. (h - i + L) % L = IF i <= h THEN h - i ELSE h - i + L
    BY <1>1, <2>2, Wraps
  <2>4. (r.head - i + L) % L = n - i
    <3>1. (IF i <= h THEN h - i ELSE h - i + L) = n - i
      BY <1>1, <1>4, <2>2
    <3> QED BY <2>1, <2>3, <3>1
  <2>5. n - i \in Slots /\ n - i < n /\ n - (n - i) = i
    BY <1>1, <1>4
  <2> QED BY <1>3, <2>4, <2>5
<1>7. r.head \in Slots /\ DOMAIN r.data = Slots
  BY <1>1, <1>3, <1>4, <1>5
<1> QED BY <1>3, <1>4, <1>6, <1>7 DEF Holds

LEMMA HoldsAll ==
    ASSUME NEW rb, NEW records \in Seq(Commands), Holds(rb, records)
    PROVE  /\ GetAll(rb) \in Seq(Commands)
           /\ GetAll(rb) = SubSeq(records, 1, IF Len(records) < HistoryLimit
                                              THEN Len(records) ELSE HistoryLimit)
<1>1. HistoryLimit \in Nat \ {0} /\ Len(records) \in Nat
  BY RingAssumption, LenProperties
<1>2. PICK n : n = rb.count
  OBVIOUS
<1>3. /\ n = IF Len(records) < HistoryLimit THEN Len(records) ELSE HistoryLimit
      /\ n \in 0 .. Len(records) /\ n \in Nat
  BY <1>1, <1>2 DEF Holds
<1>4. GetAll(rb) = [i \in 1 .. n |-> records[i]]
  BY <1>2 DEF GetAll, Holds
<1>5. \A i \in 1 .. n : records[i] \in Commands
  BY <1>1, <1>3, ElementOfSeq
<1>6. [i \in 1 .. n |-> records[i]] \in Seq(Commands)
  BY <1>3, <1>5, SeqDef
<1>7. SubSeq(records, 1, n) = [i \in 1 .. n |-> records[i]]
  <2>1. /\ SubSeq(records, 1, n) \in Seq(Commands) /\ Len(SubSeq(records, 1, n)) = n
        /\ \A i \in 1 .. n : SubSeq(records, 1, n)[i] = records[i]
    BY <1>1, <1>3, SubSeqProperties
  <2>2. SubSeq(records, 1, n) = [i \in 1 .. Len(SubSeq(records, 1, n)) |-> SubSeq(records, 1, n)[i]]
    BY <2>1, LenProperties
  <2> QED BY <2>1, <2>2
<1> QED BY <1>3, <1>4, <1>6, <1>7

LEMMA HistoryInitially ==
    ASSUME Init
    PROVE  HistoryInv
<1>1. history = EmptyRing /\ historyFile = <<>> /\ finished = <<>>
  BY DEF Init, ActionInit
<1>2. <<>> \in Seq(Commands)
  BY EmptySeq
<1> QED BY <1>1, <1>2, EmptyHolds DEF HistoryInv

LEMMA RecordKeepsHistory ==
    ASSUME LockInv, HistoryInv, NEW c \in Callers, RecordAction(c)
    PROVE  HistoryInv'
<1>1. PICK x : x = CommandRecord(acts[c])
  OBVIOUS
<1>2. x \in Commands
  <2>1. acts[c] \in Acts
    BY DEF LockInv
  <2> QED BY <1>1, <2>1 DEF CommandRecord, Commands, Acts
<1>3. finished' = <<x>> \o finished /\ history' = Push(history, x)
  BY <1>1 DEF RecordAction
<1>4. PICK records : records = finished'
  OBVIOUS
<1>5. records \in Seq(Commands)
  <2>1. <<x>> \in Seq(Commands) /\ finished \in Seq(Commands)
    BY <1>2 DEF HistoryInv
  <2> QED BY <1>3, <1>4, <2>1, ConcatProperties
<1>6. PICK rb : rb = history'
  OBVIOUS
<1>7. Holds(rb, records)
  BY <1>2, <1>3, <1>4, <1>6, PushHolds DEF HistoryInv
<1>8. GetAll(rb) \in Seq(Commands)
  BY <1>5, <1>7, HoldsAll
<1>9. historyFile' \in Seq(Commands)
  BY <1>6, <1>8 DEF RecordAction, SaveHistory, HistoryInv
<1> QED BY <1>4, <1>5, <1>6, <1>7, <1>9 DEF HistoryInv

\* The ways a step of the console reaches the orchestrator.
ActionCall ==
    \/ UNCHANGED actionVars
    \/ \E c \in Callers : \E listed : StartAction(c, listed)
    \/ \E c \in Callers : ActionStep(c)
    \/ LoadHistory

LEMMA NextActs ==
    ASSUME [Next]_vars
    PROVE  ActionCall
<1>1. ASSUME NEW m \in Machines, NodeRegisters(m) \/ NodeHeartbeats(m)
      PROVE  ActionCall
  BY <1>1 DEF NodeRegisters, NodeHeartbeats, ActionCall
<1>2. CASE Tick
  BY <1>2 DEF Tick, ActionCall
<1>3. CASE LoopStep
  BY <1>3 DEF LoopStep, RefreshLoad, RefreshApply, RefreshQuota, PollAllNodes, PollsEnd,
     SaveMetricsSnapshot, PollWithoutURL, updateNodeFailure, pollNode, WriteNode, ActionCall
<1>4. ASSUME NEW o \in Operators, RequestStep(o)
      PROVE  ActionCall
  BY <1>4 DEF RequestStep, RemoveLookup, RemoveById, CallDeregister, RemoveHide, QuotaLookup,
     CallSetQuota, CacheQuota, Quiet, ActionCall
<1>5. CASE handleResolveAlert \/ handleResolveAllAlerts
  BY <1>5 DEF handleResolveAlert, handleResolveAllAlerts, ActionCall
<1>6. ASSUME NEW c \in Callers, handleActionExecute(c) \/ ActionProceeds(c)
      PROVE  ActionCall
  <2>1. (\E listed : StartAction(c, listed)) \/ ActionStep(c)
    BY <1>6 DEF handleActionExecute, ActionProceeds
  <2> QED BY <2>1 DEF ActionCall
<1>7. CASE Restart
  BY <1>7 DEF Restart, ActionCall
<1>8. CASE UNCHANGED vars
  BY <1>8 DEF vars, ActionCall
<1> QED BY <1>1, <1>2, <1>3, <1>4, <1>5, <1>6, <1>7, <1>8 DEF Next

LEMMA ActionsStep ==
    ASSUME LockInv, HistoryInv, [Next]_vars
    PROVE  LockInv' /\ HistoryInv'
<1>1. CASE UNCHANGED actionVars
  BY <1>1 DEF actionVars, LockInv, ActFacts, HistoryInv
<1>2. ASSUME NEW c \in Callers, NEW listed, StartAction(c, listed)
      PROVE  LockInv' /\ HistoryInv'
  <2>1. UNCHANGED <<history, historyFile, finished>>
    BY <1>2 DEF StartAction
  <2> QED BY <1>2, <2>1, StartLocks DEF HistoryInv
<1>3. ASSUME NEW c \in Callers, ActionStep(c)
      PROVE  LockInv' /\ HistoryInv'
  <2>1. LockInv'
    BY <1>3, ActionLocks
  <2>2. RecordAction(c) \/ UNCHANGED <<history, historyFile, finished>>
    BY <1>3 DEF ActionStep, LockNode, RunAction, ReleaseNode, NodeFinishes
  <2>3. HistoryInv'
    BY <2>2, RecordKeepsHistory DEF HistoryInv
  <2> QED BY <2>1, <2>3
<1>4. CASE LoadHistory
  <2>1. LockInv'
    BY <1>4, LoadLocks
  <2>2. Holds(LoadRing(historyFile), historyFile)
    BY LoadHolds DEF HistoryInv
  <2>3. HistoryInv'
    BY <1>4, <2>2 DEF LoadHistory, HistoryInv
  <2> QED BY <2>1, <2>3
<1>5. ActionCall
  BY NextActs
<1> QED BY <1>1, <1>2, <1>3, <1>4, <1>5 DEF ActionCall

LEMMA LocksOwned ==
    ASSUME LockInv
    PROVE  NodeLocksAreOwned
<1>1. None \notin Nat /\ begun \in Nat
  BY AdminAssumption DEF LockInv
<1>2. \A c \in Callers : acts[c] \in Acts /\ ActFacts(acts[c])
  BY DEF LockInv
<1>3. \A c \in Callers : acts[c].held \subseteq FsIDs /\ acts[c].running \subseteq acts[c].held
  BY <1>2 DEF Acts, ActFacts
<1>4. ASSUME NEW n \in FsIDs, NEW a \in 0 .. begun - 1
      PROVE  activeNodes[n] = a <=> \E c \in Callers : acts[c].id = a /\ n \in acts[c].held
  <2>1. a # None
    BY <1>1
  <2> QED BY <2>1 DEF LockInv
<1>5. ASSUME NEW c \in Callers, NEW d \in Callers, NEW n, n \in acts[c].held, n \in acts[d].held
      PROVE  c = d
  <2>1. activeNodes[n] = acts[c].id /\ activeNodes[n] = acts[d].id
    BY <1>5 DEF LockInv
  <2>2. acts[c].id # None
    BY <1>1, <1>2, <1>5 DEF ActFacts
  <2> QED BY <2>1, <2>2 DEF LockInv
<1> QED BY <1>3, <1>4, <1>5 DEF NodeLocksAreOwned

\* Execute: activeNodes names for every node the one action that holds it,
\* and commands run only on nodes their action holds, for any number of
\* requests, nodes and targets, however their steps and the steps of the rest
\* of the console are interleaved.
THEOREM LocksAreOwned == Spec => []NodeLocksAreOwned
<1>1. Init => LockInv /\ HistoryInv
  BY LocksInitially, HistoryInitially
<1>2. LockInv /\ HistoryInv /\ [Next]_vars => LockInv' /\ HistoryInv'
  BY ActionsStep
<1>3. LockInv => NodeLocksAreOwned
  BY LocksOwned
<1> QED BY <1>1, <1>2, <1>3, PTL DEF Spec

LEMMA HistoryExact ==
    ASSUME HistoryInv
    PROVE  HistoryIsExact
<1>1. PICK rb, records : rb = history /\ records = finished
  OBVIOUS
<1>2. records \in Seq(Commands) /\ Holds(rb, records)
  BY <1>1 DEF HistoryInv
<1>3. GetAll(rb) = SubSeq(records, 1, IF Len(records) < HistoryLimit
                                      THEN Len(records) ELSE HistoryLimit)
  BY <1>2, HoldsAll
<1> QED BY <1>1, <1>3 DEF HistoryIsExact

\* CommandHistory: the history shows the latest actions that have ended,
\* newest first and as many as fit, for every capacity, after any number of
\* turns of the buffer, failed writes of its file and restarts.
THEOREM HistoryStaysExact == Spec => []HistoryIsExact
<1>1. Init => LockInv /\ HistoryInv
  BY LocksInitially, HistoryInitially
<1>2. LockInv /\ HistoryInv /\ [Next]_vars => LockInv' /\ HistoryInv'
  BY ActionsStep
<1>3. HistoryInv => HistoryIsExact
  BY HistoryExact
<1> QED BY <1>1, <1>2, <1>3, PTL DEF Spec
-----------------------------------------------------------------------------
(* The list of nodes. *)

\* Number f has been given out, and no machine but m has it.
Belongs(f, m) == f < nextNum /\ \A o \in Machines : cluster[o] = f => o = m
\* Number f has been given out, and no machine has it any more.
Gone(f) == f < nextNum /\ \A o \in Machines : cluster[o] # f

RegistryInv ==
    /\ \A m \in Machines : cluster[m] # None => Belongs(cluster[m], m)
    /\ \A f \in FsIDs : beats[f] <= clock

\* A scrape that has begun has its node in the list, or has kept it.
PollInv ==
    /\ loop.pc # "wait" => polls = NoNodes
    /\ \A f \in FsIDs : polls[f] # None /\ polls[f].node = None => nodes[f] # None

\* A snapshot of the store is of the past.
SnapInv ==
    loop.pc = "apply" =>
        /\ loop.snap \in Snapshots
        /\ \A f \in FsIDs : loop.snap.beats[f] <= beats[f]
        /\ \A m \in Machines : loop.snap.cluster[m] # None => Belongs(loop.snap.cluster[m], m)

\* What is listed under a number belongs to it, and a removal that has come
\* to hide a node it could deregister has done so.
NumberedInv ==
    /\ \A f \in FsIDs : nodes[f] # None /\ nodes[f].machine # None => Belongs(f, nodes[f].machine)
    /\ \A o \in Operators :
         LET r == requests[o] IN
         /\ r.pc \in {"tls", "plain"} /\ r.quota = 0 /\ r.fsID # None => Belongs(r.fsID, r.machine)
         /\ r.pc = "hide" => r.fsID # None
         /\ r.pc = "hide" /\ MsAddr /\ r.machine # None => Gone(r.fsID)
         /\ r.pc = "cache" => r.fsID # None /\ r.path \in Users
         /\ r.pc \in {"tls", "plain"} /\ r.quota > 0 => r.fsID # None /\ r.path \in Users

\* What was hidden without a warning is gone.
GoneInv ==
    \A f \in FsIDs \ warned :
        removedNodes[f] # None \/ removedFile[f] # None \/ hidden[f] # None => Gone(f)

\* A node that was hidden has its tombstone, has been heard of since, or is
\* gone and in nothing that has been read of the store.
HiddenInv ==
    \A f \in FsIDs : hidden[f] # None =>
        /\ \/ removedNodes[f] = hidden[f]
           \/ beats[f] > hidden[f]
           \/ /\ Gone(f) /\ (refreshed => nodes[f] = None)
              /\ loop.pc = "apply" => \A m \in Machines : loop.snap.cluster[m] # f
        /\ refreshed /\ nodes[f] # None => beats[f] > hidden[f]

ConsoleInv ==
    /\ StoreTypeOK /\ ListTypeOK /\ LoopTypeOK
    /\ RegistryInv /\ PollInv /\ SnapInv /\ NumberedInv /\ GoneInv /\ HiddenInv

\* Belonging and being gone last: numbers are given out once.
LEMMA NumbersLast ==
    ASSUME NEW f \in FsIDs, nextNum \in Nat, nextNum' \in Nat, nextNum <= nextNum',
           \A o \in Machines : cluster'[o] = f /\ f < nextNum => cluster[o] = f
    PROVE  /\ \A m : Belongs(f, m) => Belongs(f, m)'
           /\ Gone(f) => Gone(f)'
<1>1. f \in Nat
  BY AdminAssumption
<1> QED BY <1>1 DEF Belongs, Gone

LEMMA NoneIsNoNumber == None \notin FsIDs /\ None \notin Nat
BY AdminAssumption

\* What the store does keeps what the console knows of it true.
LEMMA StoreMoves ==
    ASSUME ConsoleInv, StoreTypeOK', RegistryInv', nextNum <= nextNum',
           \A f \in FsIDs, o \in Machines : cluster'[o] = f /\ f < nextNum => cluster[o] = f,
           \A f \in FsIDs : beats[f] <= beats'[f],
           UNCHANGED <<nodes, users, removedNodes, removedFile, hidden, metricsFile, polls, loop,
                       requests, warned, refreshed>>
    PROVE  ConsoleInv'
<1>1. /\ nextNum \in Nat /\ nextNum' \in Nat
      /\ beats \in [FsIDs -> Nat] /\ beats' \in [FsIDs -> Nat]
  BY DEF ConsoleInv, StoreTypeOK
<1>2. ASSUME NEW f \in FsIDs
      PROVE  (\A o : Belongs(f, o) => Belongs(f, o)') /\ (Gone(f) => Gone(f)')
  BY <1>1, NumbersLast
<1>3. ListTypeOK' /\ LoopTypeOK' /\ PollInv'
  BY DEF ConsoleInv, ListTypeOK, LoopTypeOK, PollInv
<1>4. SnapInv'
  <2>1. PICK pc, snap : pc = loop.pc /\ snap = loop.snap
    OBVIOUS
  <2>2. CASE pc # "apply"
    BY <2>1, <2>2 DEF SnapInv
  <2>3. CASE pc = "apply"
    <3>1. /\ snap \in Snapshots
          /\ \A f \in FsIDs : snap.beats[f] <= beats[f]
          /\ \A o \in Machines : snap.cluster[o] # None => Belongs(snap.cluster[o], o)
      BY <2>1, <2>3 DEF ConsoleInv, SnapInv
    <3>2. /\ \A o \in Machines : snap.cluster[o] \in FsIDs \cup {None}
          /\ \A f \in FsIDs : snap.beats[f] \in Nat
      BY <3>1 DEF Snapshots, Clusters
    <3>3. \A o \in Machines : snap.cluster[o] # None => Belongs(snap.cluster[o], o)'
      <4> SUFFICES ASSUME NEW o \in Machines, snap.cluster[o] # None
                   PROVE  Belongs(snap.cluster[o], o)'
        OBVIOUS
      <4>1. PICK f : f = snap.cluster[o]
        OBVIOUS
      <4>2. f \in FsIDs /\ Belongs(f, o)
        BY <3>1, <3>2, <4>1
      <4>3. Belongs(f, o)'
        BY <1>2, <4>2
      <4> QED BY <4>1, <4>3
    <3>4. \A f \in FsIDs : snap.beats[f] <= beats'[f]
      BY <1>1, <3>1, <3>2
    <3>5. loop' = loop
      OBVIOUS
    <3> QED BY <2>1, <3>1, <3>3, <3>4, <3>5 DEF SnapInv
  <2> QED BY <2>2, <2>3
<1>5. NumberedInv'
  <2>1. \A o \in Operators : requests[o].fsID \in FsIDs \cup {None}
    BY DEF ConsoleInv, LoopTypeOK, Requests
  <2> QED BY <1>2, <2>1 DEF ConsoleInv, NumberedInv
<1>6. GoneInv'
  BY <1>2 DEF ConsoleInv, GoneInv
<1>7. HiddenInv'
  <2>1. \A f \in FsIDs : hidden[f] \in Nat \cup {None}
    BY DEF ConsoleInv, ListTypeOK, Times
  <2> QED BY <1>1, <1>2, <2>1 DEF ConsoleInv, HiddenInv
<1> QED BY <1>3, <1>4, <1>5, <1>6, <1>7 DEF ConsoleInv

LEMMA NodeRegistersStep ==
    ASSUME ConsoleInv, NEW m \in Machines, NodeRegisters(m)
    PROVE  ConsoleInv'
<1>1. /\ clock \in Nat /\ cluster \in Clusters /\ beats \in [FsIDs -> Nat] /\ nextNum \in Nat
      /\ nextNum \in FsIDs /\ clock' = clock /\ nextNum' = nextNum + 1
      /\ cluster' = [cluster EXCEPT ![m] = nextNum] /\ beats' = [beats EXCEPT ![nextNum] = clock]
  BY DEF ConsoleInv, StoreTypeOK, NodeRegisters
<1>2. UNCHANGED <<homes, quotas, readings, nodes, users, removedNodes, removedFile, hidden,
                  metricsFile, polls, loop, requests, warned, refreshed>>
  BY DEF NodeRegisters, listVars, loopVars, fileVars, pastVars
<1>3. /\ \A o \in Machines : cluster'[o] = IF o = m THEN nextNum ELSE cluster[o]
      /\ \A f \in FsIDs : beats'[f] = IF f = nextNum THEN clock ELSE beats[f]
  BY <1>1 DEF Clusters
<1>4. \A f \in FsIDs : beats[f] <= beats'[f] /\ beats'[f] <= clock
  BY <1>1, <1>3 DEF ConsoleInv, RegistryInv
<1>5. \A f \in FsIDs, o \in Machines : cluster'[o] = f /\ f < nextNum => cluster[o] = f
  BY <1>1, <1>3
<1>6. StoreTypeOK'
  BY <1>1, <1>2 DEF ConsoleInv, StoreTypeOK, Clusters
<1>7. RegistryInv'
  <2>1. \A n \in Machines : cluster[n] # None => /\ cluster[n] \in Nat /\ cluster[n] < nextNum
                                                 /\ \A o \in Machines : cluster[o] = cluster[n] => o = n
    BY <1>1, AdminAssumption DEF ConsoleInv, RegistryInv, Belongs, Clusters
  <2>2. ASSUME NEW o \in Machines, cluster'[o] # None
        PROVE  /\ cluster'[o] < nextNum'
               /\ \A n \in Machines : cluster'[n] = cluster'[o] => n = o
    BY <1>1, <1>3, <2>1, <2>2, NoneIsNoNumber
  <2> QED BY <1>1, <1>4, <2>2 DEF RegistryInv, Belongs
<1> QED BY <1>1, <1>2, <1>4, <1>5, <1>6, <1>7, StoreMoves

LEMMA NodeHeartbeatsStep ==
    ASSUME ConsoleInv, NEW m \in Machines, NodeHeartbeats(m)
    PROVE  ConsoleInv'
<1>1. PICK b : b = cluster[m]
  OBVIOUS
<1>2. /\ clock \in Nat /\ beats \in [FsIDs -> Nat] /\ b \in FsIDs /\ nextNum \in Nat
      /\ UNCHANGED <<clock, cluster, nextNum>> /\ beats' = [beats EXCEPT ![b] = clock]
  BY <1>1 DEF ConsoleInv, StoreTypeOK, NodeHeartbeats, Clusters
<1>3. UNCHANGED <<homes, quotas, readings, nodes, users, removedNodes, removedFile, hidden,
                  metricsFile, polls, loop, requests, warned, refreshed>>
  BY DEF NodeHeartbeats, listVars, loopVars, fileVars, pastVars
<1>4. \A f \in FsIDs : beats[f] <= beats'[f] /\ beats'[f] <= clock
  BY <1>2 DEF ConsoleInv, RegistryInv
<1>5. StoreTypeOK'
  BY <1>2, <1>3 DEF ConsoleInv, StoreTypeOK
<1>6. RegistryInv'
  BY <1>2, <1>4 DEF ConsoleInv, RegistryInv, Belongs
<1> QED BY <1>2, <1>3, <1>4, <1>5, <1>6, StoreMoves

LEMMA TickStep ==
    ASSUME ConsoleInv, Tick
    PROVE  ConsoleInv'
<1>1. /\ clock \in Nat /\ beats \in [FsIDs -> Nat] /\ nextNum \in Nat /\ clock' = clock + 1
      /\ UNCHANGED <<cluster, beats, homes, nextNum, quotas, readings>>
  BY DEF ConsoleInv, StoreTypeOK, Tick, storeVars
<1>2. UNCHANGED <<nodes, users, removedNodes, removedFile, hidden, metricsFile, polls, loop,
                  requests, warned, refreshed>>
  BY DEF Tick, listVars, loopVars, fileVars, pastVars
<1>3. StoreTypeOK'
  BY <1>1 DEF ConsoleInv, StoreTypeOK
<1>4. RegistryInv'
  BY <1>1 DEF ConsoleInv, RegistryInv, Belongs
<1>5. \A f \in FsIDs : beats[f] <= beats'[f]
  BY <1>1
<1> QED BY <1>1, <1>2, <1>3, <1>4, <1>5, StoreMoves

LEMMA StoreStays ==
    ASSUME ConsoleInv, UNCHANGED <<clock, storeVars, readings>>
    PROVE  /\ StoreTypeOK' /\ RegistryInv' /\ UNCHANGED <<clock, cluster, beats, homes, nextNum, quotas>>
           /\ \A f, m : Belongs(f, m)' = Belongs(f, m)
           /\ \A f : Gone(f)' = Gone(f)
BY DEF ConsoleInv, StoreTypeOK, RegistryInv, Belongs, Gone, storeVars

LEMMA LoopTyped ==
    ASSUME ConsoleInv
    PROVE  /\ loop.pc \in {"start", "apply", "quotas", "poll", "wait", "idle"}
           /\ loop.snap \in Snapshots \cup {None} /\ loop.todo \subseteq Users
           /\ loop = [pc |-> loop.pc, snap |-> loop.snap, todo |-> loop.todo]
           /\ loop.pc # "wait" => polls = NoNodes
BY DEF ConsoleInv, LoopTypeOK, PollInv

\* The loop goes to another place where it has nothing of the store.
LEMMA LoopMoves ==
    ASSUME ConsoleInv, UNCHANGED <<clock, storeVars, readings>>,
           UNCHANGED <<nodes, users, removedNodes, removedFile, hidden, metricsFile, polls, requests,
                       warned, refreshed>>,
           loop.pc # "wait" \/ polls = NoNodes,
           NEW pc \in {"start", "quotas", "poll", "wait", "idle"},
           NEW snap \in Snapshots \cup {None}, NEW todo \in SUBSET Users,
           loop' = [pc |-> pc, snap |-> snap, todo |-> todo]
    PROVE  ConsoleInv'
<1>1. loop'.pc = pc /\ polls = NoNodes
  BY LoopTyped
<1>2. ListTypeOK' /\ LoopTypeOK'
  BY DEF ConsoleInv, ListTypeOK, LoopTypeOK
<1>3. PollInv' /\ SnapInv'
  BY <1>1 DEF ConsoleInv, PollInv, SnapInv, NoNodes
<1>4. NumberedInv' /\ GoneInv' /\ HiddenInv'
  BY <1>1, StoreStays DEF ConsoleInv, NumberedInv, GoneInv, HiddenInv
<1> QED BY <1>2, <1>3, <1>4, StoreStays DEF ConsoleInv

LEMMA RefreshLoadStep ==
    ASSUME ConsoleInv, RefreshLoad
    PROVE  ConsoleInv'
<1>1. /\ UNCHANGED <<clock, storeVars, readings>> /\ loop.pc \in {"start", "idle"}
      /\ UNCHANGED <<nodes, users, removedNodes, removedFile, hidden, metricsFile, polls, requests,
                     warned, refreshed>>
  BY DEF RefreshLoad, listVars, fileVars, pastVars
<1>2. CASE loop' = AfterRefresh
  <2>1. PICK pc \in {"idle", "poll"} : loop' = [pc |-> pc, snap |-> None, todo |-> {}]
    BY <1>2 DEF AfterRefresh, LoopAt
  <2> QED BY <1>1, <2>1, LoopMoves
<1>3. CASE loop' # AfterRefresh
  <2>1. PICK snap : snap = [cluster |-> cluster, beats |-> beats, homes |-> homes]
    OBVIOUS
  <2>2. loop' = [pc |-> "apply", snap |-> snap, todo |-> {}]
    BY <1>3, <2>1 DEF RefreshLoad, LoopAt
  <2>3. /\ snap \in Snapshots /\ snap.cluster = cluster /\ snap.beats = beats
        /\ loop'.pc = "apply" /\ loop'.snap = snap /\ polls = NoNodes
    BY <1>1, <2>1, <2>2, LoopTyped DEF ConsoleInv, StoreTypeOK, Snapshots
  <2>4. ListTypeOK' /\ LoopTypeOK'
    BY <1>1, <2>2, <2>3 DEF ConsoleInv, ListTypeOK, LoopTypeOK
  <2>5. PollInv'
    BY <1>1, <2>3 DEF ConsoleInv, PollInv, NoNodes
  <2>6. SnapInv'
    BY <1>1, <2>3, StoreStays DEF ConsoleInv, SnapInv, RegistryInv, StoreTypeOK
  <2>7. NumberedInv' /\ GoneInv'
    BY <1>1, StoreStays DEF ConsoleInv, NumberedInv, GoneInv
  <2>8. HiddenInv'
    BY <1>1, <2>3, StoreStays DEF ConsoleInv, HiddenInv, Gone
  <2> QED BY <1>1, <2>4, <2>5, <2>6, <2>7, <2>8, StoreStays DEF ConsoleInv
<1> QED BY <1>2, <1>3

LEMMA RefreshQuotaStep ==
    ASSUME ConsoleInv, NEW u \in Users, RefreshQuota(u)
    PROVE  ConsoleInv'
<1>1. /\ UNCHANGED <<clock, storeVars, readings>> /\ loop.pc = "quotas"
      /\ UNCHANGED <<nodes, users, removedNodes, removedFile, hidden, metricsFile, polls, requests,
                     warned, refreshed>>
  BY DEF RefreshQuota, listVars, fileVars, pastVars
<1>2. CASE loop' = AfterRefresh
  <2>1. PICK pc \in {"idle", "poll"} : loop' = [pc |-> pc, snap |-> None, todo |-> {}]
    BY <1>2 DEF AfterRefresh, LoopAt
  <2> QED BY <1>1, <2>1, LoopMoves
<1>3. CASE loop' # AfterRefresh
  <2>1. loop' = [loop EXCEPT !.todo = @ \ {u}]
    BY <1>3 DEF RefreshQuota
  <2>2. PICK snap \in Snapshots \cup {None}, todo \in SUBSET Users :
          loop' = [pc |-> "quotas", snap |-> snap, todo |-> todo]
    BY <1>1, <2>1, LoopTyped
  <2> QED BY <1>1, <2>2, LoopMoves
<1> QED BY <1>2, <1>3

LEMMA PollsEndStep ==
    ASSUME ConsoleInv, PollsEnd
    PROVE  ConsoleInv'
<1>1. /\ UNCHANGED <<clock, storeVars, readings>> /\ polls = NoNodes
      /\ UNCHANGED <<nodes, users, removedNodes, removedFile, hidden, metricsFile, polls, requests,
                     warned, refreshed>>
      /\ loop' = [loop EXCEPT !.pc = "idle"]
  BY DEF PollsEnd, listVars, fileVars, pastVars
<1>2. PICK snap \in Snapshots \cup {None}, todo \in SUBSET Users :
        loop' = [pc |-> "idle", snap |-> snap, todo |-> todo]
  BY <1>1, LoopTyped
<1> QED BY <1>1, <1>2, LoopMoves

LEMMA PollAllNodesStep ==
    ASSUME ConsoleInv, PollAllNodes
    PROVE  ConsoleInv'
<1>1. /\ UNCHANGED <<clock, storeVars, readings>> /\ loop' = [loop EXCEPT !.pc = "wait"]
      /\ UNCHANGED <<nodes, users, removedNodes, removedFile, hidden, metricsFile, requests,
                     warned, refreshed>>
      /\ polls' = [f \in FsIDs |-> IF nodes[f] = None THEN None
                                   ELSE [node |-> None, quotas |-> quotas]]
  BY DEF PollAllNodes, listVars, fileVars, pastVars
<1>2. loop'.pc = "wait" /\ LoopTypeOK'
  BY <1>1, LoopTyped DEF ConsoleInv, LoopTypeOK
<1>3. [node |-> None, quotas |-> quotas] \in Scrapes
  BY DEF ConsoleInv, StoreTypeOK, Scrapes
<1>4. ListTypeOK'
  BY <1>1, <1>3 DEF ConsoleInv, ListTypeOK
<1>5. PollInv' /\ SnapInv'
  BY <1>1, <1>2 DEF PollInv, SnapInv
<1>6. NumberedInv' /\ GoneInv' /\ HiddenInv'
  BY <1>1, <1>2, StoreStays DEF ConsoleInv, NumberedInv, GoneInv, HiddenInv
<1> QED BY <1>1, <1>2, <1>4, <1>5, <1>6, StoreStays DEF ConsoleInv

LEMMA SaveMetricsStep ==
    ASSUME ConsoleInv, SaveMetricsSnapshot
    PROVE  ConsoleInv'
<1>1. /\ UNCHANGED <<clock, storeVars, readings>>
      /\ UNCHANGED <<nodes, users, removedNodes, removedFile, hidden, polls, requests, loop,
                     warned, refreshed>>
      /\ metricsFile' = [f \in FsIDs |->
            IF nodes[f] = None \/ nodes[f].metrics = None THEN None
            ELSE [seen |-> nodes[f].seen, metrics |-> nodes[f].metrics]]
  BY DEF SaveMetricsSnapshot, listVars, loopVars, pastVars
<1>2. metricsFile' \in [FsIDs -> [seen : Nat, metrics : Metrics] \cup {None}]
  <2>1. ASSUME NEW f \in FsIDs, nodes[f] # None, nodes[f].metrics # None
        PROVE  nodes[f].seen \in Nat /\ nodes[f].metrics \in Metrics
    BY <2>1 DEF ConsoleInv, ListTypeOK, NodeStates
  <2> QED BY <1>1, <2>1
<1>3. ListTypeOK' /\ LoopTypeOK' /\ PollInv' /\ SnapInv'
  BY <1>1, <1>2, StoreStays DEF ConsoleInv, ListTypeOK, LoopTypeOK, PollInv, SnapInv
<1>4. NumberedInv' /\ GoneInv' /\ HiddenInv'
  BY <1>1, StoreStays DEF ConsoleInv, NumberedInv, GoneInv, HiddenInv
<1> QED BY <1>1, <1>3, <1>4, StoreStays DEF ConsoleInv

\* What a write of the tombstones can leave in their file.
LEMMA TombsWritten ==
    ASSUME removedFile \in Times, removedNodes' \in Times, SaveRemovedNodes
    PROVE  /\ removedFile' \in Times
           /\ \A f \in FsIDs : removedFile'[f] # None => \/ removedNodes'[f] # None
                                                         \/ removedFile[f] # None
BY DEF SaveRemovedNodes, Times, NoNodes

LEMMA RefreshApplyStep ==
    ASSUME ConsoleInv, RefreshApply
    PROVE  ConsoleInv'
<1>1. PICK snap, tombs :
        /\ snap = loop.snap
        /\ tombs = [f \in FsIDs |->
                      IF RecordsOf(snap, f) # {} /\ ~IsRemoved(removedNodes[f], snap.beats[f])
                      THEN None ELSE removedNodes[f]]
  OBVIOUS
<1>2. /\ UNCHANGED <<clock, storeVars, readings>> /\ loop.pc = "apply"
      /\ UNCHANGED <<hidden, metricsFile, polls, requests, warned>>
      /\ users' = [u \in Users |-> IF snap.homes[u] = None THEN None
                                   ELSE snap.cluster[snap.homes[u]]]
      /\ removedNodes' = tombs /\ nodes' = Refreshed(snap, tombs)
      /\ (tombs = removedNodes /\ removedFile' = removedFile) \/ SaveRemovedNodes
  BY <1>1 DEF RefreshApply, fileVars, pastVars
<1>3. /\ snap \in Snapshots
      /\ \A f \in FsIDs : snap.beats[f] <= beats[f]
      /\ \A m \in Machines : snap.cluster[m] # None => Belongs(snap.cluster[m], m)
  BY <1>1, <1>2 DEF ConsoleInv, SnapInv
<1>4. /\ snap.cluster \in [Machines -> FsIDs \cup {None}] /\ snap.beats \in [FsIDs -> Nat]
      /\ snap.homes \in [Users -> Machines \cup {None}]
  BY <1>3 DEF Snapshots, Clusters, Homes
<1>5. tombs \in Times /\ \A f \in FsIDs : tombs[f] # None => tombs[f] = removedNodes[f]
  BY <1>1 DEF ConsoleInv, ListTypeOK, Times
<1>6. /\ removedFile' \in Times
      /\ \A f \in FsIDs : removedFile'[f] # None => tombs[f] # None \/ removedFile[f] # None
  BY <1>2, <1>5, TombsWritten DEF ConsoleInv, ListTypeOK
<1>7. ASSUME NEW f \in FsIDs
      PROVE  /\ nodes'[f] \in NodeStates \cup {None}
             /\ nodes'[f] # None => /\ tombs[f] = None /\ RecordsOf(snap, f) # {}
                                    /\ nodes'[f].machine \in RecordsOf(snap, f)
  <2>1. nodes'[f] = IF RecordsOf(snap, f) = {} \/ tombs[f] # None THEN None
                    ELSE LET m == CHOOSE m \in RecordsOf(snap, f) : TRUE
                         IN  IF nodes[f] = None THEN NewNode(m) ELSE [nodes[f] EXCEPT !.machine = m]
    BY <1>2 DEF Refreshed
  <2>2. CASE RecordsOf(snap, f) = {} \/ tombs[f] # None
    BY <2>1, <2>2
  <2>3. CASE RecordsOf(snap, f) # {} /\ tombs[f] = None
    <3>1. PICK m : m = CHOOSE o \in RecordsOf(snap, f) : TRUE
      OBVIOUS
    <3>2. m \in RecordsOf(snap, f) /\ m \in Machines
      BY <2>3, <3>1 DEF RecordsOf
    <3>3. nodes[f] \in NodeStates \cup {None}
      BY DEF ConsoleInv, ListTypeOK
    <3>4. NewNode(m) \in NodeStates /\ NewNode(m).machine = m
      BY <3>2 DEF NewNode, NodeStates
    <3>5. nodes[f] # None => /\ [nodes[f] EXCEPT !.machine = m] \in NodeStates
                             /\ [nodes[f] EXCEPT !.machine = m].machine = m
      BY <3>2, <3>3 DEF NodeStates
    <3> QED BY <2>1, <2>3, <3>1, <3>2, <3>4, <3>5
  <2> QED BY <2>2, <2>3
<1>8. users' \in [Users -> FsIDs \cup {None}]
  <2>1. ASSUME NEW u \in Users, snap.homes[u] # None
        PROVE  snap.cluster[snap.homes[u]] \in FsIDs \cup {None}
    BY <1>4, <2>1
  <2> QED BY <1>2, <2>1
<1>9. nodes' \in [FsIDs -> NodeStates \cup {None}]
  <2>1. nodes' = [f \in FsIDs |-> nodes'[f]]
    BY <1>2 DEF Refreshed
  <2> QED BY <1>7, <2>1
<1>10. ListTypeOK'
  BY <1>2, <1>5, <1>6, <1>8, <1>9 DEF ConsoleInv, ListTypeOK
<1>11. PICK pc \in {"idle", "poll", "quotas"}, todo \in SUBSET Users :
         loop' = [pc |-> pc, snap |-> None, todo |-> todo]
  <2>1. PICK seen \in SUBSET Users :
          loop' = IF seen = {} THEN AfterRefresh ELSE [LoopAt("quotas") EXCEPT !.todo = seen]
    BY DEF RefreshApply
  <2> QED BY <2>1 DEF AfterRefresh, LoopAt
<1>12. LoopTypeOK'
  BY <1>2, <1>11 DEF ConsoleInv, LoopTypeOK
<1>13. PollInv' /\ SnapInv'
  BY <1>2, <1>11, LoopTyped DEF PollInv, SnapInv, NoNodes
<1>14. NumberedInv'
  <2>1. ASSUME NEW f \in FsIDs, nodes'[f] # None
        PROVE  Belongs(f, nodes'[f].machine)
    <3>1. PICK m : m = nodes'[f].machine
      OBVIOUS
    <3>2. m \in Machines /\ snap.cluster[m] = f
      BY <1>7, <2>1, <3>1 DEF RecordsOf
    <3> QED BY <1>3, <3>1, <3>2, NoneIsNoNumber
  <2>2. \A f, m : Belongs(f, m)' = Belongs(f, m)
    BY <1>2, StoreStays
  <2>3. \A f \in FsIDs : nodes'[f] # None /\ nodes'[f].machine # None => Belongs(f, nodes[f].machine)'
    BY <1>2, <2>1, StoreStays DEF Belongs
  <2>4. \A f : Gone(f)' = Gone(f)
    BY <1>2, StoreStays
  <2> QED BY <1>2, <2>2, <2>3, <2>4 DEF ConsoleInv, NumberedInv
<1>15. GoneInv'
  BY <1>2, <1>5, <1>6, StoreStays DEF ConsoleInv, GoneInv
<1>16. HiddenInv'
  <2> SUFFICES ASSUME NEW f \in FsIDs, hidden[f] # None
               PROVE  /\ \/ tombs[f] = hidden[f]
                         \/ beats[f] > hidden[f]
                         \/ Gone(f) /\ nodes'[f] = None
                      /\ nodes'[f] # None => beats[f] > hidden[f]
    BY <1>2, <1>11, StoreStays DEF HiddenInv
  <2>1. /\ hidden[f] \in Nat /\ removedNodes[f] \in Nat \cup {None}
        /\ beats[f] \in Nat /\ snap.beats[f] \in Nat /\ snap.beats[f] <= beats[f]
    BY <1>3, <1>4 DEF ConsoleInv, StoreTypeOK, ListTypeOK, Times
  <2>2. tombs[f] = IF RecordsOf(snap, f) # {} /\ ~IsRemoved(removedNodes[f], snap.beats[f])
                   THEN None ELSE removedNodes[f]
    BY <1>1
  <2>3. CASE removedNodes[f] = hidden[f]
    BY <1>7, <2>1, <2>2, <2>3 DEF IsRemoved
  <2>4. CASE beats[f] > hidden[f]
    BY <2>4
  <2>5. CASE Gone(f) /\ \A m \in Machines : snap.cluster[m] # f
    BY <1>7, <2>5 DEF RecordsOf
  <2> QED BY <1>1, <1>2, <2>3, <2>4, <2>5 DEF ConsoleInv, HiddenInv
<1> QED BY <1>2, <1>10, <1>12, <1>13, <1>14, <1>15, <1>16, StoreStays DEF ConsoleInv

\* A scrape that ends with another state of the node it is about.
LEMMA WriteNodeStep ==
    ASSUME ConsoleInv, NEW f \in FsIDs, polls[f] # None,
           NEW n \in NodeStates, n.machine = Polled(f).machine, WriteNode(f, n)
    PROVE  ConsoleInv'
<1>1. /\ UNCHANGED <<clock, storeVars, readings>>
      /\ UNCHANGED <<users, removedNodes, removedFile, hidden, metricsFile, loop, requests,
                     warned, refreshed>>
      /\ nodes' = (IF polls[f].node = None THEN [nodes EXCEPT ![f] = n] ELSE nodes)
      /\ polls' = [polls EXCEPT ![f] = None]
  BY DEF WriteNode, fileVars, pastVars
<1>2. nodes \in [FsIDs -> NodeStates \cup {None}] /\ polls \in [FsIDs -> Scrapes \cup {None}]
  BY DEF ConsoleInv, ListTypeOK
<1>3. \A g \in FsIDs : /\ nodes'[g] = None <=> nodes[g] = None
                       /\ nodes'[g] # None => nodes'[g].machine = nodes[g].machine
  BY <1>1, <1>2, NodesAssumption DEF ConsoleInv, PollInv, Polled
<1>4. ListTypeOK' /\ LoopTypeOK'
  BY <1>1, <1>2 DEF ConsoleInv, ListTypeOK, LoopTypeOK
<1>5. PollInv'
  <2>1. loop.pc = "wait"
    BY LoopTyped DEF NoNodes
  <2>2. \A g \in FsIDs : polls'[g] # None => polls'[g] = polls[g]
    BY <1>1, <1>2
  <2> QED BY <1>1, <1>3, <2>1, <2>2 DEF ConsoleInv, PollInv
<1>6. SnapInv'
  BY <1>1, StoreStays DEF ConsoleInv, SnapInv
<1>7. NumberedInv'
  <2>1. \A g \in FsIDs : nodes'[g] # None /\ nodes'[g].machine # None => Belongs(g, nodes'[g].machine)
    BY <1>3 DEF ConsoleInv, NumberedInv
  <2>2. \A g \in FsIDs : nodes'[g] # None /\ nodes'[g].machine # None => Belongs(g, nodes[g].machine)'
    BY <1>1, <2>1, StoreStays DEF Belongs
  <2> QED BY <1>1, <2>2, StoreStays DEF ConsoleInv, NumberedInv
<1>8. GoneInv' /\ HiddenInv'
  BY <1>1, <1>3, StoreStays DEF ConsoleInv, GoneInv, HiddenInv
<1> QED BY <1>1, <1>4, <1>5, <1>6, <1>7, <1>8, StoreStays DEF ConsoleInv

LEMMA PolledTyped ==
    ASSUME ConsoleInv, NEW f \in FsIDs, polls[f] # None
    PROVE  /\ Polled(f) \in NodeStates /\ polls[f].quotas \in [Users -> Nat]
BY DEF ConsoleInv, ListTypeOK, PollInv, Polled, Scrapes

LEMMA StatusTyped ==
    ASSUME NEW m, NEW seen
    PROVE  computeNodeStatus(m, seen) \in {"online", "warning", "degraded", "critical", "offline"}
BY DEF computeNodeStatus

LEMMA PollStep ==
    ASSUME ConsoleInv, NEW f \in FsIDs, PollWithoutURL(f) \/ updateNodeFailure(f) \/ pollNode(f)
    PROVE  ConsoleInv'
<1>1. PICK old : old = Polled(f)
  OBVIOUS
<1>2. polls[f] # None /\ old \in NodeStates /\ polls[f].quotas \in [Users -> Nat]
  BY <1>1, PolledTyped DEF PollWithoutURL, updateNodeFailure, pollNode
<1>3. CASE PollWithoutURL(f)
  <2>1. PICK n : n = [old EXCEPT !.status = "offline"]
    OBVIOUS
  <2>2. n \in NodeStates /\ n.machine = old.machine
    BY <1>2, <2>1 DEF NodeStates
  <2>3. WriteNode(f, n)
    BY <1>1, <1>3, <2>1 DEF PollWithoutURL
  <2> QED BY <1>1, <1>2, <2>2, <2>3, WriteNodeStep
<1>4. CASE updateNodeFailure(f)
  <2>1. PICK status : status = computeNodeStatus(old.metrics, old.seen)
    OBVIOUS
  <2>2. PICK n : n = [old EXCEPT !.status = status]
    OBVIOUS
  <2>3. n \in NodeStates /\ n.machine = old.machine
    BY <1>2, <2>1, <2>2, StatusTyped DEF NodeStates
  <2>4. WriteNode(f, n)
    BY <1>1, <1>4, <2>1, <2>2 DEF updateNodeFailure
  <2> QED BY <1>1, <1>2, <2>3, <2>4, WriteNodeStep
<1>5. CASE pollNode(f)
  <2>1. PICK r \in readings \ {None}, quota \in {polls[f].quotas, quotas} :
          LET m == [disk |-> r.disk, temp |-> r.temp, used |-> r.used, quota |-> quota]
          IN  WriteNode(f, [old EXCEPT !.metrics = m, !.seen = clock,
                                       !.status = computeNodeStatus(m, clock)])
    BY <1>1, <1>5 DEF pollNode
  <2>2. PICK m : m = [disk |-> r.disk, temp |-> r.temp, used |-> r.used, quota |-> quota]
    OBVIOUS
  <2>3. r \in Readings /\ quotas \in [Users -> Nat] /\ clock \in Nat
    BY DEF ConsoleInv, StoreTypeOK
  <2>4. m \in Metrics
    BY <1>2, <2>1, <2>2, <2>3 DEF Readings, Metrics
  <2>5. PICK status : status = computeNodeStatus(m, clock)
    OBVIOUS
  <2>6. PICK n : n = [old EXCEPT !.metrics = m, !.seen = clock, !.status = status]
    OBVIOUS
  <2>7. n \in NodeStates /\ n.machine = old.machine
    <3>1. status \in {"online", "warning", "degraded", "critical", "offline"}
      BY <2>5, StatusTyped
    <3> QED BY <1>2, <2>3, <2>4, <2>6, <3>1 DEF NodeStates
  <2>8. WriteNode(f, n)
    BY <2>1, <2>2, <2>5, <2>6
  <2> QED BY <1>1, <1>2, <2>7, <2>8, WriteNodeStep
<1> QED BY <1>3, <1>4, <1>5

LEMMA RequestsTyped ==
    ASSUME ConsoleInv, NEW o \in Operators
    PROVE  /\ requests[o] \in Requests
           /\ requests[o].fsID \in FsIDs \cup {None} /\ requests[o].machine \in Machines \cup {None}
           /\ requests[o].quota \in Nat
BY DEF ConsoleInv, LoopTypeOK, Requests

\* What NumberedInv asks of one request.
RequestOK(r) ==
    /\ r.pc \in {"tls", "plain"} /\ r.quota = 0 /\ r.fsID # None => Belongs(r.fsID, r.machine)
    /\ r.pc = "hide" => r.fsID # None
    /\ r.pc = "hide" /\ MsAddr /\ r.machine # None => Gone(r.fsID)
    /\ r.pc = "cache" => r.fsID # None /\ r.path \in Users
    /\ r.pc \in {"tls", "plain"} /\ r.quota > 0 => r.fsID # None /\ r.path \in Users

\* A request that goes on while nothing else of the console changes.
LEMMA RequestMoves ==
    ASSUME ConsoleInv, NEW o \in Operators, NEW r \in Requests, RequestOK(r),
           requests' = [requests EXCEPT ![o] = r], UNCHANGED <<clock, storeVars, readings>>,
           UNCHANGED <<nodes, users, removedNodes, removedFile, hidden, metricsFile, polls, loop,
                       warned, refreshed>>
    PROVE  ConsoleInv'
<1>1. \A p \in Operators : requests'[p] = IF p = o THEN r ELSE requests[p]
  BY DEF ConsoleInv, LoopTypeOK
<1>2. ListTypeOK' /\ LoopTypeOK' /\ PollInv' /\ SnapInv'
  BY StoreStays DEF ConsoleInv, ListTypeOK, LoopTypeOK, PollInv, SnapInv
<1>3. NumberedInv'
  BY <1>1, StoreStays DEF ConsoleInv, NumberedInv, RequestOK
<1>4. GoneInv' /\ HiddenInv'
  BY StoreStays DEF ConsoleInv, GoneInv, HiddenInv
<1> QED BY <1>2, <1>3, <1>4, StoreStays DEF ConsoleInv

LEMMA LookupStep ==
    ASSUME ConsoleInv, NEW o \in Operators,
           \/ \E path \in FsIDs : RemoveLookup(o, path)
           \/ \E m \in Machines : RemoveById(o, m)
           \/ \E u \in Users, q \in 1 .. DefaultQuota : QuotaLookup(o, u, q)
    PROVE  ConsoleInv'
<1>1. /\ UNCHANGED <<clock, storeVars, readings>>
      /\ UNCHANGED <<nodes, users, removedNodes, removedFile, hidden, metricsFile, polls, loop,
                     warned, refreshed>>
  BY DEF RemoveLookup, RemoveById, QuotaLookup, Quiet, storeVars, listVars
<1>2. ASSUME NEW path \in FsIDs, RemoveLookup(o, path)
      PROVE  ConsoleInv'
  <2>1. PICK f \in Matches(path) :
          requests' = [requests EXCEPT ![o] =
            [NoRequest EXCEPT !.path = path, !.fsID = f, !.machine = nodes[f].machine,
                              !.pc = IF MsAddr /\ nodes[f].machine # None THEN "tls" ELSE "hide"]]
    BY <1>2 DEF RemoveLookup
  <2>2. f \in FsIDs /\ nodes[f] # None /\ f # None
    BY <2>1, NoneIsNoNumber DEF Matches
  <2>3. PICK m : m = nodes[f].machine
    OBVIOUS
  <2>4. m \in Machines \cup {None} /\ (m # None => Belongs(f, m))
    BY <2>2, <2>3 DEF ConsoleInv, ListTypeOK, NodeStates, NumberedInv
  <2>5. PICK r : r = [NoRequest EXCEPT !.path = path, !.fsID = f, !.machine = m,
                                       !.pc = IF MsAddr /\ m # None THEN "tls" ELSE "hide"]
    OBVIOUS
  <2>6. /\ r.pc = (IF MsAddr /\ m # None THEN "tls" ELSE "hide") /\ r.quota = 0
        /\ r.fsID = f /\ r.machine = m /\ r \in Requests
    BY <2>2, <2>4, <2>5 DEF NoRequest, Requests
  <2>7. RequestOK(r)
    BY <2>2, <2>4, <2>6 DEF RequestOK
  <2> QED BY <1>1, <2>1, <2>3, <2>5, <2>6, <2>7, RequestMoves
<1>3. ASSUME NEW m \in Machines, RemoveById(o, m)
      PROVE  ConsoleInv'
  <2>1. PICK r : r = [NoRequest EXCEPT !.machine = m, !.pc = "tls"]
    OBVIOUS
  <2>2. r \in Requests /\ RequestOK(r)
    <3>1. r \in Requests /\ r.pc = "tls" /\ r.quota = 0 /\ r.fsID = None
      BY <2>1 DEF NoRequest, Requests
    <3> QED BY <3>1 DEF RequestOK
  <2>3. requests' = [requests EXCEPT ![o] = r]
    BY <1>3, <2>1 DEF RemoveById
  <2> QED BY <1>1, <2>2, <2>3, RequestMoves
<1>4. ASSUME NEW u \in Users, NEW q \in 1 .. DefaultQuota, QuotaLookup(o, u, q)
      PROVE  ConsoleInv'
  <2>1. PICK r : r = [NoRequest EXCEPT !.pc = "tls", !.path = u, !.fsID = users[u], !.quota = q]
    OBVIOUS
  <2>2. users[u] \in FsIDs /\ users[u] # None /\ q \in Nat \ {0}
    <3>1. users[u] \in FsIDs /\ users[u] # None
      BY <1>4 DEF ConsoleInv, ListTypeOK, QuotaLookup
    <3>2. q \in Nat \ {0}
      BY AdminAssumption
    <3> QED BY <3>1, <3>2
  <2>3. r \in Requests /\ RequestOK(r)
    BY <2>1, <2>2 DEF NoRequest, Requests, RequestOK
  <2>4. requests' = [requests EXCEPT ![o] = r]
    BY <1>4, <2>1 DEF QuotaLookup
  <2> QED BY <1>1, <2>3, <2>4, RequestMoves
<1> QED BY <1>2, <1>3, <1>4

LEMMA CallDeregisterStep ==
    ASSUME ConsoleInv, NEW o \in Operators, CallDeregister(o)
    PROVE  ConsoleInv'
<1>1. PICK q : q = requests[o]
  OBVIOUS
<1>2. PICK answer, pc :
        /\ answer \in {"ok", "lost", "refused"} /\ Deregister(q.machine, answer)
        /\ pc = (IF answer = "ok" /\ q.fsID # None THEN "hide"
                 ELSE IF answer = "lost" /\ q.pc = "tls" THEN "plain" ELSE "idle")
        /\ requests' = [requests EXCEPT ![o].pc = pc]
  <2>1. PICK answer \in {"ok", "lost", "refused"} :
          /\ Deregister(q.machine, answer)
          /\ Goto(o, IF answer = "ok" /\ q.fsID # None THEN "hide"
                     ELSE IF answer = "lost" /\ q.pc = "tls" THEN "plain" ELSE "idle")
    BY <1>1 DEF CallDeregister
  <2> QED BY <2>1 DEF Goto
<1>3. /\ UNCHANGED <<clock, beats, nextNum, quotas, readings>>
      /\ UNCHANGED <<nodes, users, removedNodes, removedFile, hidden, metricsFile, polls, loop,
                     warned, refreshed>>
      /\ q.pc \in {"tls", "plain"} /\ q.quota = 0
  BY <1>1 DEF CallDeregister, Quiet, listVars
<1>4. q \in Requests /\ q.fsID \in FsIDs \cup {None}
  BY <1>1, RequestsTyped
<1>5. PICK r : r = [q EXCEPT !.pc = pc]
  OBVIOUS
<1>6. /\ r \in Requests /\ r.pc = pc /\ r.quota = 0 /\ r.fsID = q.fsID /\ r.machine = q.machine
      /\ requests' = [requests EXCEPT ![o] = r]
  BY <1>1, <1>2, <1>3, <1>4, <1>5 DEF Requests
<1>7. /\ cluster \in [Machines -> FsIDs \cup {None}] /\ homes \in Homes /\ nextNum \in Nat
      /\ clock \in Nat /\ beats \in [FsIDs -> Nat]
  BY DEF ConsoleInv, StoreTypeOK, Clusters
<1>8. /\ cluster' = [cluster EXCEPT ![q.machine] = None] \/ (cluster' = cluster /\ answer # "ok")
      /\ homes' \in {homes, Released(q.machine)}
  BY <1>2 DEF Deregister
<1>9. /\ cluster' \in [Machines -> FsIDs \cup {None}] /\ homes' \in Homes
      /\ \A m \in Machines : cluster'[m] = cluster[m] \/ cluster'[m] = None
      /\ answer = "ok" /\ q.machine \in Machines => cluster'[q.machine] = None
  BY <1>7, <1>8 DEF Homes, Released
<1>10. ASSUME NEW f \in FsIDs
       PROVE  (\A m : Belongs(f, m) => Belongs(f, m)') /\ (Gone(f) => Gone(f)')
  <2>1. \A m \in Machines : cluster'[m] = f /\ f < nextNum => cluster[m] = f
    BY <1>9, NoneIsNoNumber
  <2> QED BY <1>3, <1>7, <2>1, NumbersLast
<1>11. StoreTypeOK'
  BY <1>3, <1>9 DEF ConsoleInv, StoreTypeOK, Clusters
<1>12. RegistryInv'
  BY <1>3, <1>9 DEF ConsoleInv, RegistryInv, Belongs
<1>13. ListTypeOK' /\ LoopTypeOK' /\ PollInv'
  BY <1>3, <1>6 DEF ConsoleInv, ListTypeOK, LoopTypeOK, PollInv
<1>14. SnapInv'
  <2>1. CASE loop.pc # "apply"
    BY <1>3, <2>1 DEF SnapInv
  <2>2. CASE loop.pc = "apply"
    <3>1. PICK snap : snap = loop.snap
      OBVIOUS
    <3>2. /\ snap \in Snapshots
          /\ \A f \in FsIDs : snap.beats[f] <= beats[f]
          /\ \A m \in Machines : snap.cluster[m] # None => Belongs(snap.cluster[m], m)
      BY <2>2, <3>1 DEF ConsoleInv, SnapInv
    <3>3. \A m \in Machines : snap.cluster[m] \in FsIDs \cup {None}
      BY <3>2 DEF Snapshots, Clusters
    <3>4. \A m \in Machines : snap.cluster[m] # None => Belongs(snap.cluster[m], m)'
      <4> SUFFICES ASSUME NEW m \in Machines, snap.cluster[m] # None
                   PROVE  Belongs(snap.cluster[m], m)'
        OBVIOUS
      <4>1. PICK f : f = snap.cluster[m]
        OBVIOUS
      <4>2. Belongs(f, m)'
        BY <1>10, <3>2, <3>3, <4>1
      <4> QED BY <4>1, <4>2
    <3> QED BY <1>3, <3>1, <3>2, <3>4 DEF SnapInv
  <2> QED BY <2>1, <2>2
<1>15. NumberedInv'
  <2>1. \A p \in Operators : requests'[p] = IF p = o THEN r ELSE requests[p]
    BY <1>6 DEF ConsoleInv, LoopTypeOK
  <2>2. \A p \in Operators : p # o => RequestOK(requests[p])'
    <3> SUFFICES ASSUME NEW p \in Operators, p # o PROVE RequestOK(requests[p])'
      OBVIOUS
    <3>1. RequestOK(requests[p]) /\ requests[p].fsID \in FsIDs \cup {None}
      BY RequestsTyped DEF ConsoleInv, NumberedInv, RequestOK
    <3> QED BY <1>10, <2>1, <3>1 DEF RequestOK
  <2>3. q.fsID # None => Belongs(q.fsID, q.machine)
    BY <1>1, <1>3 DEF ConsoleInv, NumberedInv
  <2>4. RequestOK(r)'
    <3>1. CASE pc = "hide"
      <4>1. answer = "ok" /\ q.fsID # None /\ q.fsID \in FsIDs
        BY <1>2, <1>4, <3>1
      <4>2. q.machine # None => Gone(q.fsID)'
        <5> SUFFICES ASSUME q.machine # None PROVE Gone(q.fsID)'
          OBVIOUS
        <5>1. q.machine \in Machines /\ cluster'[q.machine] = None
          BY <1>4, <1>9, <4>1 DEF Requests
        <5>2. Belongs(q.fsID, q.machine)'
          BY <1>10, <2>3, <4>1
        <5> QED BY <4>1, <5>1, <5>2, NoneIsNoNumber DEF Belongs, Gone
      <4>3. q.machine # None => Gone(r.fsID)'
        BY <1>6, <4>2
      <4> QED BY <1>6, <3>1, <4>1, <4>3 DEF RequestOK
    <3>2. CASE pc = "plain"
      <4>1. q.fsID # None => Belongs(r.fsID, r.machine)'
        BY <1>4, <1>6, <1>10, <2>3
      <4> QED BY <1>6, <3>2, <4>1 DEF RequestOK
    <3>3. CASE pc = "idle"
      BY <1>6, <3>3 DEF RequestOK
    <3> QED BY <1>2, <3>1, <3>2, <3>3
  <2>5. \A f \in FsIDs : nodes'[f] # None /\ nodes'[f].machine # None => Belongs(f, nodes[f].machine)'
    BY <1>3, <1>10 DEF ConsoleInv, NumberedInv
  <2>6. \A p \in Operators : RequestOK(requests[p])'
    BY <2>1, <2>2, <2>4 DEF RequestOK
  <2> QED BY <2>5, <2>6 DEF NumberedInv, RequestOK
<1>16. GoneInv'
  BY <1>3, <1>10 DEF ConsoleInv, GoneInv
<1>17. HiddenInv'
  BY <1>3, <1>10 DEF ConsoleInv, HiddenInv
<1> QED BY <1>11, <1>12, <1>13, <1>14, <1>15, <1>16, <1>17 DEF ConsoleInv

LEMMA RemoveHideStep ==
    ASSUME ConsoleInv, NEW o \in Operators, RemoveHide(o)
    PROVE  ConsoleInv'
<1>1. PICK q, f, r : q = requests[o] /\ f = q.fsID /\ r = [q EXCEPT !.pc = "idle"]
  OBVIOUS
<1>2. /\ q.pc = "hide" /\ q \in Requests /\ f \in FsIDs
      /\ MsAddr /\ q.machine # None => Gone(f)
  BY <1>1, RequestsTyped DEF RemoveHide, ConsoleInv, NumberedInv
<1>3. /\ nodes' = [nodes EXCEPT ![f] = None]
      /\ polls' = (IF polls[f] # None /\ polls[f].node = None
                   THEN [polls EXCEPT ![f].node = nodes[f]] ELSE polls)
      /\ removedNodes' = [removedNodes EXCEPT ![f] = clock]
      /\ users' = [u \in Users |-> IF users[u] = f THEN None ELSE users[u]]
      /\ hidden' = [hidden EXCEPT ![f] = clock]
      /\ warned' = (IF MsAddr /\ q.machine # None THEN warned ELSE warned \cup {f})
      /\ SaveRemovedNodes /\ requests' = [requests EXCEPT ![o] = r]
  BY <1>1 DEF RemoveHide, Goto
<1>4. UNCHANGED <<clock, storeVars, readings>> /\ UNCHANGED <<loop, metricsFile, refreshed>>
  BY DEF RemoveHide, Quiet, storeVars
<1>5. /\ clock \in Nat /\ nodes \in [FsIDs -> NodeStates \cup {None}] /\ removedNodes \in Times
      /\ polls \in [FsIDs -> Scrapes \cup {None}] /\ hidden \in Times /\ removedFile \in Times
      /\ users \in [Users -> FsIDs \cup {None}]
  BY DEF ConsoleInv, StoreTypeOK, ListTypeOK
<1>6. /\ \A g \in FsIDs : /\ nodes'[g] = IF g = f THEN None ELSE nodes[g]
                          /\ removedNodes'[g] = IF g = f THEN clock ELSE removedNodes[g]
                          /\ hidden'[g] = IF g = f THEN clock ELSE hidden[g]
      /\ removedNodes' \in Times /\ hidden' \in Times /\ nodes' \in [FsIDs -> NodeStates \cup {None}]
      /\ users' \in [Users -> FsIDs \cup {None}]
  BY <1>2, <1>3, <1>5 DEF Times
<1>7. /\ removedFile' \in Times
      /\ \A g \in FsIDs : removedFile'[g] # None => removedNodes'[g] # None \/ removedFile[g] # None
  BY <1>3, <1>5, <1>6, TombsWritten
<1>8. /\ polls' \in [FsIDs -> Scrapes \cup {None}]
      /\ polls' # polls => loop.pc = "wait"
      /\ \A g \in FsIDs : polls'[g] # None /\ polls'[g].node = None => nodes'[g] # None
  <2>1. CASE polls[f] # None /\ polls[f].node = None
    <3>1. nodes[f] \in NodeStates /\ nodes[f] # None /\ loop.pc = "wait"
      BY <1>2, <1>5, <2>1, LoopTyped DEF ConsoleInv, PollInv, NoNodes
    <3>2. PICK p : p = [polls[f] EXCEPT !.node = nodes[f]]
      OBVIOUS
    <3>3. p \in Scrapes /\ p.node = nodes[f]
      BY <1>2, <1>5, <2>1, <3>1, <3>2 DEF Scrapes
    <3>4. polls' = [polls EXCEPT ![f] = p]
      BY <1>3, <2>1, <3>2
    <3>5. \A g \in FsIDs : polls'[g] = IF g = f THEN p ELSE polls[g]
      BY <1>5, <3>4
    <3> QED BY <1>2, <1>5, <1>6, <3>1, <3>3, <3>4, <3>5 DEF ConsoleInv, PollInv
  <2>2. CASE polls[f] = None \/ polls[f].node # None
    BY <1>3, <1>5, <1>6, <2>2 DEF ConsoleInv, PollInv
  <2> QED BY <2>1, <2>2
<1>9. r \in Requests /\ r.pc = "idle"
  BY <1>1, <1>2 DEF Requests
<1>10. ListTypeOK' /\ LoopTypeOK'
  BY <1>3, <1>4, <1>6, <1>7, <1>8, <1>9 DEF ConsoleInv, ListTypeOK, LoopTypeOK
<1>11. PollInv' /\ SnapInv'
  BY <1>4, <1>8, StoreStays DEF ConsoleInv, PollInv, SnapInv
<1>12. NumberedInv'
  <2>1. \A p \in Operators : requests'[p] = IF p = o THEN r ELSE requests[p]
    BY <1>3 DEF ConsoleInv, LoopTypeOK
  <2>2. \A g \in FsIDs : nodes'[g] # None => nodes'[g] = nodes[g]
    BY <1>6
  <2> QED BY <1>4, <1>9, <2>1, <2>2, StoreStays DEF ConsoleInv, NumberedInv
<1>13. GoneInv'
  <2>1. ASSUME NEW g \in FsIDs \ warned',
               removedNodes'[g] # None \/ removedFile'[g] # None \/ hidden'[g] # None
        PROVE  Gone(g)
    <3>1. CASE g = f
      BY <1>2, <1>3, <3>1
    <3>2. CASE g # f
      BY <1>3, <1>6, <1>7, <2>1, <3>2 DEF ConsoleInv, GoneInv
    <3> QED BY <3>1, <3>2
  <2> QED BY <1>4, <2>1, StoreStays DEF GoneInv
<1>14. HiddenInv'
  <2>1. None \notin Nat
    BY NoneIsNoNumber
  <2> QED BY <1>4, <1>5, <1>6, <2>1, StoreStays DEF ConsoleInv, HiddenInv
<1> QED BY <1>4, <1>10, <1>11, <1>12, <1>13, <1>14, StoreStays DEF ConsoleInv

LEMMA CallSetQuotaStep ==
    ASSUME ConsoleInv, NEW o \in Operators, CallSetQuota(o)
    PROVE  ConsoleInv'
<1>1. PICK q : q = requests[o]
  OBVIOUS
<1>2. /\ q \in Requests /\ q.quota \in Nat /\ q.quota > 0 /\ q.pc \in {"tls", "plain"}
      /\ q.fsID # None /\ q.path \in Users
  BY <1>1, RequestsTyped DEF CallSetQuota, ConsoleInv, NumberedInv
<1>3. PICK pc \in {"idle", "plain", "cache"} : requests' = [requests EXCEPT ![o].pc = pc]
  BY DEF CallSetQuota, Goto
<1>4. UNCHANGED <<clock, cluster, beats, homes, nextNum, readings, nodes, users, removedNodes,
                  removedFile, hidden, metricsFile, polls, loop, warned, refreshed>>
  BY DEF CallSetQuota, listVars, loopVars, fileVars, pastVars
<1>5. quotas' \in [Users -> Nat]
  BY <1>1, <1>2 DEF CallSetQuota, ConsoleInv, StoreTypeOK
<1>6. PICK r : r = [q EXCEPT !.pc = pc]
  OBVIOUS
<1>7. /\ r \in Requests /\ r.pc = pc /\ r.quota = q.quota /\ r.fsID = q.fsID /\ r.path = q.path
      /\ requests' = [requests EXCEPT ![o] = r]
  BY <1>1, <1>2, <1>3, <1>6 DEF Requests
<1>8. StoreTypeOK' /\ RegistryInv'
  BY <1>4, <1>5 DEF ConsoleInv, StoreTypeOK, RegistryInv, Belongs
<1>9. ListTypeOK' /\ LoopTypeOK' /\ PollInv' /\ SnapInv'
  BY <1>4, <1>7 DEF ConsoleInv, ListTypeOK, LoopTypeOK, PollInv, SnapInv, Belongs
<1>10. NumberedInv'
  <2>1. \A p \in Operators : requests'[p] = IF p = o THEN r ELSE requests[p]
    BY <1>7 DEF ConsoleInv, LoopTypeOK
  <2>2. /\ \A f, m : Belongs(f, m)' = Belongs(f, m)
        /\ \A f : Gone(f)' = Gone(f)
    BY <1>4 DEF Belongs, Gone
  <2>3. r.quota # 0 /\ r.pc # "hide" /\ r.fsID # None /\ r.path \in Users
    BY <1>2, <1>3, <1>7
  <2> QED BY <1>4, <2>1, <2>2, <2>3 DEF ConsoleInv, NumberedInv
<1>11. GoneInv' /\ HiddenInv'
  BY <1>4 DEF ConsoleInv, GoneInv, HiddenInv, Gone
<1> QED BY <1>8, <1>9, <1>10, <1>11 DEF ConsoleInv

LEMMA CacheQuotaStep ==
    ASSUME ConsoleInv, NEW o \in Operators, CacheQuota(o)
    PROVE  ConsoleInv'
<1>1. PICK q, f, r : q = requests[o] /\ f = q.fsID /\ r = [q EXCEPT !.pc = "idle"]
  OBVIOUS
<1>2. q \in Requests /\ f \in FsIDs /\ q.path \in Users /\ q.quota \in Nat
  BY <1>1, RequestsTyped DEF CacheQuota, ConsoleInv, NumberedInv
<1>3. /\ nodes' = (IF nodes[f] = None \/ nodes[f].metrics = None THEN nodes
                   ELSE [nodes EXCEPT ![f].metrics.quota[q.path] = q.quota])
      /\ requests' = [requests EXCEPT ![o] = r]
  BY <1>1 DEF CacheQuota, Goto
<1>4. /\ UNCHANGED <<clock, storeVars, readings>>
      /\ UNCHANGED <<users, removedNodes, removedFile, hidden, metricsFile, polls, loop, warned,
                     refreshed>>
  BY DEF CacheQuota, Quiet, storeVars
<1>5. nodes \in [FsIDs -> NodeStates \cup {None}]
  BY DEF ConsoleInv, ListTypeOK
<1>6. /\ nodes' \in [FsIDs -> NodeStates \cup {None}]
      /\ \A g \in FsIDs : /\ nodes'[g] = None <=> nodes[g] = None
                          /\ nodes'[g] # None => nodes'[g].machine = nodes[g].machine
  <2>1. CASE nodes[f] = None \/ nodes[f].metrics = None
    BY <1>3, <1>5, <2>1
  <2>2. CASE nodes[f] # None /\ nodes[f].metrics # None
    <3>1. nodes[f] \in NodeStates /\ nodes[f].metrics \in Metrics
      BY <1>2, <1>5, <2>2 DEF NodeStates
    <3>2. PICK m : m = [nodes[f].metrics EXCEPT !.quota[q.path] = q.quota]
      OBVIOUS
    <3>3. m \in Metrics
      BY <1>2, <3>1, <3>2 DEF Metrics
    <3>4. PICK n : n = [nodes[f] EXCEPT !.metrics = m]
      OBVIOUS
    <3>5. n \in NodeStates /\ n.machine = nodes[f].machine /\ n # None
      BY <3>1, <3>3, <3>4, NodesAssumption DEF NodeStates
    <3>6. nodes' = [nodes EXCEPT ![f] = n]
      BY <1>3, <2>2, <3>2, <3>4
    <3> QED BY <1>2, <1>5, <2>2, <3>5, <3>6
  <2> QED BY <2>1, <2>2
<1>7. r \in Requests /\ r.pc = "idle"
  BY <1>1, <1>2 DEF Requests
<1>8. ListTypeOK' /\ LoopTypeOK'
  BY <1>3, <1>4, <1>6, <1>7 DEF ConsoleInv, ListTypeOK, LoopTypeOK
<1>9. PollInv' /\ SnapInv'
  BY <1>4, <1>6, StoreStays DEF ConsoleInv, PollInv, SnapInv
<1>10. NumberedInv'
  <2>1. \A p \in Operators : requests'[p] = IF p = o THEN r ELSE requests[p]
    BY <1>3 DEF ConsoleInv, LoopTypeOK
  <2>2. \A g \in FsIDs : nodes'[g] # None /\ nodes'[g].machine # None => Belongs(g, nodes'[g].machine)
    BY <1>6 DEF ConsoleInv, NumberedInv
  <2>3. \A g \in FsIDs : nodes'[g] # None /\ nodes'[g].machine # None => Belongs(g, nodes[g].machine)'
    BY <1>4, <2>2, StoreStays DEF Belongs
  <2> QED BY <1>4, <1>7, <2>1, <2>3, StoreStays DEF ConsoleInv, NumberedInv
<1>11. GoneInv' /\ HiddenInv'
  BY <1>4, <1>6, StoreStays DEF ConsoleInv, GoneInv, HiddenInv
<1> QED BY <1>4, <1>8, <1>9, <1>10, <1>11, StoreStays DEF ConsoleInv

LEMMA RestartStep ==
    ASSUME ConsoleInv, Restart
    PROVE  ConsoleInv'
<1>1. /\ UNCHANGED <<clock, storeVars, readings>> /\ UNCHANGED <<removedFile, metricsFile, warned>>
      /\ nodes' = LoadMetricsSnapshot /\ users' = [u \in Users |-> None]
      /\ removedNodes' = removedFile /\ loop' = LoopAt("start") /\ polls' = NoNodes
      /\ refreshed' = FALSE /\ requests' = [o \in Operators |-> NoRequest]
      /\ hidden' = [f \in FsIDs |-> IF f \in warned THEN removedFile[f] ELSE hidden[f]]
  BY DEF Restart, fileVars
<1>2. ASSUME NEW f \in FsIDs
      PROVE  nodes'[f] \in NodeStates \cup {None} /\ (nodes'[f] # None => nodes'[f].machine = None)
  <2>1. metricsFile[f] \in [seen : Nat, metrics : Metrics] \cup {None}
    BY DEF ConsoleInv, ListTypeOK
  <2> QED BY <1>1, <2>1 DEF LoadMetricsSnapshot, NodeStates
<1>3. nodes' \in [FsIDs -> NodeStates \cup {None}]
  <2>1. nodes' = [f \in FsIDs |-> nodes'[f]]
    BY <1>1 DEF LoadMetricsSnapshot
  <2> QED BY <1>2, <2>1
<1>4. ListTypeOK'
  BY <1>1, <1>3 DEF ConsoleInv, ListTypeOK, Times, NoNodes
<1>5. /\ NoRequest \in Requests /\ NoRequest.pc = "idle" /\ loop'.pc = "start" /\ LoopTypeOK'
  BY <1>1 DEF NoRequest, Requests, LoopAt, LoopTypeOK
<1>6. PollInv' /\ SnapInv'
  BY <1>1, <1>5 DEF PollInv, SnapInv, NoNodes
<1>7. NumberedInv'
  BY <1>1, <1>2, <1>5 DEF NumberedInv
<1>8. GoneInv'
  BY <1>1, StoreStays DEF ConsoleInv, GoneInv
<1>9. HiddenInv'
  BY <1>1, <1>5, StoreStays DEF ConsoleInv, GoneInv, HiddenInv
<1> QED BY <1>1, <1>4, <1>5, <1>6, <1>7, <1>8, <1>9, StoreStays DEF ConsoleInv

LEMMA ConsoleInitially ==
    ASSUME Init
    PROVE  ConsoleInv
<1>1. PICK w \in Workloads :
        /\ cluster = [m \in Machines |-> IF m \in ToSet(w.registered)
                                        THEN (CHOOSE i \in DOMAIN w.registered : w.registered[i] = m) - 1
                                        ELSE None]
        /\ homes \in [Users -> ToSet(w.registered)] /\ nextNum = Len(w.registered)
        /\ readings = w.readings
  BY DEF Init
<1>2. PICK s : s = w.registered
  OBVIOUS
<1>3. /\ s \in Seq(Machines) /\ 0 .. Len(s) - 1 \subseteq FsIDs /\ readings \subseteq Readings \cup {None}
      /\ Len(s) \in Nat /\ DOMAIN s = 1 .. Len(s) /\ \A i \in 1 .. Len(s) : s[i] \in Machines
  BY <1>1, <1>2, WorkloadsAssumption, LenProperties, ElementOfSeq
<1>4. /\ clock = 1 /\ beats = [f \in FsIDs |-> 1] /\ quotas = [u \in Users |-> 0]
      /\ nodes = NoNodes /\ users = [u \in Users |-> None] /\ removedNodes = NoNodes
      /\ loop = LoopAt("start") /\ polls = NoNodes /\ refreshed = FALSE
      /\ removedFile = NoNodes /\ metricsFile = NoNodes
      /\ requests = [o \in Operators |-> NoRequest] /\ hidden = NoNodes /\ warned = {}
  BY DEF Init
<1>5. ASSUME NEW m \in Machines
      PROVE  \/ cluster[m] = None
             \/ \E i \in 1 .. Len(s) : s[i] = m /\ cluster[m] = i - 1
  <2>1. CASE m \notin ToSet(s)
    BY <1>1, <1>2, <2>1
  <2>2. CASE m \in ToSet(s)
    <3>1. PICK i : i = CHOOSE j \in DOMAIN s : s[j] = m
      OBVIOUS
    <3>2. \E j \in DOMAIN s : s[j] = m
      BY <2>2 DEF ToSet
    <3>3. i \in DOMAIN s /\ s[i] = m
      BY <3>1, <3>2
    <3>4. cluster[m] = i - 1
      BY <1>1, <1>2, <2>2, <3>1
    <3> QED BY <1>3, <3>3, <3>4
  <2> QED BY <2>1, <2>2
<1>6. cluster \in Clusters
  <2>1. \A m \in Machines : cluster[m] \in FsIDs \cup {None}
    BY <1>3, <1>5
  <2>2. cluster = [m \in Machines |-> cluster[m]]
    BY <1>1
  <2> QED BY <2>1, <2>2 DEF Clusters
<1>7. homes \in Homes
  <2>1. ToSet(s) \subseteq Machines
    BY <1>3 DEF ToSet
  <2> QED BY <1>1, <1>2, <2>1 DEF Homes
<1>8. StoreTypeOK
  BY <1>1, <1>2, <1>3, <1>4, <1>6, <1>7 DEF StoreTypeOK
<1>9. RegistryInv
  <2>1. ASSUME NEW m \in Machines, cluster[m] # None
        PROVE  Belongs(cluster[m], m)
    <3>1. PICK i \in 1 .. Len(s) : s[i] = m /\ cluster[m] = i - 1
      BY <1>5, <2>1
    <3>2. ASSUME NEW o \in Machines, cluster[o] = i - 1
          PROVE  o = m
      <4>1. cluster[o] # None
        BY <1>3, <3>2, NoneIsNoNumber
      <4>2. PICK j \in 1 .. Len(s) : s[j] = o /\ cluster[o] = j - 1
        BY <1>5, <4>1
      <4>3. i = j
        BY <1>3, <3>2, <4>2
      <4> QED BY <3>1, <4>2, <4>3
    <3>3. i - 1 < nextNum
      BY <1>1, <1>2, <1>3
    <3> QED BY <3>1, <3>2, <3>3 DEF Belongs
  <2> QED BY <1>4, <2>1 DEF RegistryInv
<1>10. ListTypeOK
  BY <1>4 DEF ListTypeOK, NoNodes, Times
<1>11. NoRequest \in Requests /\ NoRequest.pc = "idle" /\ loop.pc = "start" /\ LoopTypeOK
  BY <1>4 DEF NoRequest, Requests, LoopAt, LoopTypeOK
<1>12. PollInv /\ SnapInv /\ NumberedInv /\ GoneInv /\ HiddenInv
  BY <1>4, <1>11 DEF PollInv, SnapInv, NumberedInv, GoneInv, HiddenInv, NoNodes
<1> QED BY <1>8, <1>9, <1>10, <1>11, <1>12 DEF ConsoleInv

\* The steps that change neither the store nor the list.
LEMMA OtherStep ==
    ASSUME ConsoleInv, Undisturbed
    PROVE  ConsoleInv'
<1>1. /\ UNCHANGED <<clock, storeVars, readings>>
      /\ UNCHANGED <<nodes, users, removedNodes, removedFile, hidden, metricsFile, polls, requests,
                     loop, warned, refreshed>>
  BY DEF Undisturbed, listVars, loopVars, fileVars, pastVars
<1>2. ListTypeOK' /\ LoopTypeOK' /\ PollInv' /\ SnapInv'
  BY <1>1, StoreStays DEF ConsoleInv, ListTypeOK, LoopTypeOK, PollInv, SnapInv
<1>3. NumberedInv' /\ GoneInv' /\ HiddenInv'
  BY <1>1, StoreStays DEF ConsoleInv, NumberedInv, GoneInv, HiddenInv
<1> QED BY <1>1, <1>2, <1>3, StoreStays DEF ConsoleInv

LEMMA ConsoleStep ==
    ASSUME ConsoleInv, [Next]_vars
    PROVE  ConsoleInv'
<1>1. ASSUME NEW m \in Machines, NodeRegisters(m) \/ NodeHeartbeats(m)
      PROVE  ConsoleInv'
  BY <1>1, NodeRegistersStep, NodeHeartbeatsStep
<1>2. CASE Tick
  BY <1>2, TickStep
<1>3. CASE LoopStep
  BY <1>3, RefreshLoadStep, RefreshApplyStep, PollAllNodesStep, PollsEndStep, SaveMetricsStep,
     RefreshQuotaStep, PollStep DEF LoopStep
<1>4. ASSUME NEW o \in Operators, RequestStep(o)
      PROVE  ConsoleInv'
  <2>1. CASE \/ \E f \in FsIDs : RemoveLookup(o, f)
             \/ \E m \in Machines : RemoveById(o, m)
             \/ \E u \in Users, q \in 1 .. DefaultQuota : QuotaLookup(o, u, q)
    BY <2>1, LookupStep
  <2>2. CASE CallDeregister(o)
    BY <2>2, CallDeregisterStep
  <2>3. CASE RemoveHide(o)
    BY <2>3, RemoveHideStep
  <2>4. CASE CallSetQuota(o)
    BY <2>4, CallSetQuotaStep
  <2>5. CASE CacheQuota(o)
    BY <2>5, CacheQuotaStep
  <2> QED BY <1>4, <2>1, <2>2, <2>3, <2>4, <2>5 DEF RequestStep
<1>5. CASE handleResolveAlert \/ handleResolveAllAlerts
  BY <1>5, OtherStep DEF handleResolveAlert, handleResolveAllAlerts
<1>6. ASSUME NEW c \in Callers, handleActionExecute(c) \/ ActionProceeds(c)
      PROVE  ConsoleInv'
  BY <1>6, OtherStep DEF handleActionExecute, ActionProceeds
<1>7. CASE Restart
  BY <1>7, RestartStep
<1>8. CASE UNCHANGED vars
  BY <1>8, OtherStep DEF vars, Undisturbed
<1> QED BY <1>1, <1>2, <1>3, <1>4, <1>5, <1>6, <1>7, <1>8 DEF Next

\* refreshNodes, pollNode and handleRemoveNode: a removed node that the
\* console lists again has been heard of in a later second, whatever refresh,
\* scrape, second removal or restart came in between, for any number of nodes,
\* requests, heartbeats and failed writes of the tombstones.
THEOREM RemovedStayHidden == Spec => []RemovedNodesStayHidden
<1>1. Init => ConsoleInv
  BY ConsoleInitially
<1>2. ConsoleInv /\ [Next]_vars => ConsoleInv'
  BY ConsoleStep
<1>3. ConsoleInv => RemovedNodesStayHidden
  BY DEF ConsoleInv, HiddenInv, RemovedNodesStayHidden
<1> QED BY <1>1, <1>2, <1>3, PTL DEF Spec

\* handleRemoveNode: a node hidden without a warning is out of the cluster
\* for good, whichever of the calls to the metaserver was answered.
THEOREM HiddenAreGone == Spec => []HiddenNodesAreGone
<1>1. Init => ConsoleInv
  BY ConsoleInitially
<1>2. ConsoleInv /\ [Next]_vars => ConsoleInv'
  BY ConsoleStep
<1>3. ConsoleInv => HiddenNodesAreGone
  BY DEF ConsoleInv, GoneInv, Gone, HiddenNodesAreGone
<1> QED BY <1>1, <1>2, <1>3, PTL DEF Spec

LEMMA ActionsTyped ==
    ASSUME LockInv, HistoryInv
    PROVE  ActionTypeOK
<1>1. \A c \in Callers : acts[c] \in Acts /\ ActFacts(acts[c])
  BY DEF LockInv
<1>2. \A c \in Callers : /\ acts[c].pc \in {"idle", "lock", "run", "release"}
                         /\ acts[c].running \subseteq acts[c].targets
                         /\ acts[c].held \subseteq FsIDs
  BY <1>1 DEF Acts, ActFacts
<1>3. history.head \in Slots /\ history.count \in 0 .. HistoryLimit
  BY DEF HistoryInv, Holds
<1>4. activeNodes \in [FsIDs -> 0 .. begun - 1 \cup {None}]
  BY DEF LockInv
<1> QED BY <1>2, <1>3, <1>4 DEF ActionTypeOK

\* Everything the console keeps has its type, the files and what requests and
\* scrapes under way have read included.
THEOREM ConsoleTyped == Spec => []TypeOK
<1>1. Init => AlertsInv /\ LockInv /\ HistoryInv /\ ConsoleInv
  BY AlertsInitially, LocksInitially, HistoryInitially, ConsoleInitially
<1>2. AlertsInv /\ LockInv /\ HistoryInv /\ ConsoleInv /\ [Next]_vars
        => AlertsInv' /\ LockInv' /\ HistoryInv' /\ ConsoleInv'
  BY AlertsStep, ActionsStep, ConsoleStep
<1>3. AlertsInv /\ LockInv /\ HistoryInv /\ ConsoleInv => TypeOK
  BY AlertsTyped, ActionsTyped DEF TypeOK, AlertsInv, ConsoleInv
<1> QED BY <1>1, <1>2, <1>3, PTL DEF Spec
=============================================================================
