---------------------------- MODULE AdminServer ----------------------------
(***************************************************************************)
(* The admin backend (internal/admin): the list of nodes it shows, built   *)
(* from the metadata store and from scraping each node's metrics; the      *)
(* removal of nodes, with tombstones that keep what was removed from being *)
(* listed again; quotas; and, composed with them, the alert engine and the *)
(* orchestrator.                                                           *)
(*                                                                         *)
(* refreshNodes, pollAllNodes and SaveMetricsSnapshot run in one goroutine *)
(* (`loop'), pollNode in one per node, and every HTTP request in its own.  *)
(* The metaserver and its store are the few variables of `cluster': their  *)
(* own behaviour is the subject of MetaServer.                             *)
(***************************************************************************)
EXTENDS AlertManager, Orchestrator

CONSTANTS
    Machines,       \* fileserver processes, each with its stable id
    Operators,      \* requests of administrators under way at a time
    MsAddr,         \* is a metaserver address configured or discovered?
    StaleAfter,     \* 30 s in the code
    RateWindow,     \* 60 s in the code
    DefaultQuota,   \* 16 GiB in the code
    Workloads       \* bound: set of [registered, readings, budget, alertFaults, historyFaults]

ASSUME AdminAssumption ==
    /\ FsIDs \subseteq Nat /\ MsAddr \in BOOLEAN /\ None \notin Nat
    /\ StaleAfter \in Nat /\ RateWindow \in Nat /\ DefaultQuota \in Nat \ {0}

Metrics == [disk : Int, temp : Int, used : [Users -> Nat], quota : [Users -> Nat]]
NodeStates == [machine : Machines \cup {None}, seen : Nat, metrics : Metrics \cup {None},
               status : {"online", "warning", "degraded", "critical", "offline"}]
Readings == [disk : Int, temp : Int, err : Int, used : [Users -> Nat], anew : BOOLEAN]

ASSUME NodesAssumption == None \notin NodeStates
ASSUME WorkloadsAssumption ==
    \A w \in Workloads : /\ w.registered \in Seq(Machines) /\ 0 .. Len(w.registered) - 1 \subseteq FsIDs
                         /\ w.readings \subseteq Readings \cup {None}

VARIABLES
    clock,          \* seconds, in units of the model; 0 is "never"
    cluster,        \* machine -> the number of its record in the store, or None
    beats,          \* number -> its last heartbeat, as in the record
    homes,          \* user -> the machine the store assigns to it, or None
    nextNum,        \* the number the next registration gets
    quotas,         \* user -> quota at its fileserver, 0 if none was set
    nodes,          \* fsID -> NodeState, or None
    users,          \* user -> fsID, or None
    removedNodes,   \* fsID -> time of removal, or None
    loop,           \* the background goroutine: [pc, snap, todo]
    polls,          \* fsID -> the scrape under way, or None
    serving,        \* is the HTTP server up?
    removedFile,    \* the tombstones as stored
    metricsFile,    \* the metrics snapshot: fsID -> [seen, metrics], or None
    requests,       \* operator -> how far its request is
    left,           \* bound: how often each kind of event may still happen
    readings,       \* bound: what a scrape may find, None for no answer
    refreshed,      \* history: the store has been read since the start
    hidden,         \* history: fsID -> when it was last removed, or None
    warned,         \* history: nodes removed with a warning only
    crashes         \* history: number of restarts

storeVars == <<cluster, beats, homes, nextNum, quotas>>
listVars == <<nodes, users, removedNodes>>
loopVars == <<loop, polls, serving, refreshed>>
fileVars == <<removedFile, metricsFile>>
pastVars == <<hidden, warned, crashes>>
vars == <<clock, storeVars, listVars, loopVars, fileVars, requests, left, readings,
          pastVars, alertVars, actionVars>>

NoNodes == [f \in FsIDs |-> None]
Spend(event) == left[event] > 0 /\ left' = [left EXCEPT ![event] = @ - 1]
-----------------------------------------------------------------------------
(* The cluster, as the console meets it. *)

\* A machine that has no record registers under a number never used before.
NodeRegisters(m) ==
    /\ cluster[m] = None /\ nextNum \in FsIDs /\ Spend("register")
    /\ cluster' = [cluster EXCEPT ![m] = nextNum]
    /\ beats' = [beats EXCEPT ![nextNum] = clock]
    /\ nextNum' = nextNum + 1
    /\ UNCHANGED <<clock, homes, quotas, listVars, loopVars, fileVars, requests, readings,
                   pastVars, alertVars, actionVars>>

NodeHeartbeats(m) ==
    /\ cluster[m] # None /\ beats[cluster[m]] < clock /\ Spend("heartbeat")
    /\ beats' = [beats EXCEPT ![cluster[m]] = clock]
    /\ UNCHANGED <<clock, cluster, homes, nextNum, quotas, listVars, loopVars, fileVars,
                   requests, readings, pastVars, alertVars, actionVars>>

Tick ==
    /\ Spend("tick") /\ clock' = clock + 1
    /\ UNCHANGED <<storeVars, listVars, loopVars, fileVars, requests, readings, pastVars,
                   alertVars, actionVars>>

Released(m) == [u \in Users |-> IF homes[u] = m THEN None ELSE homes[u]]
\* DeregisterFileServer of the metaserver, by stable id, and how its answer
\* arrives.  It removes the users, then the node; a write that fails in
\* between is answered with Success = false.
Deregister(m, answer) ==
    \/ /\ answer \in {"ok", "lost"}
       /\ cluster' = [cluster EXCEPT ![m] = None] /\ homes' = Released(m)
    \/ /\ answer = "refused"
       /\ homes' \in {homes, Released(m)} /\ UNCHANGED cluster
    \/ answer = "lost" /\ UNCHANGED <<cluster, homes>>
-----------------------------------------------------------------------------
(* Tombstones. *)

\* os.WriteFile truncates the file and then writes it; a failure, which is
\* ignored, or a crash leaves it as it was or without contents.
SaveRemovedNodes ==
    \/ removedFile' = removedNodes' /\ UNCHANGED left
    \/ Spend("tear") /\ removedFile' \in {removedFile, NoNodes}

\* Mutant: a heartbeat of the second of the removal counts as a newer one.
RemovedUntil(t, hb) == t # None /\ ~(hb >= t)
\* isNodeRemovedLocked, for a tombstone of time t
IsRemoved(t, hb) == t # None /\ ~(hb > t)
-----------------------------------------------------------------------------
(* refreshNodes *)

RecordsOf(snap, f) == {m \in Machines : snap.cluster[m] = f}

\* Where the goroutine goes next: Run polls once more before it serves.
LoopAt(label) == [pc |-> label, snap |-> None, todo |-> {}]
AfterRefresh == LoopAt(IF serving THEN "idle" ELSE "poll")
\* a.mu is kept while refreshNodes goes through the users.
Unlocked == loop.pc # "quotas"

\* LoadSnapshot returns, or fails, which ends refreshNodes.
RefreshLoad ==
    /\ loop.pc \in {"start", "idle"}
    /\ loop' \in {[LoopAt("apply") EXCEPT !.snap = [cluster |-> cluster, beats |-> beats, homes |-> homes]],
                 AfterRefresh}
    /\ UNCHANGED <<clock, storeVars, listVars, polls, serving, refreshed, fileVars, requests,
                   left, readings, pastVars, alertVars, actionVars>>

NewNode(m) == [machine |-> m, seen |-> 0, metrics |-> None, status |-> "offline"]
\* The records that are not hidden are listed, with what was known of them;
\* whatever is hidden or has no record is pruned.
Refreshed(snap, tombs) ==
    [f \in FsIDs |->
        IF RecordsOf(snap, f) = {} \/ tombs[f] # None THEN None
        ELSE LET m == CHOOSE m \in RecordsOf(snap, f) : TRUE
             IN  IF nodes[f] = None THEN NewNode(m) ELSE [nodes[f] EXCEPT !.machine = m]]

\* used >= quota, the quota being the node's if it reports one.
Exceeds(metrics, u) ==
    metrics.used[u] >= IF metrics.quota[u] > 0 THEN metrics.quota[u] ELSE DefaultQuota

RefreshApply ==
    /\ loop.pc = "apply"
    /\ LET snap == loop.snap
           tombs == [f \in FsIDs |->
                       IF RecordsOf(snap, f) # {} /\ ~IsRemoved(removedNodes[f], snap.beats[f])
                       THEN None ELSE removedNodes[f]]
           seen == {u \in Users : /\ users'[u] # None /\ nodes'[users'[u]] # None
                                  /\ nodes'[users'[u]].metrics # None}
       IN  /\ users' = [u \in Users |-> IF snap.homes[u] = None THEN None
                                     ELSE snap.cluster[snap.homes[u]]]
           /\ removedNodes' = tombs
           /\ nodes' = Refreshed(snap, tombs)
           /\ IF tombs = removedNodes THEN UNCHANGED <<removedFile, left>> ELSE SaveRemovedNodes
           /\ loop' = IF seen = {} THEN AfterRefresh ELSE [LoopAt("quotas") EXCEPT !.todo = seen]
    /\ refreshed' = TRUE
    /\ UNCHANGED <<clock, storeVars, polls, serving, metricsFile, requests, readings,
                   pastVars, alertVars, actionVars>>

\* The users whose home has metrics, in the order of a Go map.
RefreshQuota(u) ==
    /\ loop.pc = "quotas" /\ u \in loop.todo
    /\ CheckUserQuota(u, Exceeds(nodes[users[u]].metrics, u), clock)
    /\ loop' = IF loop.todo = {u} THEN AfterRefresh ELSE [loop EXCEPT !.todo = @ \ {u}]
    /\ UNCHANGED <<clock, storeVars, listVars, polls, serving, refreshed, fileVars, requests,
                   left, readings, pastVars, actionVars>>
-----------------------------------------------------------------------------
(* pollAllNodes and pollNode *)

computeNodeStatus(m, seen) ==
    IF m = None \/ seen = 0 \/ clock - seen > StaleAfter THEN "offline"
    ELSE IF m.disk > 95 \/ m.temp > 85 THEN "critical"
    ELSE IF m.disk > 90 \/ m.temp > 75 THEN "degraded"
    ELSE IF m.disk > 80 \/ m.temp > 65 THEN "warning"
    ELSE "online"

\* The nodes are copied under the lock; a goroutine for each of them keeps
\* its pointer.  A scrape is [node, quotas]: the NodeState if it has been
\* taken out of the list meanwhile, None while it is still there, and the
\* quotas in force when it began.
PollAllNodes ==
    /\ loop.pc = "poll" \/ (loop.pc = "idle" /\ left["poll"] > 0)
    /\ left' = IF serving THEN [left EXCEPT !["poll"] = @ - 1] ELSE left
    /\ polls' = [f \in FsIDs |-> IF nodes[f] = None THEN None
                                 ELSE [node |-> None, quotas |-> quotas]]
    /\ loop' = [loop EXCEPT !.pc = "wait"]
    /\ UNCHANGED <<clock, storeVars, listVars, serving, refreshed, fileVars, requests,
                   readings, pastVars, alertVars, actionVars>>

Polled(f) == IF polls[f].node = None THEN nodes[f] ELSE polls[f].node
\* What the goroutine writes through its pointer shows only if that still is
\* the listed node.
WriteNode(f, n) ==
    /\ nodes' = IF polls[f].node = None THEN [nodes EXCEPT ![f] = n] ELSE nodes
    /\ polls' = [polls EXCEPT ![f] = None]
    /\ UNCHANGED <<clock, storeVars, users, removedNodes, loop, serving, refreshed, fileVars,
                   requests, left, readings, pastVars, actionVars>>

\* A node restored from the metrics file has no URL until it is refreshed.
PollWithoutURL(f) ==
    /\ polls[f] # None /\ Polled(f).machine = None
    /\ WriteNode(f, [Polled(f) EXCEPT !.status = "offline"])
    /\ UNCHANGED alertVars

updateNodeFailure(f) ==
    /\ None \in readings /\ polls[f] # None /\ Polled(f).machine # None
    /\ LET n == Polled(f)
           status == computeNodeStatus(n.metrics, n.seen)
       IN  /\ WriteNode(f, [n EXCEPT !.status = status])
           /\ CheckNodeHealth(f, [status |-> status, metrics |-> n.metrics,
                                  errPct |-> 0, restarted |-> FALSE], clock)

\* A node that answers: rates are computed against the scrape before, if it
\* is recent and the process has not started anew, which is noted.
pollNode(f) ==
    /\ polls[f] # None /\ Polled(f).machine # None
    /\ \E r \in readings \ {None}, quota \in {polls[f].quotas, quotas} :
         LET n == Polled(f)
             m == [disk |-> r.disk, temp |-> r.temp, used |-> r.used, quota |-> quota]
             recent == n.metrics # None /\ clock > n.seen /\ clock - n.seen <= RateWindow
             status == computeNodeStatus(m, clock)
         IN  /\ WriteNode(f, [n EXCEPT !.metrics = m, !.seen = clock, !.status = status])
             /\ CheckNodeHealth(f, [status |-> status, metrics |-> m,
                                    restarted |-> r.anew /\ n.metrics # None,
                                    errPct |-> IF recent /\ ~r.anew THEN r.err ELSE 0], clock)

\* wg.Wait returns; the first time, Run goes on to serve.
PollsEnd ==
    /\ loop.pc = "wait" /\ polls = NoNodes
    /\ loop' = [loop EXCEPT !.pc = "idle"] /\ serving' = TRUE
    /\ UNCHANGED <<clock, storeVars, listVars, polls, refreshed, fileVars, requests, left,
                   readings, pastVars, alertVars, actionVars>>

\* SaveMetricsSnapshot replaces the file, or fails and leaves it.
SaveMetricsSnapshot ==
    /\ loop.pc = "idle" /\ Spend("snapshot")
    /\ metricsFile' = [f \in FsIDs |->
            IF nodes[f] = None \/ nodes[f].metrics = None THEN None
            ELSE [seen |-> nodes[f].seen, metrics |-> nodes[f].metrics]]
    /\ UNCHANGED <<clock, storeVars, listVars, loopVars, removedFile, requests, readings,
                   pastVars, alertVars, actionVars>>
-----------------------------------------------------------------------------
(* handleRemoveNode *)

NoRequest == [pc |-> "idle", path |-> None, fsID |-> None, machine |-> None, quota |-> 0]
Goto(o, pc) == requests' = [requests EXCEPT ![o].pc = pc]
Quiet == UNCHANGED <<clock, beats, nextNum, quotas, loop, serving, refreshed, metricsFile, readings,
                     crashes, alertVars, actionVars>>

\* The number plus one; a node restored from the metrics file has none yet.
DisplayID(f) == IF nodes[f].machine = None THEN 0 ELSE f + 1
\* The path is the fsID of a node the page shows or has shown.  One that is
\* no longer listed is taken for a display id.
Matches(path) ==
    IF nodes[path] # None THEN {path}
    ELSE {f \in FsIDs : nodes[f] # None /\ DisplayID(f) = path}
RemoveLookup(o, path) ==
    /\ serving /\ Unlocked /\ requests[o].pc = "idle" /\ Spend("remove")
    /\ nodes[path] # None \/ hidden[path] # None
    /\ \E f \in Matches(path) :
         requests' = [requests EXCEPT ![o] =
            [NoRequest EXCEPT !.path = path, !.fsID = f, !.machine = nodes[f].machine,
                              !.pc = IF MsAddr /\ nodes[f].machine # None THEN "tls" ELSE "hide"]]
    /\ UNCHANGED <<cluster, homes, listVars, polls, removedFile, hidden, warned>> /\ Quiet

\* The path is the stable id of a machine that is not listed.
RemoveById(o, m) ==
    /\ serving /\ Unlocked /\ MsAddr /\ requests[o].pc = "idle" /\ Spend("remove")
    /\ requests' = [requests EXCEPT ![o] = [NoRequest EXCEPT !.machine = m, !.pc = "tls"]]
    /\ UNCHANGED <<cluster, homes, listVars, polls, removedFile, hidden, warned>> /\ Quiet

\* Mutant: an error of the metaserver does not keep the node listed.
HideRegardless(o) ==
    /\ requests[o].pc \in {"tls", "plain"} /\ requests[o].quota = 0
    /\ \E answer \in {"ok", "lost", "refused"} :
         /\ Deregister(requests[o].machine, answer)
         /\ Goto(o, IF requests[o].fsID = None THEN "idle" ELSE "hide")
    /\ UNCHANGED <<listVars, polls, removedFile, left, hidden, warned>> /\ Quiet
\* CallDeregisterFileServer: over TLS, and once more in plaintext if there
\* was no answer.
CallDeregister(o) ==
    /\ requests[o].pc \in {"tls", "plain"} /\ requests[o].quota = 0
    /\ \E answer \in {"ok", "lost", "refused"} :
         /\ Deregister(requests[o].machine, answer)
         /\ Goto(o, IF answer = "ok" /\ requests[o].fsID # None THEN "hide"
                    ELSE IF answer = "lost" /\ requests[o].pc = "tls" THEN "plain"
                    ELSE "idle")
    /\ UNCHANGED <<listVars, polls, removedFile, left, hidden, warned>> /\ Quiet

RemoveHide(o) ==
    /\ Unlocked /\ requests[o].pc = "hide"
    /\ LET f == requests[o].fsID IN
       /\ nodes' = [nodes EXCEPT ![f] = None]
       /\ polls' = IF polls[f] # None /\ polls[f].node = None
                   THEN [polls EXCEPT ![f].node = nodes[f]] ELSE polls
       /\ removedNodes' = [removedNodes EXCEPT ![f] = clock]
       /\ users' = [u \in Users |-> IF users[u] = f THEN None ELSE users[u]]
       /\ hidden' = [hidden EXCEPT ![f] = clock]
       /\ warned' = IF MsAddr /\ requests[o].machine # None THEN warned ELSE warned \cup {f}
    /\ SaveRemovedNodes
    /\ Goto(o, "idle")
    /\ UNCHANGED <<cluster, homes>> /\ Quiet
-----------------------------------------------------------------------------
(* handleUserQuota *)

QuotaLookup(o, u, q) ==
    /\ serving /\ Unlocked /\ requests[o].pc = "idle" /\ Spend("quota")
    /\ users[u] # None /\ nodes[users[u]] # None /\ nodes[users[u]].machine # None
    /\ requests' = [requests EXCEPT ![o] =
          [NoRequest EXCEPT !.pc = "tls", !.path = u, !.fsID = users[u], !.quota = q]]
    /\ UNCHANGED <<cluster, homes, listVars, polls, removedFile, hidden, warned>> /\ Quiet

\* CallSetQuota, with the same two attempts; a fileserver that cannot save the
\* new quota refuses it and uses it all the same.
CallSetQuota(o) ==
    /\ requests[o].pc \in {"tls", "plain"} /\ requests[o].quota > 0
    /\ \E answer \in {"ok", "lost", "refused"} :
         /\ \/ quotas' = [quotas EXCEPT ![requests[o].path] = requests[o].quota]
            \/ answer # "ok" /\ UNCHANGED quotas
         /\ Goto(o, IF answer = "ok" THEN "cache"
                    ELSE IF answer = "lost" /\ requests[o].pc = "tls" THEN "plain"
                    ELSE "idle")
    /\ UNCHANGED <<clock, cluster, beats, homes, nextNum, listVars, loopVars, fileVars, left,
                   readings, pastVars, alertVars, actionVars>>

CacheQuota(o) ==
    /\ Unlocked /\ requests[o].pc = "cache"
    /\ LET f == requests[o].fsID IN
       nodes' = IF nodes[f] = None \/ nodes[f].metrics = None THEN nodes
                ELSE [nodes EXCEPT ![f].metrics.quota[requests[o].path] = requests[o].quota]
    /\ Goto(o, "idle")
    /\ UNCHANGED <<cluster, homes, users, removedNodes, polls, removedFile, left, hidden,
                   warned>> /\ Quiet
-----------------------------------------------------------------------------
(* Alerts and actions, as the handlers reach them, and the process. *)

Undisturbed == UNCHANGED <<clock, storeVars, listVars, loopVars, fileVars, requests, readings,
                           pastVars>>

handleResolveAlert ==
    /\ serving /\ Spend("resolve")
    /\ \E id \in Ids(am.log) \cup {am.active[k].id : k \in {c \in Conditions : am.active[c] # None}} :
         ResolveAlert(id)
    /\ Undisturbed /\ UNCHANGED actionVars
handleResolveAllAlerts ==
    /\ serving /\ Spend("resolve") /\ ResolveAll
    /\ Undisturbed /\ UNCHANGED actionVars

handleActionExecute(c) ==
    /\ serving /\ Unlocked /\ Spend("act") /\ StartAction(c, {f \in FsIDs : nodes[f] # None})
    /\ Undisturbed /\ UNCHANGED alertVars
ActionProceeds(c) == ActionStep(c) /\ Undisturbed /\ UNCHANGED <<left, alertVars>>

\* The metrics file brings back the nodes it names.
LoadMetricsSnapshot ==
    [f \in FsIDs |->
        IF metricsFile[f] = None THEN None
        ELSE [machine |-> None, seen |-> metricsFile[f].seen,
              metrics |-> metricsFile[f].metrics, status |-> "offline"]]
\* NewAdminServer: whatever was in memory is gone, and the files are read.
Restart ==
    /\ Spend("crash") /\ crashes' = crashes + 1
    /\ nodes' = LoadMetricsSnapshot
    /\ users' = [u \in Users |-> None] /\ removedNodes' = removedFile
    /\ loop' = LoopAt("start") /\ polls' = NoNodes
    /\ serving' = FALSE /\ refreshed' = FALSE
    /\ requests' = [o \in Operators |-> NoRequest]
    /\ hidden' = [f \in FsIDs |-> IF f \in warned THEN removedFile[f] ELSE hidden[f]]
    /\ LoadAlerts /\ LoadHistory
    /\ UNCHANGED <<clock, storeVars, fileVars, readings, warned>>
-----------------------------------------------------------------------------
Init ==
    /\ \E w \in Workloads :
         /\ cluster = [m \in Machines |-> IF m \in ToSet(w.registered)
                                         THEN (CHOOSE i \in DOMAIN w.registered : w.registered[i] = m) - 1
                                         ELSE None]
         /\ homes \in [Users -> ToSet(w.registered)] /\ nextNum = Len(w.registered)
         /\ readings = w.readings /\ left = w.budget
         /\ alertFaults = w.alertFaults /\ historyFaults = w.historyFaults
    /\ clock = 1
    /\ beats = [f \in FsIDs |-> 1] /\ quotas = [u \in Users |-> 0]
    /\ nodes = NoNodes /\ users = [u \in Users |-> None] /\ removedNodes = NoNodes
    /\ loop = LoopAt("start") /\ polls = NoNodes
    /\ serving = FALSE /\ refreshed = FALSE
    /\ removedFile = NoNodes /\ metricsFile = NoNodes
    /\ requests = [o \in Operators |-> NoRequest]
    /\ hidden = NoNodes /\ warned = {} /\ crashes = 0
    /\ AlertInit /\ ActionInit

LoopStep == \/ RefreshLoad \/ RefreshApply \/ PollAllNodes \/ PollsEnd \/ SaveMetricsSnapshot
            \/ \E u \in Users : RefreshQuota(u)
            \/ \E f \in FsIDs : PollWithoutURL(f) \/ updateNodeFailure(f) \/ pollNode(f)
RequestStep(o) == \/ \E f \in FsIDs : RemoveLookup(o, f)
                  \/ \E m \in Machines : RemoveById(o, m)
                  \/ CallDeregister(o) \/ RemoveHide(o)
                  \/ \E u \in Users, q \in 1 .. DefaultQuota : QuotaLookup(o, u, q)
                  \/ CallSetQuota(o) \/ CacheQuota(o)
Next == \/ \E m \in Machines : NodeRegisters(m) \/ NodeHeartbeats(m)
        \/ Tick \/ LoopStep \/ Restart
        \/ \E o \in Operators : RequestStep(o)
        \/ handleResolveAlert \/ handleResolveAllAlerts
        \/ \E c \in Callers : handleActionExecute(c) \/ ActionProceeds(c)

Spec == Init /\ [][Next]_vars
-----------------------------------------------------------------------------
(* Properties. *)

Times == [FsIDs -> Nat \cup {None}]
Clusters == [Machines -> FsIDs \cup {None}]
Homes == [Users -> Machines \cup {None}]
Snapshots == [cluster : Clusters, beats : [FsIDs -> Nat], homes : Homes]
Scrapes == [node : NodeStates \cup {None}, quotas : [Users -> Nat]]
Requests == [pc : {"idle", "tls", "plain", "hide", "cache"}, path : FsIDs \cup Users \cup {None},
             fsID : FsIDs \cup {None}, machine : Machines \cup {None}, quota : Nat]
StoreTypeOK ==
    /\ clock \in Nat /\ cluster \in Clusters /\ beats \in [FsIDs -> Nat] /\ homes \in Homes
    /\ nextNum \in Nat /\ quotas \in [Users -> Nat] /\ readings \subseteq Readings \cup {None}
ListTypeOK ==
    /\ nodes \in [FsIDs -> NodeStates \cup {None}] /\ users \in [Users -> FsIDs \cup {None}]
    /\ removedNodes \in Times /\ removedFile \in Times /\ hidden \in Times
    /\ metricsFile \in [FsIDs -> [seen : Nat, metrics : Metrics] \cup {None}]
    /\ polls \in [FsIDs -> Scrapes \cup {None}]
LoopTypeOK ==
    /\ loop \in [pc : {"start", "apply", "quotas", "poll", "wait", "idle"},
                 snap : Snapshots \cup {None}, todo : SUBSET Users]
    /\ requests \in [Operators -> Requests]
TypeOK == AlertTypeOK /\ ActionTypeOK /\ StoreTypeOK /\ ListTypeOK /\ LoopTypeOK

\* Once the store has been read, a node that was removed is listed again only
\* after a heartbeat of a later second: not by a refresh that had read the
\* store before the removal, by a scrape under way, by a second removal or
\* by a restart ("Do not resurrect a node the admin explicitly removed,
\* unless it has heartbeated since").  A removal that changed only the
\* console is kept for as long as its file is.
RemovedNodesStayHidden ==
    refreshed => \A f \in FsIDs : nodes[f] # None /\ hidden[f] # None => beats[f] > hidden[f]

\* A node that the console hides without a warning is out of the cluster,
\* whichever of the two attempts to deregister it was answered ("a node that
\* is hidden here but still routed to is worse than an error").
HiddenNodesAreGone ==
    \A f \in FsIDs \ warned : removedNodes[f] # None => \A m \in Machines : cluster[m] # f

\* While a condition stays as it is no further alert is raised for it, on
\* whatever the list, the scrapes and a restart do ("avoids duplicate alert
\* flooding").  One more may come where a condition has two open alerts, which
\* a write through a pointer into an old copy of the log leaves, or where the
\* one that stands for it has been pushed out of the log.
NoFlooding ==
    [][\A k \in Conditions :
          /\ trouble[k] # None /\ trouble'[k] = trouble[k]
          /\ Cardinality(Unresolved(am.log, k)) = 1
          /\ am.active[k] # None => am.active[k].id \in Ids(am.log)
          => \A i \in DOMAIN am'.log : am'.log[i].id >= am.next => am'.log[i].key # k]_vars

\* The engine does what AlertBoard says of its conditions, under everything
\* else that goes on in the console.
Board == INSTANCE AlertBoard WITH
    board <- [k \in Conditions |-> IF am.active[k] = None THEN None ELSE am.active[k].sev],
    boots <- crashes
ImplementsBoard == Board!Spec

\* A request to remove a node works on the node it names ("permanently remove
\* ${nodeName} from the cluster registry").
RemovalsHitTheirTarget ==
    \A o \in Operators :
        requests[o].pc \in {"tls", "plain", "hide"} /\ requests[o].quota = 0
        => requests[o].fsID = requests[o].path
=============================================================================
