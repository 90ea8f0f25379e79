# A TLA+ verification of the distributed virtual file system

This directory holds TLA+ models of the Go code under `src/internal`, the TLC
configurations that check them on small instances, and TLAPS proofs, for every
value of the constants, of all the safety properties of the five systems modelled
(metaserver, fileserver namespace, session tokens, clients' caches, console) but
one (`NoStranding`, see the end of section 6). `PROJECT.json` maps every definition
to the lines it translates, and lists runs, mutants, hazards, findings and theorems.

Run a model with `tlc -workers 2 -config MC_routing.cfg MCMetaServer`, check
proofs with `tlapm MetaServerProofs.tla`.

## 1. The system

DVFS gives every user a home directory on one of several *fileservers*. A
*metaserver* knows which fileserver is whose home and who has shared what with
whom; *clients* ask it once, then talk to the fileserver. There is an *admin*
backend with a web UI. All of them are separate processes that speak gRPC (the
admin also HTTP), so every call can fail, be answered late, or be acted on
without its caller learning of it.

| Component (source) | State | Operations | What is hard | What makes it correct |
|---|---|---|---|---|
| **Metaserver** (`metaserver/handler.go`, `metaserver.go`) | nodes by numeric id, user → node, visible shares, orphans; `ms.mu` and `writeOrderMu` | RegisterFileServer, Heartbeat, GetRoots, Navigate, RootShare, RootUnshare, DeregisterFileServer, heartbeat monitor, hydration | memory changes first and the store is written outside `ms.mu`, in several calls of which any may fail; a crash in between | memory and store agree between requests; a user's files stay on one node; a revocation is not undone; nodes come back |
| **Metadata store** (`storage/mongo`, interface `storage/meta.go`) | collections fileservers, users, shares, counters | one method per kind of write | bulk writes and renames are not transactions; a write that timed out may have been applied | a user's home is always a known node |
| **Fileserver: sync loop** (`fileserver/msclient.go`) | `registered` | register, heartbeat, retry; report of users and shares | a snapshot taken before the call | every node ends up registered; the metaserver shows current shares |
| **Fileserver: namespace** (`fileserver.go`, `handler.go`) | inode tree, trash, sizes, ACLs, explicit shares | create, write, upload, delete, trash, restore, share, unshare | authorisation under the read lock, work under the write lock, news to the metaserver after it; crash between two disk writes | tree, disk and index describe the same files; access has a reason; sizes and quota are exact |
| **Inode index** (`inodestore.go`), **ACLs** (`aclstore.go`), **scanner** (`filescanner.go`) | path → id and counter; `.acl` files, share list | GetOrAssign, Remove, RenamePrefix, Save, load; scan | Save is remove-then-rename; the index is saved after the tree has changed | FIDs are stable and not recycled |
| **Callback sender** (`fileserver/callback_server.go`) | one session per user: address, root, directory, activity, failures | register, notify, prune | one goroutine per callback: reordering, failures counted late | a session is where its client is |
| **Client cache** (`client/cache_handler.go`, `cobrahandler.go`) **and listener** (`client/callback_server.go`) | a tree of nodes with cached contents | commands, Invalidate | commands and callbacks run without a common lock | cached contents are current, or there is a reason |
| **Session tokens** (`fileserver/session`, `auth_google.go`, `client/client.go`) | sessions, tokens per user, token per client | CreateSession, ValidateSession, Touch, revocations, sweep | check and update under different locks, revocation by goroutine, two limits | the maps agree, limits hold, a token is lost for a reason |
| **Fileserver: quota** (`fileserver/quota.go`) | quota per user, its file | SetQuota, the check of creations and writes | the quota changes between a check and the write | storage grows only up to the quota in force |
| **Admin: node list** (`admin/poller.go`, `server.go`, `handlers.go`, `snapshot.go`, `grpc_client.go`) | nodes and users as listed, tombstones and metrics, and their files | refresh, scrape, snapshot, removal, SetQuota, restart | a refresh and a scrape work on what they read before a removal; a call is repeated without knowing what the first attempt did | what was removed stays hidden, what is hidden is out of the cluster |
| **Admin: alerts** (`admin/alerts.go`) | bounded log, conditions → pointers into it, file | checks of nodes and users, resolve, save, load | the pointers go stale with every new alert | what is wrong is listed, once |
| **Admin: actions** (`admin/actions.go`, `ssh_executor.go`, `history.go`) | node locks, ring of records, file | lock, run, record, release | locks taken one by one by overlapping actions | a lock has one owner; the history is exact |
| Sign-in, metrics, discovery, UI, generated code, deployment | – | – | – | not modelled, see 8 |

How they interact: fileserver → metaserver by RegisterFileServer (users and
shares on disk), Heartbeat, RootShare and RootUnshare; client → metaserver by
GetRoots and Navigate; client → fileserver by all file operations, with a token
minted by RegisterClient; fileserver → client by callbacks; admin → metaserver
by DeregisterFileServer, admin → fileserver by SetQuota and by scraping its
metrics, and the admin reads the metaserver's store directly. Fileserver processes share nothing with each other.

## 2. Modules

| Module | Models |
|---|---|
| `MetaStore` | the store as a record of collections, each method an operator from stores to stores, `...Partial` the sets of stores a failed bulk write may leave |
| `MetaServer` (extends `MetaStore`) | the metaserver with everything that calls it |
| `MetaServerProofs` | theorems about `MetaServer`: types, mutual exclusion, revocations, and the table of nodes in memory: numbers, loads, addresses |
| `MetaServerDurabilityProofs` (extends it) | memory and store: grants, homes, nodes |
| `FileServer` | one user's namespace on a fileserver, memory and disk |
| `FileServerTreeProofs` | theorems about `FileServer`: tree, disk and index, every method and every restart |
| `FileServerProofs` (extends it) | names, FIDs, ACLs, uploads, sizes and quota, shares and access |
| `ClientCache` | clients' caches and the callbacks between fileserver and clients |
| `ClientCacheProofs` | theorems about `ClientCache` |
| `SessionStore` | the session tokens of a fileserver and the clients that hold them |
| `SessionStoreProofs` | theorems about `SessionStore` |
| `AdminTypes` | what the admin modules name alike |
| `RingBuffer` | the circular buffer of the command history, with its load |
| `AlertManager` (extends `AdminTypes`) | the alert engine |
| `AlertManagerProofs` | lemmas: what each operation of the engine keeps of its invariant |
| `AlertBoard` | abstract specification of the alert engine |
| `Orchestrator` (extends `AdminTypes`, `RingBuffer`) | actions on nodes, their locks and records |
| `AdminServer` (extends `AlertManager`, `Orchestrator`) | the node list, composed with alerts and actions |
| `AdminServerProofs` (extends `AlertManagerProofs`) | theorems about the console as a whole |
| `MC*` | constants for TLC (functions such as who runs which client), symmetry |

### MetaServer and MetaStore

A caller (fileserver machine, client, share handler, administrator) is a
sequential thread: `pc[a]` is how far its request is, `req[a]` the handler's
locals. **A critical section of `ms.mu` is one step; every call of the store is
another**, which succeeds or fails with any part applied. `writeOrderMu` is a
variable that the structural requests (registration, deregistration, placement,
shares) hold from their first to their last step. `RegisterKnown`,
`RegisterNew`, `AllocateNode`, `CommitNew`, `Rename...`, `Persist...`, `Purge...`
are RegisterFileServer with its early returns; `GetRootsPlace` and
`PersistPlacement` a first login; `Drop...` a deregistration with its rollback;
`MarkStale` and `PersistStale` the monitor; `Crash` loses memory and requests
and hydrates from the store. The time of the last heartbeat is one bit, *is it
younger than heartbeatTimeout*, which `Expire` may clear: nothing else is ever
read from it. `MountFailures` lets a fileserver start with its data directory
unmounted, so that it reports no users. `released`, `revoked` and `unsettled`
are history; `unsettled` names the users, grants and nodes of a request that the
store failed and whose caller was told so, until a later one settles them.

### FileServer

A request is a gRPC handler: it authorises its caller under the read lock, runs
one method under the write lock, and (share, unshare, delete) calls the
metaserver after it. **Each critical section is one action**, and each method is
given by the *sequence of durable states* its writes leave behind (`CreateSteps`,
`DeleteSteps`, ...), so that in a workload with `midOperation` a crash can strike between any two.
`disk` is what survives: files with their ACLs, the index, the share list, the
quota. `SetQuota` changes memory and then the file, which may fail. A
name is a base and the ids appended to keep it unique, which is what
`uniqueNameInDir` does. An entry's `fid` on disk is history: the FID its creation
returned. Further history: `torn` (a crash struck inside a method), `stirred`
(something was shared, unshared or removed while something was in the trash),
`replaced` (a rename put a file in the place of another, whose inode stays, so that
two inodes have one path; or a client made a file called `.acl`: from then on
nothing is claimed any more), `late` (a share or
its withdrawal found the inode it had looked up deleted). `Subtree` and `Chain`, which
the code computes by following Children and Parent, are the least sets of inodes
closed under them; that in a well-formed tree they are given by paths is a lemma
(`SubtreeIs`, `ChainIs`), not part of the definition. A size is counted byte by
byte (`Bytes`), where the code adds sizes up. The ACL file of a directory is the
field `acl` of its entry on disk until a client makes a file called `.acl` there,
which the code does not prevent (`fileserver.go:1348`): from then on it is an entry
of its own (`ReplaceACL`), SaveACL writes to that entry (`ACLFile`), a client's write
may leave any list in it (`Contents`), and the scan of a restart passes over the
entry and takes its list for the directory (`Found`). The `.acl` files below the
target of a share are written one by one, from the top, and a crash may come
between any two of them (`HalfShared`). The trees of different
users share only the id counter, so one user's tree is modelled; `published` is
what the metaserver has been told.

### ClientCache

Each call of the fileserver is a step of the client's command; callbacks are a
bag of messages, delivered between any two steps in any order. Contents are told
apart by the number of the upload that wrote them. `contentUID` FALSE is a node
marked cached whose local file has been taken away. `excused` records the
clients that had no claim to a callback when an upload ended, `strayed` the
clients whose session was moved, or left behind, without them (see 7). **A call can
fail while both ends live on**: it may not be carried out (`CallFails`; what the
client does then is `AfterFailure`), it may be carried out and the reply lost
(`ChangeDirUnanswered`, `ReRegisterUnanswered`, and `OnReply` for an upload or a
deletion), and an upload may break between
two chunks (`BreakUpload`). `FollowClient` is the ChangeDirectory(".") of a refresh,
whose error the code drops.

### SessionStore

A token stands for its hash and is numbered in creation order; the per-user
slice is therefore a set whose oldest element is its least. Times are ages, as
the code only ever compares distances from now. **Each critical section of
`Store.mu` is one step**: CreateSession (room, eviction, previous session,
insertion), the two halves of ValidateSession, a revocation, a sweep. The touches
of an upload are steps without the lock. `build` is `google` (with interceptors)
or `default` (without).

### AdminServer, AlertManager, Orchestrator

`nodes`, `users` and `removedNodes` are the maps of that name. One goroutine
(`loop`) refreshes, scrapes and saves in turn; each scrape (`polls`) is a
goroutine of its own, with the pointer to its node: `node` is None while that
node is the listed one, and the NodeState itself once it has been taken out of
the list, so that what the scrape writes is lost with it. Every HTTP request is a
thread (`requests`): removal is a lookup, one or two attempts to deregister,
and the hiding; SetQuota likewise. **Each critical section of `a.mu` is one step,
each call another**, which is carried out and answered, refused, or lost with or
without effect. The check of the users' quotas, for which the refresh holds `a.mu`,
is a step per user; `LoopAt` says that nobody else takes the lock meanwhile
(`Unlocked`). The cluster – numbers, heartbeats, homes – is kept to the few
variables the console reads; its own behaviour is the subject of `MetaServer`.
All processes share one clock in whole seconds, as in the comparison of
heartbeats with tombstones; LoadSnapshot is one step, and the display number of a
node is its number plus one (no discovery of machine names).

In `AlertManager` a pointer is [id, sev, live]: what is read through it, and
whether it still leads into the log. `createAlertLocked` copies the log, so it
clears every `live`; a write through a pointer that is not live changes nothing
that can be seen. Alerts are records of a condition, severity and time;
`trouble` is history: what the last check of each condition found, forgotten
where an operator resolves it and where a restart cannot know of it.

`Orchestrator` has a step for each LoadOrStore and each Delete of `activeNodes`.
`RingBuffer` gives the load of the history as the buffer it ends with; that this
is what pushing the records one by one gives is the assumption `LoadRingPushes`
of `MCAdminServer`, which TLC evaluates for all short files.
A command ends on a node in one of the ways of `SSHRun`.

`AlertBoard` is what the engine promises of conditions, without log, pointers
and file: the severity at which each is active, changed only by a check of its own
node or user, by an operator, or by a restart. `AdminServer` implements it under
the mapping from `am.active` (`ImplementsBoard`).

## 3. Plan

The order is by how much of the system depends on a part, and how little of it
a test reaches.

1. *Done:* `MetaStore`, `MetaServer` – routing, grants, identity, recovery.
2. *Done:* `FileServer` – tree, disk, index, access, quota.
3. *Done:* `ClientCache` – coherence.
4. *Done:* `SessionStore` – tokens.
5. *Done:* `AdminServer` with `AlertManager`, `Orchestrator` and `RingBuffer` –
   the console; `AlertBoard` and the refinement.
6. *Done:* SetQuota and the quota file.
7. *Next:* an abstract specification of what the metaserver promises (a map from
   users to homes and a set of grants, changed by one atomic step per request)
   and `MetaServer` shown to implement it between structural requests; a
   composition of `FileServer`'s share notifications with `MetaServer`'s handlers,
   in place of the variable `published`, and of the console's removals with them.
8. *Next:* OS errors of the fileserver; the pure helpers (path normalisation,
   sanitising names) against reference definitions.
9. *Done:* proofs about `MetaServer`, `SessionStore`, `ClientCache` and
   `AdminServer` with the refinement of `AlertBoard` (section 6).
10. *Done:* proofs about `FileServer`: tree, disk, FIDs, names, shares, access,
   sizes and quota.

Several questions about one module are one run: `FileServer` and `AdminServer`
choose a *workload* in their initial states, what the environment may do and how
often. The state spaces of workloads are disjoint, and each workload is kept
small enough for the whole suite to be run with every change.

## 4. Runs

All finish within about four minutes with two workers. State counts
are distinct states.

| Run | Instance | Checks | States |
|---|---|---|---|
| `routing` | 2 nodes, a second process with the `-id` of one of them, 1 user; a removal, a crash, a failed write, disks that are not mounted | `TypeOK`, `NodeTableIsDurable`, `RoutingIsDurable`, `HomesAreRegistered`, `LoadIsExact`, `RecheckNeverFails`, `NoStranding`, `AddressIsStable` | 1,974,592 |
| `shares` | 1 node, upgraded from a build without fs_id, that may start unmounted under `-allow_user_purge`, 2 users (interchangeable, hence symmetry), one share handler; a removal, a failed write | `GrantsAreDurable`, `RevocationIsFinal` | 4,517,634 |
| `liveness` | 2 nodes under fairness; a crash, a failed write, a timeout | `NodesRecover`, `HeartbeatsRepairTheStore` | 250,654 |
| `renumbered` | 1 node upgraded from a build without fs_id; a failed write | `RetriesKeepTheNumber` – **violated**, see 7 | |
| `second_session` | 2 sessions of one new user, a failed write | `NoStranding` – **violated**, see 7 | |
| `fileserver` | six workloads. `Names`: create, write, delete, trash, restore, one handler; a crash anywhere, also inside a method. `Storing`: 2 handlers create, write, upload and delete, quota 2. `Regulated`: 2 handlers create and write while the quota is changed; a crash. `Sharing`: create, delete, trash, restore, share, unshare; nothing fails. `Racing`: 2 handlers create, delete and share; a crash. `Unreliable`: create and share; a heartbeat refused, a notification lost | `TypeOK`, `TreeIsConsistent`, `DiskMatchesMemory`, `FidsAreStable`, `FidsAreNotReused`, `SizesAreExact`, `QuotaIsRespected`, `FailedUploadsAreScrapped`, `SharingIsDurable`, `AccessHasASource`, `AnnouncedSharesAreCurrent` | 1,317,625 |
| `own_acl` | a client creates, writes and shares, with `.acl` as the name; a crash | `RestartsKeepAccess` – **violated**, see 7 | |
| `callbacks` | owner and grantee, 7 commands, a directory and a shared one below it; a failure of a client, call, reply, upload, callback, session or the server | `TypeOK`, `CachedCopiesAreCurrent`, `SessionFollowsClient` | 7,626,344 |
| `tokens` | 3 clients of 2 users, 1 session a user and 2 in all; a reply lost; both builds | `TypeOK`, `MapsAgree`, `TokensAreLostForAReason`, `LimitsHold` | 4,226,880 |
| `console` | 2 machines, 2 numbers, 1 user, 2 operators, 2 actions at a time, 3 alerts, 2 records; workloads `Alerting` (scrapes at the thresholds, a resolution, a restart), `Unsaved` (a failed write), `Membership` (2 removals, a registration, a heartbeat), `Forgetting` (a removal, a torn tombstone file, a metrics snapshot, a restart), `Quotas`, `Acting` (3 actions), `Interrupted` (2 actions and a restart) | `TypeOK`, `TroubleIsListed`, `ActiveAlertsAreOpen`, `RemovedNodesStayHidden`, `HiddenNodesAreGone`, `NodeLocksAreOwned`, `HistoryIsExact`, `NoFlooding`, `ImplementsBoard` | 1,165,659 |
| `wrong_node` | `Membership` alone | `RemovalsHitTheirTarget` – **violated**, see 7 | |
| `departure` | 3 clients of 2 users, built with `use_google_auth` | `DepartureRevokes` – **violated**, see 7 | |

What they show, and why the bounds are enough:

* **Metaserver.** Placement, adoption and conflicts need at most two nodes that
  compete for a user; rollback needs one failed write; hydration one crash.
  `MaxNum` leaves room for a registration after a removal. A second failure during
  the recovery from the first is not explored, and neither is a crash in
  `shares`, where `routing` and `liveness` have it. Heartbeats time out in
  `liveness` only; that a process may take over the address of a silent namesake,
  and of no other, is covered by `AddressesAreStable` (section 6).
* **Fileserver.** Four ids are the root, the trash, and two files or directories:
  enough for a directory with something in it, a collision of names in the
  trash, a restore below a trashed parent, and an id handed out after a
  deletion. One base name makes every collision happen. `Sharing` and `Unreliable`
  have one handler at a time: with two the news to the metaserver may cross
  (section 7). `Racing` has two, so that a share can find its directory deleted, and
  a new one at its path, when it gets the lock. `Storing` and `Regulated` have two,
  because the race of two quota checks, and of a check with a change of the quota,
  is their subject. Restarts are in `Names`, `Regulated` and `Racing`. `SizesAreExact` and `QuotaIsRespected`
  speak of the workloads without the trash (see 7).
* **Console.** Two machines and two numbers are a node and its neighbour, or a node
  that comes back under a new number; two operators can remove the same node at
  once. A log of three alerts overflows within one scrape, which can raise four;
  two records overflow with the third action. Readings are at the thresholds
  (80, 95 %; 65, 85 °C; 5, 20 %), where severities change. A node is stale when
  a second has passed (`StaleAfter`), a rate is computed over one second
  (`RateWindow`). The refresh is not bounded, as it changes nothing when it finds
  nothing new; every other event has a budget per workload. `MsAddr` is TRUE: the
  hide-only removal happens for nodes that are known from the metrics file only.
* **Clients.** Two clients are a writer and a reader; two versions of the
  contents are a stale and a current one; two callbacks in flight can overtake
  each other; `maxCallbackFailures` of 2 has both a failure that is forgiven and
  one that prunes.
* **Tokens.** A client holds one session at most, so there are more clients than
  either limit: two of one user, who may have one session, and three in all, where
  the table holds two. Three tokens are enough for a replacement and an eviction in
  one registration; ages go one beyond the TTL, where nothing changes any more
  (`Cap`). With one session each the two users stay within two by themselves, so
  the test of the table's size is exercised (a registration is refused) but not what
  alone keeps `LimitsHold`; the theorem `LimitsAreHard` is for any limits.

Every property of a passing run has a mutant: a definition changed as a slip in
the code would change it, under which TLC reports that property.

## 5. Fairness

Only `liveness` uses it (`FairSpec`). The sync loop of a fileserver runs on a
ticker for as long as the process lives and retries for ever
(`msclient.go:267-335`), hence weak fairness of sending registrations and of
heartbeats; gRPC handlers run to their end, hence weak fairness of their
remaining steps; the monitor has a ticker of its own. A registration may wait
for `writeOrderMu`, which is repeatedly free and taken: a Go mutex does not
starve a waiter (it hands over after a millisecond), hence *strong* fairness for
`RegisterStep`. Nobody has to log in, share, remove a node or crash. Both
properties are of the form *eventually always*: failures are bounded, and what
holds after the last one is what is asked.

## 6. Proofs

TLC's runs show a property on one small instance; the theorems below state it
for any number of users, nodes, clients, files, requests, failures and restarts.

| Theorem | States | Under |
|---|---|---|
| `MetaServerProofs!TypeCorrect` | `Spec => []TypeOK` | |
| `MetaServerProofs!RevocationStands` | `Spec => []RevocationIsFinal` | |
| `MetaServerProofs!RecheckIsDead` | `Spec => []RecheckNeverFails` | |
| `MetaServerProofs!LoadsAreExact` | `Spec => []LoadIsExact` | |
| `MetaServerProofs!AddressesAreStable` | `Spec => AddressIsStable` | |
| `MetaServerDurabilityProofs!GrantsSurvive` | `Spec => []GrantsAreDurable` | |
| `MetaServerDurabilityProofs!RoutesSurvive` | `Spec => []RoutingIsDurable` | `LegacyMachines = {}` |
| `MetaServerDurabilityProofs!NodesSurvive` | `Spec => []NodeTableIsDurable` | `LegacyMachines = {}` |
| `MetaServerDurabilityProofs!HomesHaveNodes` | `Spec => []HomesAreRegistered` | `LegacyMachines = {}` |
| `SessionStoreProofs!StoreIsTyped` | `Spec => []TypeOK` | |
| `SessionStoreProofs!MapsStayInStep` | `Spec => []MapsAgree` | |
| `SessionStoreProofs!LimitsAreHard` | `Spec => []LimitsHold` | |
| `SessionStoreProofs!LossesHaveReasons` | `Spec => []TokensAreLostForAReason` | |
| `FileServerTreeProofs!FileServerTypes` | `Spec => []TypeOK` | |
| `FileServerProofs!FileServerTree` | `Spec => []TreeIsConsistent` | |
| `FileServerTreeProofs!FileServerDisk` | `Spec => []DiskMatchesMemory` | |
| `FileServerProofs!FileServerReplacesNothing` | `Spec => []NothingIsReplaced` | |
| `FileServerProofs!FileServerFidsAreStable` | `Spec => []FidsAreStable` | |
| `FileServerProofs!FileServerFidsAreNotReused` | `Spec => []FidsAreNotReused` | |
| `FileServerProofs!FileServerSharingIsDurable` | `Spec => []SharingIsDurable` | |
| `FileServerProofs!FileServerAccessHasASource` | `Spec => []AccessHasASource` | |
| `FileServerProofs!FileServerSharesAreAnnounced` | `Spec => []AnnouncedSharesAreCurrent` | |
| `FileServerProofs!FileServerSizesAreExact` | `Spec => []SizesAreExact` | |
| `FileServerProofs!FileServerQuotaIsRespected` | `Spec => QuotaIsRespected` | |
| `FileServerProofs!FileServerScrapsFailedUploads` | `Spec => FailedUploadsAreScrapped` | |
| `ClientCacheProofs!CacheTyped` | `Spec => []TypeOK` | |
| `ClientCacheProofs!SessionsFollow` | `Spec => []SessionFollowsClient` | |
| `ClientCacheProofs!CopiesAreCurrent` | `Spec => []CachedCopiesAreCurrent` | |
| `AdminServerProofs!ConsoleTyped` | `Spec => []TypeOK` | |
| `AdminServerProofs!TroublesAreListed` | `Spec => []TroubleIsListed` | |
| `AdminServerProofs!ActiveConditionsAreOpen` | `Spec => []ActiveAlertsAreOpen` | |
| `AdminServerProofs!NeverFlooded` | `Spec => NoFlooding` | |
| `AdminServerProofs!EngineIsABoard` | `Spec => ImplementsBoard` | |
| `AdminServerProofs!LocksAreOwned` | `Spec => []NodeLocksAreOwned` | |
| `AdminServerProofs!HistoryStaysExact` | `Spec => []HistoryIsExact` | |
| `AdminServerProofs!RemovedStayHidden` | `Spec => []RemovedNodesStayHidden` | |
| `AdminServerProofs!HiddenAreGone` | `Spec => []HiddenNodesAreGone` | |

Each is proved along the same lines: an inductive invariant, a lemma per action
that the action keeps it, and one step of temporal logic. What follows is why
the invariants are what they are.

**Metaserver, types and revocations.** From `MetaStoreAssumption`,
`MetaServerAssumption` (finitely many users, functions with the right domains),
`CallersAssumption` (threads are told apart), `KindsAssumption` (users, grants and
nodes, which the history keeps in one set, are not mistaken for each other) and
`NodeInfosAssumption` ("no entry" is not an entry).
`TypeOK` alone is not inductive: a step writes the locals of its request, so
`TypeInv` adds `RequestOK`, which ties the locals to the label of the caller
(`Fits`). For the revocation `RevocationInv` adds `HolderOK`: a caller in the
middle of a structural request is the holder of `writeOrderMu`, and what it has
yet to store – its grants, or the snapshot it would roll back to – holds nothing
that has been revoked. This is needed because a rollback could bring a revoked
grant back if an unshare had come between; the mutex is what forbids it, and the
proof shows that it does. Store writes are covered by lemmas on the operators of
`MetaStore`, partial writes included.

**Metaserver, the table.** `NumberInv` says that no two entries are the same
node, and what a registration may rely on at each point (`RegisterFacts`): after
`ms.mu` has been let go for the allocation of a number, that the number's slot is
still empty or the node's own. Only mutual exclusion gives this, and it makes the
re-check at the end dead code. `LoadInv` counts users per node (`Exact`), also in
the snapshot a deregistration would roll back to; that every user's home is in
the table is part of it, since a count can only be right of an entry that is
there. The address theorem is an action property on top of `TableInv`.

**Metaserver, durability.** Memory runs ahead of the store, so agreement holds
only *between* requests. `GrantInv` and `DurableInv` say what holds
*inside* them: a grant, home or node on which memory and store disagree is
`unsettled` (its caller was told of the failure), or is owed by the request that
holds the mutex (`Owed`); and what that request knows of the part it has
written already (`HomeFacts`: a deregistration past its first write has no user
left in the store). Heartbeats and the monitor write without the mutex, hence the lemmas
that they change neither homes nor which nodes exist.
*Hypotheses.* `LegacyMachines = {}` says that every process sends its fs_id, as the
current build does. Three theorems need it: with a legacy machine *and* a failed
write, TLC refutes all three properties (two processes with one `-id`, one of them
legacy, a removal and a crash; 10 to 13 steps), by the failed
RenameFileServer that `renumbered` shows. With a legacy machine and no failed write
they hold on that instance (948,998 states). That memory and store
number a node alike is not among the theorems: `RetriesKeepTheNumber` is false, and
without legacy machines too a deregistration whose last write was applied but
reported as failed is rolled back, and the node, still in memory under its old
number, is stored anew under another.

**Fileserver: tree, disk and index.** From `FileServerAssumption` (a root and a trash
fit the counter, the owner is no grantee, `.trash` is not a name clients choose,
handlers are finitely many). `CoreInv` says that the inodes are a tree (`TreeOK`),
that the disk is one a restart can work with (`DurableOK`), that index and files are
those of the tree (`Numbered`, `Match`), that what is remembered of the trash is
there and can go home (`MetaOK`), and that requests in flight are well formed
(`RequestOK`: a share whose inode was deleted has kept it). None of these parts is
inductive alone: a restored directory would be hung up below itself unless
`MetaOK` said that its old parent is not inside of what moves (`Homely`), and a restart
is a tree only because an id is given to one path. Methods are treated by what
they do to a tree, to files and to an index (`Moved`, `Removed`, `TreeAdded`,
`Written`, `Opened`) and the sequence of durable states each goes through is
computed once; a crash inside a method is then the lemma that every state but the last
is `DurableOK` (`CutCreate` to `CutHalfRemoved` and `CutHalfShared`), and that a restart from any such
disk establishes `CoreInv` (`RestartFacts`). The invariant of the whole system is
`FileServerInv`: `CoreInv` until a file has been replaced or a client has made a file
called `.acl`; until then no path on disk ends in that name (it is in no name of
`NameSet`), so `Found` changes nothing and `ACLFile` is the directory's own entry.

**Fileserver: names and FIDs.** `NamesInv` shows that nothing is replaced
(`NothingIsReplaced`, the first half of `TreeIsConsistent`): every id in a suffix is
that of the inode that bears the name, in the tree and in what the trash remembers
(`OwnInv`), so a suffixed name can only be in the way of its own inode. Its
conditions are needed: a client who makes a file called `.acl` replaces the
directory's list (`own_acl`), and with `MaxId` = 5 TLC finds a file replaced once a client
types such a name (11 states) and once a crash has renumbered the inodes (13
states). `MemoInv` has the FIDs recorded beside the files, the ACLs on disk, and
that a retired id is below the counter and in no entry of the index.

**Fileserver: sizes and quota.** `SizesInv`: where nothing is ever trashed, and until
something is replaced, sizes in memory are numbers of bytes on disk. A write adds a set of new bytes below every
ancestor and nowhere else, a deletion takes away those of the subtree, so each
lemma is about the cardinality of a disjoint union. The quota theorem needs the size of
the root to be exact, and that no crash inside a method leaves more than there
was (`Lean`).

**Fileserver: shares.** `NewsInv`: with one handler at a time and nothing lost, the
explicit shares are what the metaserver shows and what the handler still has to
tell, added or taken away (`Told`); `CountInv` is what makes "nothing lost" a fact
about every earlier step. `AccessInv` extends `AccessHasASource` to what is in the
trash (`Waiting`): access to it comes from a share of its old parent or above, or from one that was
set aside with it and that RestoreFile will move back. This is what the condition
`~stirred` protects: while something is in the trash, no share may change. A
restart reads ACLs from disk and forgets the ACLs of files, hence `AclsOK` and
`Bare` (no file has an ACL on disk). All of it is said until a client has made a
file called `.acl`: the list that it writes there need have no share behind it.

**Sessions.** From `SessionStoreAssumption` (positive limits, a user per client,
and that "no token" is not a token). The invariant is `Good`: typed, in
agreement and within limits. None of the parts is inductive alone: an eviction
makes room only if the slice it takes from lists live sessions, and the maps
stay in agreement only if an evicted token is one of a single user. Every
removal – purge, revocation by token or by client, eviction – is shown to be the
same operation `Shrunk`, which keeps `Good` (`ShrinkGood`); `InsertGood` adds one
session where there is room; `CreateGood` puts them together, and shows that
leaving the index entry in place before it is overwritten does no harm.
For the losses, `LossInv` adds that no two clients hold the same token (what is on
its way in a reply, or in a call past its check, included); that a session which a
goroutine is about to revoke has expired and no call under way can touch it back
to life; and that a token that is gone, or a reply that never came, is
accounted for.

**Clients and callbacks.** From `ClientCacheAssumption` (functions with the right
domains; "no entry" is not a client, a number or a node). `CacheInv` has six
parts. `RequestInv` and `StartInv` tie a command's locals, and what a client that
has not connected knows, to its label. `FollowInv` says where a session is *during*
a command (`Heading`: where the client will be when its cd ends) unless the client
is `strayed`, and that a
session keeps the root of the client it belongs to – without this a ChangeDir
could miss its own session. `FidInv` says that FIDs are given out once and
that a cached copy is of a FID given out by now, so a file made anew is
never taken for the one a copy is of. `CopyOK` strengthens the property in two ways.
It speaks of a node whose own FID differs from the file's: a listing may later
set them equal, so such a copy must be `excused` beforehand. And it keeps the
reason (`Accounted`) also for nodes that a callback has not found yet. `ReadOK` says
the same of contents that have been downloaded and are not yet in the cache: this is the
window in which a callback finds the node, takes its local file away, and is
then overwritten. When an upload ends, the lemma `ToldOfUpload` uses `FollowInv`
to show that whoever has no excuse is sent a callback; a callback is removed by
being acted on, or by leaving an excuse behind.

**Console: alerts.** From `AlertAssumption`, `NoneAssumption`. `AlertInv`, for the engine
and its file: ids are used once, across reloads; the alert that a condition is
held active by, if still in the log, is open and has that condition's key and
severity; what a check found wrong is active, and listed no further down than the
active alert (`OpenAbove`), so that truncation cannot drop the one and keep the
other; the file has the alerts of the log unless a save has failed – in any
order, because the sort is not stable. `NoFlooding` and the refinement of
`AlertBoard` are then action properties: each operation's lemma in
`AlertManagerProofs` says which conditions it may change, and
`AdminServerProofs` lifts them to the composed system.

**Console: actions.** From `OrchestratorAssumption` and `RingAssumption`. `LockInv`: an action's
locks are those of the targets it has got through, it holds all of them before it
runs, `activeNodes` is exactly what actions hold, and ids are distinct. `HistoryInv`
says of memory and file that going back from the write position gives the
latest records (`Holds`); the arithmetic of the wrap-around is the lemma `Wraps`.

**Console: nodes.** From `AdminAssumption`, `NodesAssumption` (a node is not
"no entry") and `WorkloadsAssumption` (the nodes a workload begins with have numbers
of `FsIDs`, and its readings are readings). `ConsoleInv` has an account for each place where old knowledge
lives: a snapshot of the store is of the past (`SnapInv`), a scrape has its node
or has kept it (`PollInv`), a number belongs to one machine for ever
(`RegistryInv`, `NumberedInv`), a removal that has reached its last step has
deregistered (`GoneInv`). `HiddenInv` is the core: a hidden node has its tombstone,
or a later heartbeat, or is gone *and* in nothing that has been read of the store
– the last clause is what keeps a refresh that began before the removal from
bringing it back.

**Only model-checked.** Liveness and fairness (with `ENABLED`) are beyond this
prover, as are statements by induction over data, such as what a recursive
definition computes (`LoadRingPushes` is of this kind), and everything about
`RECURSIVE` operators (the modules have none). `NoStranding` is an invariant of
the instance of `routing` only: with two sessions of one user it is false
(`second_session`), so there is no theorem.


## 7. Where the code and its documentation part

The runs that are expected to fail:

* **`renumbered`** – a registration that adopts a legacy entry renames it in memory
  and then in the store. When the second fails, the retry finds the node under its
  new name, renames nothing, and stores it under a newly allocated number, while
  memory keeps the old one (`handler.go:334,356`). The comment at 330 says that "the
  record keeps its numeric id", that at 353 that "the retry re-applies exactly this
  state". A restart then routes by the new number.
* **`second_session`** – a first login puts the new user's home in memory, lets go
  of `ms.mu` and stores it; a second session of the user is served from memory
  and creates files there; the write fails, memory is rolled back, and the next
  login may choose another node (`handler.go:562-580`). The user's files are then
  on two nodes.
* **`departure`** – `Disconnect` clears the session token before it calls
  UnregisterClient (`client.go:307`), which then carries the Google token, and
  is refused by the interceptor: the session and the callback session stay until
  they expire. The documents say that leaving revokes them.
* **`own_acl`** – `.acl` is not among the names that CreateFile reserves
  (`fileserver.go:1348`). A client who creates or uploads a file of that name
  truncates the directory's ACL file (1380); memory goes on with the old list, and
  the next restart loads whatever the file then holds (`aclstore.go:79-96`), although
  `.acl` files "are metadata, not user files" (`filescanner.go:142`) and a restart
  is to restore "all sharing relationships" (`sharing_acls.md:59`). Access may then
  be lost, or be had without a share. The other properties of the fileserver speak of
  the time before a client does this.
* **`wrong_node`** – a removal whose fsID is not listed falls back to the display id,
  which is the number plus one (`admin/handlers.go:505-515`). A second
  `DELETE /api/nodes/1`, from another tab or as a retry, comes after node 1 is
  gone and takes out node 0: it is deregistered and its users are released. The
  page asks to "permanently remove" the node it names (`Nodes.tsx:21`).

The following were refuted by TLC too, on the instance named or on a small
variant of it; they are kept out of the runs by the exceptions that the
properties' comments name.

*Metaserver.* `RoutingIsDurable`, `NodeTableIsDurable` and `HomesAreRegistered` fail
for legacy machines by the steps of `renumbered`. A first login hides a grant that a
registration has just published (564; `sharing_acls.md:59`). An AssignUser that times
out may be applied after the rollback (576-579). With a removal `NodesRecover` fails:
the node's released users may be placed elsewhere, and its own registration is then
refused for the conflict. A deregistration whose last write was applied but reported
as failed leaves the node in memory and not in the store, which heartbeats do not
repair.

*Fileserver.*
- A crash inside a method renumbers files (`FidsSurvive`, as an invariant of
  `MC_fileserver.cfg`): Save removes the index before it renames the new one into place
  (`inodestore.go:182`), so a crash in between renumbers everything and hands out old
  ids (comments at 122 and 166, `crash_recovery.md:13`), and a crash after a move to
  the trash and before the save renumbers the moved file.
- A directory is trashed, the share of the one above it withdrawn, and the first
  restored: it comes back with the list it had (859), and the user still has access
  (`RevokedUsersAreOut`, as an invariant of `MC_fileserver.cfg`); `sharing_acls.md:53`
  says that access ends with the withdrawal.
- Shares of a trashed directory, or of one restored below a trashed parent, can come
  to name a path where it is not (821-875).
- Unsharing a directory closes one below it that was shared by itself (1205).
- Share and Unshare announce themselves after the lock, and two may cross (1233);
  a registration's snapshot may undo an announcement (`msclient.go:110`); Share
  finds its directory before it locks (998), and it may be gone by then: the share is
  listed, and the `.acl` file written may be that of another directory at the path,
  whose inode learns of it at the next restart (`late`).
- Trashing does not move sizes, so a deletion of the old parent subtracts too
  little or too much (1679). With the trash `SizesAreExact` fails.
- A grantee's upload that breaks off leaves its partial file; a failed upload over
  an existing file deletes that file (`handler.go:574,679`; `quotas.md:89-90`).
- Files can be created in the trash (1366; `trash.md:23`), and a typed name that
  looks like a collision suffix can have a file replaced (497), as can a crash inside
  a method, which may give a file the id in another's suffix.
- The cleanup of a failed upload looks its file up by name (`handler.go:557`): if the
  file was deleted and a directory made in its place, it is the directory that is
  deleted, or kept if it has entries by then.
- A file's own ACL is not stored (`aclstore.go:23`; `crash_recovery.md:12`); a crash
  between the `.acl` file and the share list separates the two.
- SetUserQuota keeps its change in memory when the save fails (`quota.go:52-57`):
  the call is answered with an error, and the quota is in force until a restart.
- With the trash the quota can be passed: deleting the directory a file was trashed
  from takes the file's size off the user's total, though it is still stored.
- `trash.md:63` lets shared users trash, the code only the owner;
  `sharing_acls.md` lets a share be repeated, the code answers with an error.

*Clients and callbacks* (`docs/features/caching.md`).
- ReRegister puts the session at the root and drops the error of the
  ChangeDirectory(".") that should move it to where the client is (`client.go:295`):
  if that call fails the refresh still succeeds, and the client is told nothing about
  the directory it is in (`RefreshSyncsSession`, as a property of `MC_callbacks.cfg`).
- There is one session per user name, so a second client of the user takes over
  the callbacks (`callback_server.go:30,42`); ChangeDir moves all sessions with the
  same root (102-121); GetFIDForPath moves the session and not the client
  (`client.go:620-637`); a cd, or the registration of a refresh, may be carried out and
  its reply lost, upon which the client stays where it was (`cache_handler.go:234`,
  `client.go:271`). These clients are `strayed`, as is one whose refresh failed half
  way, until their next cd or refresh that is answered.
- FILE_DELETED carries the FID of the directory, so nothing is evicted; a listing
  keeps cached contents by name, also those of a file that was made anew or that
  changed while the client was in another directory.
- An invalidation during a download leaves the node marked as cached without a
  local file: reads fail until a refresh (`cache_handler.go:120-128,518-526`).
- Failures of callbacks to an earlier address count against the new session
  (152-160); trash and restore notify nobody; an upload that breaks off, either.

*Tokens.* At the per-user limit a client that registers again evicts the oldest
session, perhaps another client's, though its own previous one is about to go
(`store.go:94-111`). With a full table RegisterClient succeeds with an empty
token. A sweep between the check and the touch of ValidateSession ends a session
that is in use.

*Admin.*
- An alert can stay open after its condition cleared: any alert created later
  makes the pointer stale, and `active.Resolved = true` is written to a copy
  (`alerts.go:131,173,184,326`). `cluster_orchestration.md:30` and 83 say that alerts
  are resolved when metrics return to normal. After a restart the condition is
  active again, and the next check resolves the loaded alert. A change of severity
  likewise leaves two open alerts.
- Alerts of a node that is removed, or goes offline, are never resolved by
  themselves: its conditions are not looked at any more. A full log drops open
  alerts; their condition stays active and is not raised again.
- A node whose metrics address cannot be derived is set offline without an alert
  (`poller.go:187`). Thresholds are `>=` in the checks, `>` in their comments and in
  computeNodeStatus, so that a disk at 95 % has a critical alert and is not
  shown as critical.
- The metrics file brings removed nodes back into the list until the store has been
  read (`server.go:104`); if the store cannot be read, for as long as that.
- A removal that changes only the console lasts until the next heartbeat.
- A retry of a deregistration that had been carried out (`grpc_client.go:163`) can
  remove a machine that has registered anew.
- A scrape that was under way puts the old quota back into the console's copy.
- The SSH handshake is not covered by the timeout of an action (`ssh_executor.go:92`):
  its node stays locked meanwhile. An action is recorded when it ends and not
  before (`actions.go:587`; `cluster_orchestration.md:32,99`): a restart loses it.

## 8. Not modelled

* The in-memory MetaStore: the same interface without partial failures.
* Google sign-in and PKCE: cryptography and an outside service. Who the caller is
  is an input of every model. The fallback to legacy tokens for tests is left out,
  and RevokeAllForUser and GetSessionByClientID, which nobody calls.
* Metrics, discovery of the metaserver, the web UI, flags, certificates, build
  scripts, generated RPC code: no state that the properties could be about.
* In the admin backend: handlers that only read, log tails, presets and the text of
  commands, events sent to the browser, display names from discovery, and the
  sign-in of administrators (`auth.go`), whose result is that an operator may act.
  A call that arrives after its caller has given up on both attempts is not
  modelled in `AdminServer` (the attempts share one deadline).
* Of `.acl` files: the `.acl.tmp` that a crash inside SaveACL leaves behind, which the
  scan lists as a user's file (`filescanner.go:143` passes over `.acl` only) until the
  next SaveACL there renames it away; a *directory* called `.acl`, which Mkdir makes
  where there is no ACL file yet; the Owner an ACL file names. Every move onto a path
  that is taken counts as `replaced`, also those that the OS refuses (onto a directory
  that is not empty).
* On the fileserver: reads and listings, directory uploads, the refusal when the
  disk is full, OS errors other than a crash and a failed save of the quota. In the client:
  dialling, TLS and the layout of the cache on disk; the tree of directories of
  `ClientCache` is fixed, and its Disconnect is that of the default build.
* That every session ends is not checked: the instance that would show it is
  beyond TLC in reasonable time.
