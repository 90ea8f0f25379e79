---------------------------- MODULE ClientCache ----------------------------
(***************************************************************************)
(* The clients' file caches (internal/client/cache_handler.go) and the     *)
(* callbacks that keep them coherent (internal/fileserver/                 *)
(* callback_server.go, internal/client/callback_server.go).                *)
(*                                                                         *)
(* A client runs one command at a time; pc[c] is where the command has got *)
(* to and req[c] holds its local variables.  Each call of the fileserver   *)
(* is one step, what the client does on its reply included where nobody    *)
(* could see the difference; callbacks arrive between any two steps, on a  *)
(* thread of their own and without a lock.  A callback is a message in     *)
(* `calls', sent by a goroutine of its own, so they overtake each other.   *)
(* A call may fail while client and server live: before the server has     *)
(* acted (CallFails) or after it, its reply lost.                          *)
(*                                                                         *)
(* The tree of directories is fixed; files come and go.  A file's contents *)
(* are told apart by the number of the upload that wrote them.             *)
(***************************************************************************)
EXTENDS Naturals, FiniteSets, Bags

CONSTANTS
    Clients,            \* client processes
    Users, UserOf,      \* and who runs them
    Owner,              \* the owner of the tree, who alone may delete
    Dirs, ParentOf,     \* the directories, and where each one lies
    RootOf,             \* the root each client has selected
    Names, NamesIn,     \* names of files, and those used in each directory
    Commands,           \* the commands the users of this instance type
    maxCallbackFailures,
    MaxClock,           \* bound on create and upload commands
    MaxCalls,           \* no change is announced while so many callbacks are in flight
    MaxFaults,          \* bound on clients that exit or die, crashes of the server,
                        \* sessions that fall idle, calls and callbacks that fail
    None                \* "no entry"

ASSUME ClientCacheAssumption ==
    /\ UserOf \in [Clients -> Users] /\ RootOf \in [Clients -> Dirs]
    /\ Owner \in Users
    /\ NamesIn \in [Dirs -> SUBSET Names]
    /\ ParentOf \in [Dirs -> Dirs \cup {None}]
    /\ maxCallbackFailures \in Nat \ {0}
    /\ {MaxClock, MaxCalls, MaxFaults} \subseteq Nat
    /\ None \notin Clients \cup Nat \cup [dir : Dirs]
    /\ None \notin [fid : Nat, contentCached : BOOLEAN, contentUID : BOOLEAN, of : Nat, data : Nat]
    /\ Commands \subseteq {"read", "create", "upload", "download", "delete", "cd", "refresh"}

VARIABLES
    tree,       \* the files on the server: directory -> name -> file or None
    clock,      \* the number of the last create or upload
    sessions,   \* fs.sessions: user -> callback session or None
    calls,      \* the bag of callbacks in flight
    cache,      \* per client: directory -> name -> CNode or None
    curr,       \* per client: CacheHandler.curr
    pc, req,    \* per client: how far its command is
    excused,    \* history: <<client, FID>>, an upload it has not been told about
    strayed,    \* history: clients whose session was moved, or left behind, without them
    faults      \* how much of MaxFaults is used up

server == <<tree, clock, sessions, calls>>
client == <<cache, curr, pc, req>>
history == <<excused, strayed>>
vars == <<server, client, history, faults>>

Up(c) == pc[c] # "off"
Fault == faults < MaxFaults /\ faults' = faults + 1
-----------------------------------------------------------------------------
(* The fileserver's side. *)

NewFile(fid) == [fid |-> fid, data |-> 0]
NewNode(fid) == [fid |-> fid, contentCached |-> FALSE, contentUID |-> FALSE,
                 of |-> 0, data |-> 0]
Unseen == [d \in Dirs |-> [n \in Names |-> None]]

\* UpsertClientSession: one session per user, whichever client it is.
Session(c) == [addr |-> c, root |-> RootOf[c], dir |-> RootOf[c], fresh |-> TRUE,
               failures |-> 0]

\* UpdateClientCurrentDirByRootFID: whoever has selected the same root.
MoveSessions(root, d) ==
    [u \in Users |-> IF sessions[u] # None /\ sessions[u].root = root
                     THEN [sessions[u] EXCEPT !.dir = d, !.fresh = TRUE]
                     ELSE sessions[u]]

Touch(u) == IF sessions[u] = None THEN sessions
            ELSE [sessions EXCEPT ![u].fresh = TRUE]

\* Mutant: a session that has failed once is passed over.
NotifyFaultless(d, origin) ==
    {u \in Users : /\ sessions[u] # None /\ u # origin /\ sessions[u].failures = 0
                   /\ sessions[u].fresh /\ sessions[u].dir = d}
\* snapshotNotifyTargetsForDirLocked (origin None: nobody is left out).
NotifyTargets(d, origin) ==
    {u \in Users : /\ sessions[u] # None /\ u # origin
                   /\ sessions[u].fresh /\ sessions[u].dir = d}

\* One goroutine per target.  fid is the file that changed; the events of a
\* directory carry the directory's FID, which no cached file has (None).
SendInvalidates(d, origin, fid) ==
    LET Listener(c) == IF Up(c) THEN c ELSE None
    IN  /\ BagCardinality(calls) < MaxCalls
        /\ calls' = calls (+) SetToBag({[to |-> Listener(sessions[u].addr), user |-> u,
                                         fid |-> fid] : u \in NotifyTargets(d, origin)})

\* Mutant: one failure more than allowed.
CallbackFailedOnceMore(u) ==
    IF sessions[u] = None THEN sessions
    ELSE IF sessions[u].failures >= maxCallbackFailures
    THEN [sessions EXCEPT ![u] = None]
    ELSE [sessions EXCEPT ![u].failures = @ + 1]
\* recordCallbackResult: the session is found by the user, whichever address
\* the callback went to.
CallbackFailed(u) ==
    IF sessions[u] = None THEN sessions
    ELSE IF sessions[u].failures + 1 >= maxCallbackFailures
    THEN [sessions EXCEPT ![u] = None]
    ELSE [sessions EXCEPT ![u].failures = @ + 1]
CallbackSucceeded(u) ==
    IF sessions[u] = None THEN sessions ELSE [sessions EXCEPT ![u].failures = 0]
-----------------------------------------------------------------------------
(* The client's side. *)

Goto(c, label) == pc' = [pc EXCEPT ![c] = label]
Local(c, r) == req' = [req EXCEPT ![c] = r]
Done(c) == Goto(c, "idle") /\ Local(c, None)
Typed(c, cmd) == pc[c] = "idle" /\ cmd \in Commands

\* populateNodeCache: a node that is known by its name is kept, cached
\* contents included; the rest of the listing is new.
Populate(nodes, files) ==
    [n \in Names |-> IF files[n] = None THEN None
                     ELSE IF nodes[n] # None THEN [nodes[n] EXCEPT !.fid = files[n].fid]
                     ELSE NewNode(files[n].fid)]

\* InvalidateFileByFID.
Invalidate(nodes, fid) ==
    [d \in Dirs |-> [n \in Names |->
        IF nodes[d][n] # None /\ nodes[d][n].fid = fid
        THEN [nodes[d][n] EXCEPT !.contentCached = FALSE, !.contentUID = FALSE]
        ELSE nodes[d][n]]]

\* Where the command of c takes it: a cd moves on before its listing.
Heading(c) == IF pc[c] = "entering" /\ req[c] # None THEN req[c].dir ELSE curr[c]

\* What is on its way to c goes to nobody.
Orphaned(c) ==
    LET mine == {m \in BagToSet(calls) : m.to = c}
    IN  (calls (-) [m \in mine |-> calls[m]])
        (+) [m \in {[x EXCEPT !.to = None] : x \in mine} |-> calls[[m EXCEPT !.to = c]]]
\* The process ends, its cache with it.  Callbacks to its listener will fail.
Gone(c) ==
    /\ pc' = [pc EXCEPT ![c] = "off"] /\ req' = [req EXCEPT ![c] = None]
    /\ cache' = [cache EXCEPT ![c] = Unseen] /\ curr' = [curr EXCEPT ![c] = RootOf[c]]
    /\ calls' = Orphaned(c)
-----------------------------------------------------------------------------
(* Connect and Disconnect. *)

Init ==
    /\ tree = Unseen /\ clock = 0
    /\ sessions = [u \in Users |-> None]
    /\ calls = EmptyBag
    /\ cache = [c \in Clients |-> Unseen]
    /\ curr = RootOf
    /\ pc = [c \in Clients |-> "off"] /\ req = [c \in Clients |-> None]
    /\ excused = {} /\ strayed = {} /\ faults = 0

\* Mutant: the user's session is updated in place, its directory kept.
RegisterInPlace(c) ==
    LET old == sessions[UserOf[c]] IN
    /\ sessions' = [sessions EXCEPT ![UserOf[c]] =
                       [Session(c) EXCEPT !.dir = IF old = None THEN @ ELSE old.dir]]
    /\ strayed' = strayed \ {c}
\* Whoever registers has the user's session, at the root.
RegisterClient(c) ==
    /\ sessions' = [sessions EXCEPT ![UserOf[c]] = Session(c)]
    /\ strayed' = strayed \ {c}

Connect(c) ==
    /\ pc[c] = "off"
    /\ RegisterClient(c)
    /\ Goto(c, "connecting")
    /\ excused' = {x \in excused : x[1] # c}
    /\ UNCHANGED <<tree, clock, calls, cache, curr, req, faults>>

\* exit, or back to the choice of a root: UnregisterClient goes by the user.
Disconnect(c) ==
    /\ pc[c] = "idle" /\ Fault
    /\ sessions' = [sessions EXCEPT ![UserOf[c]] = None]
    /\ Gone(c)
    /\ UNCHANGED <<tree, clock, history>>

\* NewCacheHandler, and the listing that ends cd and refresh.
List(c) ==
    LET d == Heading(c) IN
    /\ pc[c] \in {"connecting", "entering"}
    /\ curr' = [curr EXCEPT ![c] = d]
    /\ cache' = [cache EXCEPT ![c][d] = Populate(@, tree[d])]
    /\ Done(c)
    /\ UNCHANGED <<server, history, faults>>
-----------------------------------------------------------------------------
(* read *)

\* A cached file is served from ./.cache, or cannot be found there; either way
\* nothing changes.  Otherwise a name is made up for the local file and the
\* download begins.
ReadFile(c) ==
    /\ Typed(c, "read")
    /\ \E n \in Names :
          /\ cache[c][curr[c]][n] # None /\ ~cache[c][curr[c]][n].contentCached
          /\ cache' = [cache EXCEPT ![c][curr[c]][n].contentUID = TRUE]
          /\ Local(c, [name |-> n, file |-> None])
    /\ Goto(c, "reading")
    /\ UNCHANGED <<server, curr, history, faults>>

\* DownloadFile goes by the name; it fails if there is no such file any more.
\* When the file is not the one the node was made for, the callbacks will name
\* a FID that this client does not know.
DownloadFile(c) ==
    LET file == tree[curr[c]][req[c].name] IN
    /\ pc[c] = "reading"
    /\ IF file = None THEN Done(c) /\ UNCHANGED excused
       ELSE /\ Local(c, [req[c] EXCEPT !.file = file]) /\ Goto(c, "downloaded")
            /\ excused' = IF file.fid = cache[c][curr[c]][req[c].name].fid
                          THEN excused \ {<<c, file.fid>>}
                          ELSE excused \cup {<<c, file.fid>>}
    /\ UNCHANGED <<server, cache, curr, strayed, faults>>

FinishRead(c) ==
    LET file == req[c].file IN
    /\ pc[c] = "downloaded"
    /\ cache' = [cache EXCEPT ![c][curr[c]][req[c].name] =
                    [@ EXCEPT !.contentCached = TRUE, !.of = file.fid, !.data = file.data]]
    /\ Done(c)
    /\ UNCHANGED <<server, curr, history, faults>>
-----------------------------------------------------------------------------
(* create and upload *)

\* A command that has succeeded leaves a new node, without contents.
AddNode(c, n, fid) == [cache EXCEPT ![c][curr[c]][n] = NewNode(fid)]

\* CreateFile returns a file that exists as it is; everyone in the directory
\* is told of a new file either way.  The command takes a number, for a new
\* file's FID and for what it is about to upload.  (A create whose reply is
\* lost leaves what an upload leaves that gets no further, see CallFails.)
CreateFile(c) ==
    /\ pc[c] = "idle" /\ clock < MaxClock /\ clock' = clock + 1
    /\ \E cmd \in {"create", "upload"} \cap Commands, n \in NamesIn[curr[c]] :
         LET d == curr[c]
             file == IF tree[d][n] = None THEN NewFile(clock') ELSE tree[d][n]
         IN  /\ tree' = [tree EXCEPT ![d][n] = file]
             /\ SendInvalidates(d, None, None)
             /\ IF cmd = "create" THEN cache' = AddNode(c, n, file.fid) /\ Done(c)
                ELSE /\ Local(c, [name |-> n, file |-> [file EXCEPT !.data = clock']])
                     /\ Goto(c, "created") /\ UNCHANGED cache
    /\ UNCHANGED <<sessions, curr, history, faults>>

\* UploadFile: the chunks, which go by the name...
WriteChunks(c) ==
    LET d == curr[c]  n == req[c].name IN
    /\ pc[c] = "created"
    /\ IF tree[d][n] = None
       THEN Done(c) /\ UNCHANGED tree
       ELSE /\ tree' = [tree EXCEPT ![d][n].data = req[c].file.data]
            /\ Goto(c, "closing") /\ UNCHANGED req
    /\ sessions' = Touch(UserOf[c])
    /\ UNCHANGED <<clock, calls, cache, curr, history, faults>>

\* Why a client may not be told of an upload to d: it is the author's, it is
\* not there or on its way, its session is elsewhere, gone, another client's,
\* or idle.
Excuse(c, d, origin) ==
    LET s == sessions[UserOf[c]] IN
    \/ UserOf[c] = origin
    \/ curr[c] # d
    \/ pc[c] = "entering" /\ req[c] # None
    \/ pc[c] = "registered" \/ c \in strayed
    \/ s = None \/ s.addr # c \/ ~s.fresh

\* The caller's cache follows, unless the reply is lost.
OnReply(after) == \/ cache' = after /\ UNCHANGED faults
                  \/ UNCHANGED cache /\ Fault

\* ...and the end of the stream: NotifyFileUpdated.
CloseUpload(c) ==
    LET d == curr[c]  file == tree[d][req[c].name] IN
    /\ pc[c] = "closing"
    /\ IF file = None THEN UNCHANGED <<calls, cache, excused, faults>>
       ELSE /\ SendInvalidates(d, UserOf[c], file.fid)
            /\ excused' = excused \cup {<<x, file.fid>> :
                             x \in {x \in Clients : Excuse(x, d, UserOf[c])}}
            /\ OnReply(AddNode(c, req[c].name, req[c].file.fid))
    /\ Done(c)
    /\ UNCHANGED <<tree, clock, sessions, curr, strayed>>
-----------------------------------------------------------------------------
(* delete *)

\* The server's listing tells the FID...
FindFile(c) ==
    /\ Typed(c, "delete") /\ UserOf[c] = Owner
    /\ \E n \in Names : /\ tree[curr[c]][n] # None
                        /\ Local(c, [name |-> n, file |-> tree[curr[c]][n]])
    /\ Goto(c, "deleting")
    /\ UNCHANGED <<server, cache, curr, history, faults>>

\* ...and the file of that FID is deleted; the cached copies elsewhere are not
\* invalidated, since the event names the directory.
DeleteFile(c) ==
    LET d == curr[c]  n == req[c].name IN
    /\ pc[c] = "deleting"
    /\ IF tree[d][n] = None \/ tree[d][n].fid # req[c].file.fid
       THEN UNCHANGED <<tree, calls, cache, faults>>
       ELSE /\ tree' = [tree EXCEPT ![d][n] = None]
            /\ SendInvalidates(d, UserOf[c], None)
            /\ OnReply([cache EXCEPT ![c][d][n] = None])
    /\ Done(c)
    /\ UNCHANGED <<clock, sessions, curr, history>>
-----------------------------------------------------------------------------
(* cd, refresh, and a download from another directory *)

\* Where cd leads: the root, the directory above, or one below.
Reachable(c) == {d \in Dirs : \/ d = RootOf[c]
                              \/ curr[c] # RootOf[c] /\ d = ParentOf[curr[c]]
                              \/ ParentOf[d] = curr[c]}

\* The clients whose session a ChangeDir under c's root moves as well.
Others(c) == {x \in Clients \ {c} : /\ sessions[UserOf[x]] # None
                                    /\ sessions[UserOf[x]].root = RootOf[c]}

ChangeDir(c) ==
    /\ Typed(c, "cd")
    /\ \E d \in Reachable(c) : /\ sessions' = MoveSessions(RootOf[c], d)
                               /\ Local(c, [dir |-> d])
    /\ strayed' = (strayed \ {c}) \cup Others(c)
    /\ Goto(c, "entering")
    /\ UNCHANGED <<tree, clock, calls, cache, curr, excused, faults>>

\* The reply is lost: cd returns the error, and the client stays where it is.
ChangeDirUnanswered(c) ==
    /\ Typed(c, "cd") /\ Fault
    /\ \E d \in Reachable(c) : sessions' = MoveSessions(RootOf[c], d)
    /\ strayed' = strayed \cup Others(c) \cup {c}
    /\ UNCHANGED <<tree, clock, calls, client, excused>>

\* GetFIDForPath asks with ChangeDir, which moves the session but not the
\* client.
Download(c) ==
    /\ Typed(c, "download")
    /\ \E d \in {d \in Dirs : ParentOf[d] = curr[c]} : sessions' = MoveSessions(RootOf[c], d)
    /\ strayed' = strayed \cup Others(c) \cup {c}
    /\ UNCHANGED <<tree, clock, calls, client, excused, faults>>

\* Client.ReRegister: the session is back at the root...
ReRegister(c) ==
    /\ Typed(c, "refresh")
    /\ RegisterClient(c)
    /\ Goto(c, IF curr[c] = RootOf[c] THEN "entering" ELSE "registered")
    /\ UNCHANGED <<tree, clock, calls, cache, curr, req, excused, faults>>

\* The registration or its reply is lost.  Refresh logs it and lists all the
\* same.
ReRegisterUnanswered(c) ==
    /\ Typed(c, "refresh") /\ Fault
    /\ \/ UNCHANGED <<sessions, strayed>>
       \/ /\ sessions' = [sessions EXCEPT ![UserOf[c]] = Session(c)]
          /\ strayed' = IF curr[c] = RootOf[c] THEN strayed \ {c} ELSE strayed \cup {c}
    /\ Goto(c, "entering")
    /\ UNCHANGED <<tree, clock, calls, cache, curr, req, excused>>

\* ...until `ChangeDirectory(".")' takes it to where the client is (or fails,
\* which nobody looks at: CallFails; its reply does not matter).
FollowClient(c) ==
    /\ pc[c] = "registered"
    /\ sessions' = MoveSessions(RootOf[c], curr[c])
    /\ strayed' = (strayed \ {c}) \cup Others(c)
    /\ Goto(c, "entering")
    /\ UNCHANGED <<tree, clock, calls, cache, curr, req, excused, faults>>
-----------------------------------------------------------------------------
(* Callbacks, time and failures *)

\* What callbacks that do not arrive would have told.
Unsent(ms) == {<<m.to, m.fid>> : m \in {m \in ms : None \notin {m.to, m.fid}}}

\* The callback server of the client answers.
Deliver(m) ==
    /\ BagIn(m, calls) /\ m.to # None
    /\ cache' = [cache EXCEPT ![m.to] = Invalidate(@, m.fid)]
    /\ sessions' = CallbackSucceeded(m.user)
    /\ calls' = calls (-) SetToBag({m})
    /\ UNCHANGED <<tree, clock, curr, pc, req, history, faults>>

\* The client is gone, or the call times out, before or after it acted.
Fail(m) ==
    /\ BagIn(m, calls)
    /\ \/ /\ m.to = None
          /\ UNCHANGED <<cache, excused, faults>>
       \/ /\ m.to # None /\ Fault
          /\ \/ excused' = excused \cup Unsent({m}) /\ UNCHANGED cache
             \/ cache' = [cache EXCEPT ![m.to] = Invalidate(@, m.fid)] /\ UNCHANGED excused
    /\ sessions' = CallbackFailed(m.user)
    /\ calls' = calls (-) SetToBag({m})
    /\ UNCHANGED <<tree, clock, curr, pc, req, strayed>>

\* activeSessionTTL passes without a cd, an upload or a registration.
FallIdle(u) ==
    /\ Fault
    /\ sessions[u] # None /\ sessions[u].fresh
    /\ sessions' = [sessions EXCEPT ![u].fresh = FALSE]
    /\ UNCHANGED <<tree, clock, calls, client, history>>

\* An upload that breaks off after its first chunk notifies nobody.
BrokenUpload(c) == IF pc[c] = "closing" THEN {tree[curr[c]][req[c].name]} \ {None} ELSE {}
Untold(files) == {<<c, file.fid>> : c \in Clients, file \in files}

\* cleanupFailedUpload: DeleteFile by the uploader, which is the owner's right.
Scrapped(c) == IF UserOf[c] = Owner
               THEN [tree EXCEPT ![curr[c]][req[c].name] = None] ELSE tree

\* The stream breaks after a chunk, or a chunk cannot be written; the client
\* gets an error and goes on.
BreakUpload(c) ==
    /\ Fault
    /\ \/ pc[c] = "closing" /\ UNCHANGED sessions
       \/ pc[c] \in {"created", "closing"} /\ sessions' = Touch(UserOf[c])
    /\ tree' = Scrapped(c)
    /\ Done(c)
    /\ excused' = excused \cup Untold(BrokenUpload(c))
    /\ UNCHANGED <<clock, calls, cache, curr, strayed>>

\* The client dies; if it was sending chunks, its stream breaks.
Kill(c) ==
    /\ Up(c) /\ Fault
    /\ tree' = IF pc[c] = "closing" THEN Scrapped(c) ELSE tree
    /\ Gone(c)
    /\ excused' = excused \cup Untold(BrokenUpload(c))
    /\ UNCHANGED <<clock, sessions, strayed>>

\* What a client does next when its call fails: it does not survive that while
\* it connects, and ReRegister ignores it.
AfterFailure == [l \in {"connecting", "entering", "reading", "created", "closing",
                        "deleting", "registered"} |->
                    CASE l = "connecting" -> "off" [] l = "registered" -> "entering"
                      [] OTHER -> "idle"]

\* A call of c's fails without effect while the server lives.  A cd that
\* cannot list has moved all the same; a session that was registered anew
\* stays at the root.  (Of a client that connects, the process ends: Kill.)
CallFails(c) ==
    /\ pc[c] \in DOMAIN AfterFailure \ {"connecting", "closing"} /\ Fault
    /\ Goto(c, AfterFailure[pc[c]]) /\ Local(c, None)
    /\ curr' = [curr EXCEPT ![c] = Heading(c)]
    /\ strayed' = IF pc[c] = "registered" THEN strayed \cup {c} ELSE strayed
    /\ UNCHANGED <<server, cache, excused>>

\* The fileserver dies and restarts: sessions and callbacks are lost, and the
\* calls in flight fail; a stream that is open is one of them.
CrashServer ==
    /\ Fault
    /\ sessions' = [u \in Users |-> None]
    /\ calls' = EmptyBag
    /\ \E hit \in SUBSET {c \in Clients : pc[c] \in DOMAIN AfterFailure} :
          /\ {c \in Clients : pc[c] = "closing"} \subseteq hit
          /\ pc' = [c \in Clients |-> IF c \in hit THEN AfterFailure[pc[c]] ELSE pc[c]]
          /\ req' = [c \in Clients |-> IF c \in hit THEN None ELSE req[c]]
          /\ curr' = [c \in Clients |-> IF c \in hit THEN Heading(c) ELSE curr[c]]
    /\ excused' = excused \cup Untold(UNION {BrokenUpload(c) : c \in Clients})
                 \cup Unsent(BagToSet(calls))
    /\ UNCHANGED <<tree, clock, cache, strayed>>

Next ==
    \/ \E c \in Clients :
          \/ Connect(c) \/ Disconnect(c) \/ List(c)
          \/ ReadFile(c) \/ DownloadFile(c) \/ FinishRead(c)
          \/ CreateFile(c) \/ WriteChunks(c) \/ CloseUpload(c)
          \/ FindFile(c) \/ DeleteFile(c)
          \/ ChangeDir(c) \/ Download(c) \/ ReRegister(c) \/ FollowClient(c)
          \/ ChangeDirUnanswered(c) \/ ReRegisterUnanswered(c)
          \/ CallFails(c) \/ BreakUpload(c) \/ Kill(c)
    \/ \E m \in BagToSet(calls) : Deliver(m) \/ Fail(m)
    \/ \E u \in Users : FallIdle(u)
    \/ CrashServer

Spec == Init /\ [][Next]_vars
-----------------------------------------------------------------------------
(* Properties *)

Files == [fid : 1..MaxClock, data : 0..MaxClock]
CNodes == [fid : 1..MaxClock, contentCached : BOOLEAN, contentUID : BOOLEAN,
           of : 0..MaxClock, data : 0..MaxClock]
Sessions == [addr : Clients, root : Dirs, dir : Dirs, fresh : BOOLEAN,
             failures : 0..(maxCallbackFailures - 1)]
Callbacks == [to : Clients \cup {None}, user : Users, fid : 1..MaxClock \cup {None}]
Requests == [name : Names, file : Files \cup {None}] \cup [dir : Dirs] \cup {None}

\* Every variable keeps its type.  In particular a session that is kept has
\* fewer than maxCallbackFailures failures, and callbacks in flight are to
\* clients that run or to None.
TypeOK ==
    /\ tree \in [Dirs -> [Names -> Files \cup {None}]] /\ clock \in 0..MaxClock
    /\ sessions \in [Users -> Sessions \cup {None}]
    /\ IsABag(calls) /\ BagToSet(calls) \subseteq Callbacks
    /\ cache \in [Clients -> [Dirs -> [Names -> CNodes \cup {None}]]]
    /\ curr \in [Clients -> Dirs]
    /\ pc \in [Clients -> DOMAIN AfterFailure \cup {"off", "idle", "downloaded"}]
    /\ req \in [Clients -> Requests]
    /\ excused \subseteq Clients \X (1..MaxClock) /\ strayed \subseteq Clients
    /\ faults \in 0..MaxFaults
    /\ \A m \in BagToSet(calls) : m.to # None => Up(m.to)

\* What a client would read from its cache is what the server has, unless the
\* upload is still running, its callback is on its way, or the client had no
\* claim to a callback when the upload ended (`excused').  A download that
\* overlaps an upload is no exception: a callback that comes before the
\* download ends leaves the node without a local file.
CachedCopiesAreCurrent ==
    \A c \in Clients, d \in Dirs, n \in Names :
        LET node == cache[c][d][n]  file == tree[d][n] IN
        /\ Up(c) /\ node # None /\ file # None
        /\ node.contentCached /\ node.contentUID
        /\ node.fid = file.fid /\ node.of = file.fid /\ node.data # file.data
        => \/ <<c, file.fid>> \in excused
           \/ \E m \in BagToSet(calls) : m.to = c /\ m.fid = file.fid
           \/ \E w \in Clients : pc[w] = "closing" /\ curr[w] = d /\ req[w].name = n

\* When a client waits for a command its callback session, if it has one, is
\* in the directory the client is in.  The exceptions (`strayed') last until
\* its next cd or refresh whose calls are all answered: somebody else's
\* ChangeDir, or a download by path, has moved the session; a cd or refresh of
\* its own was acted on and the reply lost; or the ChangeDirectory(".") of a
\* refresh failed.  Every other failure of a call, callback, client or server
\* leaves the two in agreement.
SessionFollowsClient ==
    \A c \in Clients :
        pc[c] = "idle" /\ c \notin strayed /\ sessions[UserOf[c]] # None
            /\ sessions[UserOf[c]].addr = c
        => sessions[UserOf[c]].dir = curr[c]

\* What the comment in ReRegister says (client.go:292): registered anew, a
\* client that is not at its root has its session synced to its directory
\* before Refresh goes on and reports success.  The error of the call that
\* does it is dropped (client.go:295), so this is not so.
RefreshSyncsSession ==
    [][\A c \in Clients :
          LET s == sessions'[UserOf[c]] IN
          pc[c] = "registered" /\ pc'[c] = "entering" /\ s # None /\ s.addr = c
          => s.dir = curr'[c]]_vars
=============================================================================
