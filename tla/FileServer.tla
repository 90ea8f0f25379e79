----------------------------- MODULE FileServer -----------------------------
(***************************************************************************)
(* The namespace of one user on a fileserver (internal/fileserver): the    *)
(* inode tree and its .trash directory, the files and .acl files on disk,  *)
(* the persistent inode index, the explicit directory shares and what the  *)
(* metaserver has been told of them, sizes and the storage quota, and the  *)
(* requests in flight.                                                     *)
(*                                                                         *)
(* A request is a gRPC handler: it authorises its caller under the read    *)
(* lock, lets go, and then runs one FileServer method under the write      *)
(* lock; Share, Unshare and DeleteFile let go again before they call the   *)
(* metaserver.  Each of these critical sections is one action.             *)
(*                                                                         *)
(* What survives the process is `disk'.  Every method is given by the      *)
(* sequence of durable states its writes leave behind (...Steps), so that  *)
(* a crash can strike between two of them.  Trees of different users share *)
(* only the counter of inode ids; paths are relative to the user's root.   *)
(***************************************************************************)
EXTENDS Integers, Sequences, FiniteSets, SequencesExt

CONSTANTS
    Owner,          \* the user whose tree this is
    Grantees,       \* the users it may be shared with
    ChosenIds,      \* collision suffixes a client may type itself
    MaxId,          \* bound on the inode ids the index may hand out
    Callers,        \* gRPC handlers running at a time
    Workloads,      \* bound: what the clients and the environment may do, a set of
                    \*   [ops, bases, quota, callers, crashes, midOperation, missed, lost]
    None            \* "no entry"

Operations == {"create", "write", "upload", "delete", "trash", "restore",
               "share", "unshare", "setQuota"}

ASSUME FileServerAssumption ==
    /\ MaxId \in Nat /\ MaxId >= 2 /\ ChosenIds \subseteq Nat
    /\ Owner \notin Grantees /\ IsFiniteSet(Callers)
    /\ \A w \in Workloads :
          /\ w.ops \subseteq Operations /\ ".trash" \notin w.bases
          /\ {w.quota, w.callers, w.crashes, w.missed, w.lost} \subseteq Nat
          /\ w.midOperation \in BOOLEAN

Users == Grantees \cup {Owner}
Ids == 0 .. MaxId - 1
Root == 0

\* A name is a base and the inode ids appended to it to avoid collisions
\* ("report__42"); a path is the sequence of names below the user's root.
Name(base, tags) == [base |-> base, tags |-> tags]
trashDirName == Name(".trash", <<>>)
aclFileName == Name(".acl", <<>>)
Grant(path, user) == [path |-> path, user |-> user]

VARIABLES
    disk,       \* [files, index, shares, quota]: what a restart finds
    inodes,     \* fs.inodes, FID -> inode
    index,      \* fs.inodeStore: path -> id, and the next id
    shares,     \* fs.Shared: the explicit (path, user) shares
    quota,      \* fs.quotas of the owner, 0 if none was set
    trashMeta,  \* fs.trashMeta, FID -> where to restore it
    published,  \* external: the shares the metaserver shows for this owner
    registered, \* the sync loop believes the metaserver knows this node
    syncing,    \* the shares a registration in flight carries, or None
    pc, req,    \* per handler: how far it is, and its request
    retired,    \* history: FIDs whose file or directory was deleted
    torn,       \* history: a crash has struck inside a method
    stirred,    \* history: a share, withdrawal or removal took place beside a full trash
    replaced,   \* history: a rename has replaced a file, which memory still lists,
                \*   or a client's file a directory's .acl file
    late,       \* history: a share or withdrawal found its directory deleted
    crashes, missed, lost,  \* how much of each bound is used up
    workload    \* bound: the workload of this behaviour

memory == <<inodes, index, shares, trashMeta>>
sync == <<registered, syncing, missed>>
history == <<retired, torn, stirred, replaced, late>>
process == <<quota, crashes, workload>>
vars == <<disk, memory, published, sync, pc, req, history, process, lost>>

Ops == workload.ops
Bases == workload.bases             \* names without a collision suffix
MaxCrashes == workload.crashes
MidOperation == workload.midOperation   \* may a crash strike between two writes of a method?
MaxMissed == workload.missed        \* heartbeats the metaserver does not accept
MaxLost == workload.lost            \* share notifications that fail
\* getUserQuotaLocked: the user's own quota, or the default.
Quota == IF quota > 0 THEN quota ELSE workload.quota
-----------------------------------------------------------------------------
(* The tree. *)

Live == DOMAIN inodes
Path(i) == inodes[i].path

\* The trash is found by its name in the root; a restart may renumber it.
TrashPath == <<trashDirName>>
Trash == CHOOSE i \in Live : Path(i) = TrashPath

\* collectSubtreeInodes: i and everything below it, along Children.
Subtree(i) ==
    LET closed == {S \in SUBSET Live : i \in S /\ \A k \in S : inodes[k].kids \cap Live \subseteq S}
    IN  {j \in Live : \A S \in closed : j \in S}

\* i and its ancestors up to the root, along Parent.
Chain(i) ==
    LET closed == {S \in SUBSET Live : i \in S /\ \A k \in S : {inodes[k].parent} \cap Live \subseteq S}
    IN  {j \in Live : \A S \in closed : j \in S}

GetChildInodeByName(d, name) == {k \in inodes[d].kids \cap Live : inodes[k].name = name}
isUnderTrash(i) == Trash \in Chain(i)
userCanAccessInode(i, user) == user = Owner \/ user \in inodes[i].shared

\* Mutant: the collision is not looked for.
plainNameInDir(d, name, id) == name
uniqueNameInDir(d, name, id) ==
    IF GetChildInodeByName(d, name) = {} THEN name
    ELSE Name(name.base, Append(name.tags, id))

With(f, x, v) == [y \in DOMAIN f \cup {x} |-> IF y = x THEN v ELSE f[y]]
Without(f, S) == [x \in DOMAIN f \ S |-> f[x]]
Rebase(path, old, new) == new \o SubSeq(path, Len(old) + 1, Len(path))
Below(P, base) == {p \in P : IsPrefix(base, p)}
\* The keys at and below old move to new; what was there is replaced.
RenameKeys(f, old, new) ==
    LET moved == Below(DOMAIN f, old)
        there == {Rebase(p, old, new) : p \in moved}
    IN  [q \in there \cup (DOMAIN f \ moved) |-> IF q \in there THEN f[Rebase(q, new, old)] ELSE f[q]]
-----------------------------------------------------------------------------
(* The inode store. *)

EmptyIndex == [ids |-> <<>>, next |-> 0]
GetOrAssign(ix, path) ==
    IF path \in DOMAIN ix.ids THEN ix
    ELSE [ids |-> With(ix.ids, path, ix.next), next |-> ix.next + 1]
HasRoom(ix, path) == path \in DOMAIN ix.ids \/ ix.next < MaxId
\* Mutant: an id is given back when the newest file is deleted.
IndexRecycle(ix, P) ==
    [ids |-> Without(ix.ids, P),
     next |-> IF \E p \in P \cap DOMAIN ix.ids : ix.ids[p] = ix.next - 1
              THEN ix.next - 1 ELSE ix.next]
IndexRemove(ix, P) == [ix EXCEPT !.ids = Without(@, P)]
\* Mutant: the index is not told of a rename.
RenameNothing(ix, old, new) == ix
RenamePrefix(ix, old, new) == [ix EXCEPT !.ids = RenameKeys(@, old, new)]
\* Save removes the old index file before it renames the new one into place,
\* and a missing index file loads as an empty one.
Save(d, ix) == <<[d EXCEPT !.index = EmptyIndex], [d EXCEPT !.index = ix]>>

SaveDirShares(d, S) == <<[d EXCEPT !.shares = S]>>

\* A directory's .acl file is the acl of its entry.  But a client may make a
\* file of that name, which replaces it: an entry of its own then, whose acl is
\* what its contents say.
IsACLFile(path) == path # <<>> /\ Last(path) = aclFileName
ACLFile(files, dir) ==
    IF Append(dir, aclFileName) \in DOMAIN files THEN Append(dir, aclFileName) ELSE dir
ReplaceACL(files, path) ==
    IF IsACLFile(path) THEN [files EXCEPT ![Front(path)].acl = {}] ELSE files

\* The .acl files of some paths (a file has nowhere to put one).
SaveACL(d, acls) ==
    LET files == d.files
        Listed(p) == IF IsACLFile(p) THEN Front(p) ELSE p
    IN  [d EXCEPT !.files = [p \in DOMAIN files |->
            IF /\ Listed(p) \in DOMAIN acls /\ files[Listed(p)].type = "dir"
               /\ ACLFile(files, Listed(p)) = p
            THEN [files[p] EXCEPT !.acl = acls[Listed(p)]] ELSE files[p]]]

\* A crash inside a method leaves one of the states before its last write.
CutShort(steps) == {steps[k] : k \in 1 .. Len(steps) - 1}
-----------------------------------------------------------------------------
(* The fileserver after the owner's first login: a root and its trash. *)

NewInode(type, name, parent, path, shared) ==
    [type |-> type, name |-> name, parent |-> parent, path |-> path,
     kids |-> {}, shared |-> shared, size |-> 0]
NewEntry(type, id) == [type |-> type, size |-> 0, acl |-> {}, fid |-> id]

RootAndTrash(root, trash) == [p \in {<<>>, TrashPath} |-> IF p = <<>> THEN root ELSE trash]
FirstIndex == [ids |-> RootAndTrash(Root, 1), next |-> 2]
\* GetUserRoot and getOrCreateTrashDirLocked.
Init ==
    /\ inodes = [i \in {Root, 1} |->
                    IF i = Root THEN [NewInode("dir", Name("", <<>>), Root, <<>>, {}) EXCEPT !.kids = {1}]
                    ELSE NewInode("dir", trashDirName, Root, TrashPath, {})]
    /\ index = FirstIndex
    /\ disk = [files  |-> RootAndTrash(NewEntry("dir", Root), NewEntry("dir", 1)),
               index  |-> FirstIndex,
               shares |-> {},
               quota  |-> 0]
    /\ shares = {} /\ trashMeta = <<>>
    /\ published = {} /\ registered = TRUE /\ syncing = None
    /\ pc = [c \in Callers |-> "idle"] /\ req = [c \in Callers |-> None]
    /\ retired = {} /\ torn = FALSE /\ stirred = FALSE /\ replaced = FALSE /\ late = FALSE
    /\ crashes = 0 /\ missed = 0 /\ lost = 0 /\ quota = 0
    /\ workload \in Workloads
-----------------------------------------------------------------------------
(* Requests: the first half of every handler, under the read lock. *)

Begin(c, r) ==
    /\ pc[c] = "idle" /\ r.op \in Ops
    /\ Cardinality({d \in Callers : pc[d] # "idle"}) < workload.callers
    /\ pc' = [pc EXCEPT ![c] = r.op] /\ req' = [req EXCEPT ![c] = r]
    /\ UNCHANGED <<disk, memory, published, sync, history, process, lost>>

\* Mutant: what is already stored is not counted.
FitsQuotaAlone(more) == more <= Quota
\* checkStorageQuotaWithAdditional; WriteFile repeats the test itself.
FitsQuota(more) == more <= Quota /\ inodes[Root].size <= Quota - more

\* SetUserQuota changes memory first; if the file cannot be replaced the call
\* fails, and the new quota is in force until the next restart.
SetUserQuota(q) ==
    /\ quota' = q
    /\ disk' \in {disk, [disk EXCEPT !.quota = quota']}
    /\ UNCHANGED <<memory, published, sync, pc, req, history, crashes, lost, workload>>

\* The handler: an administrator's call, for a quota that is not zero.
SetQuota == "setQuota" \in Ops /\ \E q \in 1 .. workload.quota : SetUserQuota(q)

SendCreate(c) ==
    \E user \in Users, d \in Live, base \in Bases, tags \in {<<>>} \cup {<<i>> : i \in ChosenIds},
       type \in {"file", "dir"}, size \in 0 .. Quota + 1 :
        /\ type = "dir" => size = 0
        /\ FitsQuota(size) /\ userCanAccessInode(d, user)
        /\ Begin(c, [op |-> "create", user |-> user, dir |-> d,
                     name |-> Name(base, tags), type |-> type])

\* A write is told apart by where it ends.
SendWrite(c) ==
    \E user \in Users, d \in Live, end \in 1 .. Quota + 1 : \E k \in inodes[d].kids \cap Live :
        /\ userCanAccessInode(d, user)
        /\ Begin(c, [op |-> "write", dir |-> d, name |-> inodes[k].name, end |-> end])

SendUpload(c) ==
    \E user \in Users, d \in Live : \E k \in inodes[d].kids \cap Live :
        /\ userCanAccessInode(d, user) /\ inodes[k].type = "file"
        /\ Begin(c, [op |-> "upload", user |-> user, dir |-> d, name |-> inodes[k].name,
                     before |-> inodes[Root].size, fid |-> None])

\* Only the owner passes Authorize(PermDelete) here, and only the owner may
\* restore from the owner's trash.  A request that is not recursive either
\* has the same effect or is refused.
SendRemove(c) ==
    \E op \in {"delete", "trash", "restore"}, i \in Live :
        Begin(c, [op |-> op, user |-> Owner, fid |-> i])

\* Share and Unshare look the inode up before they take the lock; gone is
\* what the pointer shows once the inode has been deleted.  A client shares
\* the directory it stands in, and never stands in the trash itself.
SendShare(c) ==
    \E op \in {"share", "unshare"}, i \in Live \ {Trash}, user \in Grantees :
        Begin(c, [op |-> op, user |-> user, fid |-> i, gone |-> None])

Send(c) == SendCreate(c) \/ SendWrite(c) \/ SendUpload(c) \/ SendRemove(c) \/ SendShare(c)

Finish(c) == pc' = [pc EXCEPT ![c] = "idle"] /\ req' = [req EXCEPT ![c] = None]
-----------------------------------------------------------------------------
(* CreateFile. *)

Child(r) == GetChildInodeByName(r.dir, r.name)
NewPath(r) == Append(Path(r.dir), r.name)
\* An existing name is returned as it is; the owner may not create in the
\* trash (the test looks in the trash of the caller, so a grantee passes it).
\* The name .acl is not reserved; Mkdir fails where there is such a file.
CanCreate(r) ==
    /\ r.dir \in Live /\ inodes[r.dir].type = "dir" /\ Child(r) = {}
    /\ ~(r.user = Owner /\ isUnderTrash(r.dir))
    /\ r.name = aclFileName => r.type = "file"
    /\ HasRoom(index, NewPath(r))

\* Mutant: a directory's inherited ACL is not written to its .acl file.
CreateStepsNoACL(r) ==
    LET ix == GetOrAssign(index, NewPath(r)) IN
    Save([disk EXCEPT !.files = With(@, NewPath(r), NewEntry(r.type, ix.ids[NewPath(r)]))], ix)
CreateSteps(r) ==
    LET path == NewPath(r)
        ix == GetOrAssign(index, path)
        made == [disk EXCEPT !.files = With(ReplaceACL(@, path), path, NewEntry(r.type, None))]
        acld == SaveACL(made, [p \in {path} |-> inodes[r.dir].shared])
        saved == Save(acld, ix)
    IN  <<made, acld, saved[1], [saved[2] EXCEPT !.files[path].fid = ix.ids[path]]>>

CreateFile(c) ==
    /\ pc[c] = "create" /\ CanCreate(req[c])
    /\ LET r == req[c]
           ix == GetOrAssign(index, NewPath(r))
           i == ix.ids[NewPath(r)]
       IN  /\ index' = ix
           /\ inodes' = With([inodes EXCEPT ![r.dir].kids = @ \cup {i}], i,
                             NewInode(r.type, r.name, r.dir, NewPath(r), inodes[r.dir].shared))
           /\ disk' = Last(CreateSteps(r))
           /\ replaced' = (replaced \/ r.name = aclFileName)
    /\ Finish(c)
    /\ UNCHANGED <<shares, trashMeta, published, sync, retired, torn, stirred, late, process, lost>>
-----------------------------------------------------------------------------
(* WriteFile, as a request of its own and as the chunks of an upload. *)

Grow(i, more) ==
    [j \in Live |-> IF j \in Chain(i) THEN [inodes[j] EXCEPT !.size = @ + more] ELSE inodes[j]]
CanWrite(r, end) ==
    /\ r.dir \in Live
    /\ \E i \in Child(r) :
          inodes[i].type = "file" /\ (end > inodes[i].size => FitsQuota(end - inodes[i].size))
\* The list of users that what is written may amount to, in an .acl file.
Contents(i) ==
    IF inodes[i].name = aclFileName THEN SUBSET Grantees ELSE {disk.files[Path(i)].acl}
\* Mutant: the sizes above the file are adjusted by the whole write.
WriteToWholeEnd(r, end) ==
    \E i \in Child(r) :
        /\ inodes' = Grow(i, end)
        /\ disk' = [disk EXCEPT !.files[Path(i)].size = IF end > @ THEN end ELSE @]
WriteTo(r, end) ==
    \E i \in Child(r) :
        /\ inodes' = IF end > inodes[i].size THEN Grow(i, end - inodes[i].size) ELSE inodes
        /\ \E acl \in Contents(i) :
              disk' = [disk EXCEPT !.files[Path(i)].size = IF end > @ THEN end ELSE @,
                                   !.files[Path(i)].acl = acl]

WriteFile(c) ==
    /\ pc[c] = "write" /\ CanWrite(req[c], req[c].end) /\ WriteTo(req[c], req[c].end)
    /\ Finish(c)
    /\ UNCHANGED <<index, shares, trashMeta, published, sync, history, process, lost>>

\* The client names itself in every chunk, so uploadUser stays the same.
UploadChunk(c) ==
    /\ pc[c] = "upload"
    /\ \E end \in 1 .. Quota : CanWrite(req[c], end) /\ WriteTo(req[c], end)
    /\ UNCHANGED <<index, shares, trashMeta, published, sync, pc, req, history, process, lost>>

\* The write of a chunk is refused, or the stream breaks.
UploadFails(c) ==
    /\ pc[c] = "upload"
    /\ pc' = [pc EXCEPT ![c] = "scrap"]
    /\ UNCHANGED <<disk, memory, published, sync, req, history, process, lost>>

UploadDone(c) ==
    /\ pc[c] = "upload" /\ Finish(c)
    /\ UNCHANGED <<disk, memory, published, sync, history, process, lost>>

\* cleanupFailedUpload: the file is looked up by name under the read lock and
\* deleted by its FID under the write lock.
ScrapLookup(c) ==
    /\ pc[c] = "scrap"
    /\ IF req[c].dir \in Live /\ Child(req[c]) # {}
       THEN /\ req' = [req EXCEPT ![c].fid = CHOOSE k \in Child(req[c]) : TRUE]
            /\ pc' = [pc EXCEPT ![c] = "scrapDelete"]
       ELSE Finish(c)
    /\ UNCHANGED <<disk, memory, published, sync, history, process, lost>>
-----------------------------------------------------------------------------
(* DeleteFile. *)

\* validateDeletePermissions; every inode of the tree is the owner's.
CanRemove(i, user, recursive) ==
    /\ i \in Live \ {Root, Trash} /\ user = Owner
    /\ recursive \/ inodes[i].kids = {}

SharesBelow(path) == {g \in shares : IsPrefix(path, g.path)}
Paths(I) == {Path(j) : j \in I}

DeleteSteps(i) ==
    LET gone == Paths(Subtree(i))
        removed == [disk EXCEPT !.files = Without(@, gone)]
        saved == Save(removed, IndexRemove(index, gone))
    IN  <<removed>> \o saved \o SaveDirShares(Last(saved), shares \ SharesBelow(Path(i)))

\* Mutant: the result is not kept above zero.
DeductUnclamped(i) ==
    [j \in Live |-> IF j \in Chain(inodes[i].parent)
                    THEN [inodes[j] EXCEPT !.size = @ - inodes[i].size] ELSE inodes[j]]
\* Mutant: only the parent is told that the space is free.
DeductFromParent(i) ==
    [j \in Live |-> IF j = inodes[i].parent
                    THEN [inodes[j] EXCEPT !.size = IF @ > inodes[i].size THEN @ - inodes[i].size ELSE 0]
                    ELSE inodes[j]]
Deduct(i) ==
    [j \in Live |-> IF j \in Chain(inodes[i].parent)
                    THEN [inodes[j] EXCEPT !.size = IF @ > inodes[i].size THEN @ - inodes[i].size ELSE 0]
                    ELSE inodes[j]]

\* A handler between its lookup and the lock keeps the deleted inode.
Outlive(I, q) ==
    [c \in Callers |-> IF pc[c] \in {"share", "unshare"} /\ q[c].fid \in I
                       THEN [q[c] EXCEPT !.gone = inodes[q[c].fid]] ELSE q[c]]

\* For the history: what is in the trash does not follow the shares around it.
Stir == stirred' = (stirred \/ DOMAIN trashMeta # {})

Delete(i) ==
    LET gone == Subtree(i) IN
    /\ inodes' = [j \in Live \ gone |-> [Deduct(i)[j] EXCEPT !.kids = @ \ {i}]]
    /\ index' = IndexRemove(index, Paths(gone))
    /\ shares' = shares \ SharesBelow(Path(i))
    /\ trashMeta' = Without(trashMeta, gone)
    /\ disk' = Last(DeleteSteps(i))
    /\ retired' = retired \cup gone
    /\ Stir
    /\ UNCHANGED <<published, sync, torn, replaced, late, process, lost>>

\* What the handler still has to tell the metaserver.
Notify(c, q, kind, grants) ==
    IF grants = {} THEN /\ pc' = [pc EXCEPT ![c] = "idle"]
                        /\ req' = [q EXCEPT ![c] = None]
    ELSE /\ pc' = [pc EXCEPT ![c] = kind]
         /\ req' = [q EXCEPT ![c] = [op |-> kind, grants |-> grants]]
\* Mutant: the metaserver is not told of a deletion.
NotifyNothing(c, q, i) == Notify(c, q, "RootUnshare", {})
NotifyDeleted(c, q, i) == Notify(c, q, "RootUnshare", SharesBelow(Path(i)))

DeleteFile(c) ==
    /\ pc[c] = "delete" /\ CanRemove(req[c].fid, req[c].user, TRUE)
    /\ Delete(req[c].fid) /\ NotifyDeleted(c, Outlive(Subtree(req[c].fid), req), req[c].fid)

\* Mutant: the partial file is kept.
ScrapNothing(c) ==
    /\ pc[c] = "scrapDelete" /\ Finish(c)
    /\ UNCHANGED <<disk, memory, published, sync, history, process, lost>>
ScrapDelete(c) ==
    /\ pc[c] = "scrapDelete" /\ CanRemove(req[c].fid, req[c].user, FALSE)
    /\ Delete(req[c].fid) /\ NotifyDeleted(c, Outlive({req[c].fid}, req), req[c].fid)
-----------------------------------------------------------------------------
(* TrashFile and RestoreFile. *)

\* RootUnshare or RootShare for each of these grants, under the lock; the
\* calls that fail are logged and forgotten.
TellAll(kind, grants) ==
    \E failed \in SUBSET grants :
        /\ lost' = lost + Cardinality(failed) /\ lost' <= MaxLost
        /\ published' = IF kind = "RootShare" THEN published \cup (grants \ failed)
                                             ELSE published \ (grants \ failed)

\* Mutant: the paths below the inode that moves are left as they were.
MoveTop(i, d, name) ==
    LET from == inodes[i].parent
        Kids(j) == (inodes[j].kids \ (IF j = from THEN {i} ELSE {}))
                     \cup (IF j = d THEN {i} ELSE {})
    IN  [j \in Live |->
           [inodes[j] EXCEPT !.kids = Kids(j),
                             !.parent = IF j = i THEN d ELSE @,
                             !.name = IF j = i THEN name ELSE @,
                             !.path = IF j = i THEN Append(Path(d), name) ELSE @]]
\* The inode moves to another directory and its subtree follows.
Move(i, d, name) ==
    LET new == Append(Path(d), name)
        sub == Subtree(i)
        from == inodes[i].parent
        Kids(j) == (inodes[j].kids \ (IF j = from THEN {i} ELSE {}))
                     \cup (IF j = d THEN {i} ELSE {})
    IN  [j \in Live |->
           [inodes[j] EXCEPT !.kids = Kids(j),
                             !.parent = IF j = i THEN d ELSE @,
                             !.name = IF j = i THEN name ELSE @,
                             !.path = IF j \in sub THEN Rebase(@, Path(i), new) ELSE @]]

\* os.Rename replaces a file by a file; a directory that is in the way is not
\* empty, since it holds its .acl file, and makes the rename fail.
CanRename(old, new) ==
    new \in DOMAIN disk.files => disk.files[old].type = "file" /\ disk.files[new].type = "file"
Rename(d, old, new) == [d EXCEPT !.files = ReplaceACL(RenameKeys(@, old, new), new)]
\* For the history: the file that was there is lost, and its inode is not.
Replace(new) == replaced' = (replaced \/ new \in DOMAIN disk.files)

TrashedAs(i) == uniqueNameInDir(Trash, inodes[i].name, i)
CanTrash(i, user) ==
    /\ CanRemove(i, user, TRUE) /\ inodes[i].parent # Trash
    /\ CanRename(Path(i), Append(Path(Trash), TrashedAs(i)))

TrashSteps(i) ==
    LET new == Append(Path(Trash), TrashedAs(i))
        moved == Rename(disk, Path(i), new)
        detached == SaveDirShares(moved, shares \ SharesBelow(Path(i)))
    IN  <<moved>> \o detached \o Save(Last(detached), RenamePrefix(index, Path(i), new))

TrashFile(c) ==
    /\ pc[c] = "trash" /\ CanTrash(req[c].fid, req[c].user)
    /\ LET i == req[c].fid IN
       /\ inodes' = Move(i, Trash, TrashedAs(i))
       /\ index' = RenamePrefix(index, Path(i), Append(Path(Trash), TrashedAs(i)))
       /\ shares' = shares \ SharesBelow(Path(i))
       /\ TellAll("RootUnshare", SharesBelow(Path(i)))
       /\ trashMeta' = With(trashMeta, i,
                           [parent |-> inodes[i].parent, name |-> inodes[i].name,
                            path |-> Path(i), shares |-> SharesBelow(Path(i))])
       /\ disk' = Last(TrashSteps(i))
       /\ Replace(Append(Path(Trash), TrashedAs(i)))
    /\ Finish(c)
    /\ Stir
    /\ UNCHANGED <<sync, retired, torn, late, process>>

\* The original parent wherever it now is, or the root if it is gone.
RestoreTo(i) == IF trashMeta[i].parent \in Live THEN trashMeta[i].parent ELSE Root
RestoredAs(i) == uniqueNameInDir(RestoreTo(i), trashMeta[i].name, i)
RestoredPath(i) == Append(Path(RestoreTo(i)), RestoredAs(i))
CanRestore(i) ==
    /\ i \in Live /\ inodes[i].parent = Trash /\ i \in DOMAIN trashMeta
    /\ CanRename(Path(i), RestoredPath(i))
Reattached(i) ==
    {Grant(Rebase(g.path, trashMeta[i].path, RestoredPath(i)), g.user) : g \in trashMeta[i].shares}

RestoreSteps(i) ==
    LET saved == Save(Rename(disk, Path(i), RestoredPath(i)),
                      RenamePrefix(index, Path(i), RestoredPath(i)))
    IN  <<Rename(disk, Path(i), RestoredPath(i))>> \o saved
          \o SaveDirShares(Last(saved), shares \cup Reattached(i))

RestoreFile(c) ==
    /\ pc[c] = "restore" /\ CanRestore(req[c].fid)
    /\ LET i == req[c].fid IN
       /\ inodes' = Move(i, RestoreTo(i), RestoredAs(i))
       /\ index' = RenamePrefix(index, Path(i), RestoredPath(i))
       /\ shares' = shares \cup Reattached(i)
       /\ TellAll("RootShare", Reattached(i))
       /\ trashMeta' = Without(trashMeta, {i})
       /\ disk' = Last(RestoreSteps(i))
       /\ Replace(RestoredPath(i))
    /\ Finish(c)
    /\ UNCHANGED <<sync, retired, torn, stirred, late, process>>
-----------------------------------------------------------------------------
(* Share and Unshare. *)

\* The inode the handler found before it took the lock, as it is now.
Target(r) == IF r.fid \in Live THEN inodes[r.fid] ELSE r.gone
\* For the history: what was found is gone, and its path may be another's.
BeLate(r) == late' = (late \/ r.fid \notin Live)
\* A deleted directory has no children left to visit.
Covered(r) == IF r.fid \in Live THEN Subtree(r.fid) ELSE {}
CanShare(r) == Target(r).type = "dir" /\ r.user \notin Target(r).shared
CanUnshare(r) == r.user \in Target(r).shared

\* An ACL once the user of the request has joined or left it.
Changed(r, acl) == IF r.op = "share" THEN acl \cup {r.user} ELSE acl \ {r.user}
WithACL(r) ==
    [j \in Live |-> IF j \in Covered(r) THEN [inodes[j] EXCEPT !.shared = Changed(r, @)] ELSE inodes[j]]
\* The target's .acl file first, then those below it that change, then the
\* list of shares.
TopACL(r) == [p \in {Target(r).path} |-> Changed(r, Target(r).shared)]
Rewritten(r) == {j \in Covered(r) : Changed(r, inodes[j].shared) # inodes[j].shared}
LowerACLs(r) ==
    [p \in Paths(Rewritten(r)) |-> Changed(r, inodes[CHOOSE j \in Rewritten(r) : Path(j) = p].shared)]
SharingSteps(r, S) ==
    LET top == SaveACL(disk, TopACL(r))
        all == SaveACL(top, LowerACLs(r))
    IN  <<top, all>> \o SaveDirShares(all, S)

\* Mutant: when the .acl file has no directory any more, the list is not saved.
ShareStepsIfThere(r) ==
    SharingSteps(r, IF r.fid \in Live THEN shares \cup {Grant(Target(r).path, r.user)} ELSE shares)
ShareSteps(r) == SharingSteps(r, shares \cup {Grant(Target(r).path, r.user)})
UnshareSteps(r) == SharingSteps(r, shares \ {Grant(Target(r).path, r.user)})

Share(c) ==
    /\ pc[c] = "share" /\ CanShare(req[c])
    /\ LET g == Grant(Target(req[c]).path, req[c].user) IN
       /\ inodes' = WithACL(req[c])
       /\ shares' = shares \cup {g}
       /\ disk' = Last(ShareSteps(req[c]))
       /\ Notify(c, req, "RootShare", {g})
    /\ Stir /\ BeLate(req[c])
    /\ UNCHANGED <<index, trashMeta, published, sync, retired, torn, replaced, process, lost>>

\* Mutant: access is withdrawn from the directory itself only.
UnshareTop(c) ==
    /\ pc[c] = "unshare" /\ CanUnshare(req[c]) /\ req[c].fid \in Live
    /\ LET g == Grant(Target(req[c]).path, req[c].user) IN
       /\ inodes' = [inodes EXCEPT ![req[c].fid].shared = @ \ {g.user}]
       /\ shares' = shares \ {g}
       /\ disk' = [UnshareSteps(req[c])[1] EXCEPT !.shares = shares']
       /\ Notify(c, req, "RootUnshare", {g})
    /\ Stir /\ BeLate(req[c])
    /\ UNCHANGED <<index, trashMeta, published, sync, retired, torn, replaced, process, lost>>
Unshare(c) ==
    /\ pc[c] = "unshare" /\ CanUnshare(req[c])
    /\ LET g == Grant(Target(req[c]).path, req[c].user) IN
       /\ inodes' = WithACL(req[c])
       /\ shares' = shares \ {g}
       /\ disk' = Last(UnshareSteps(req[c]))
       /\ Notify(c, req, "RootUnshare", {g})
    /\ Stir /\ BeLate(req[c])
    /\ UNCHANGED <<index, trashMeta, published, sync, retired, torn, replaced, process, lost>>

\* RootShare and RootUnshare, after the lock is released.  An error is logged
\* and nothing is tried again.
Tell(c) ==
    /\ pc[c] \in {"RootShare", "RootUnshare"}
    /\ \E g \in req[c].grants :
          /\ Notify(c, req, pc[c], req[c].grants \ {g})
          /\ \/ /\ published' = IF pc[c] = "RootShare" THEN published \cup {g} ELSE published \ {g}
                /\ UNCHANGED lost
             \/ /\ lost < MaxLost /\ lost' = lost + 1
                /\ UNCHANGED published
    /\ UNCHANGED <<disk, memory, sync, history, process>>

\* The method returns an error, or finds that there is nothing to do.
CanRun(c) ==
    CASE pc[c] = "create"      -> CanCreate(req[c])
      [] pc[c] = "write"       -> CanWrite(req[c], req[c].end)
      [] pc[c] = "delete"      -> CanRemove(req[c].fid, req[c].user, TRUE)
      [] pc[c] = "scrapDelete" -> CanRemove(req[c].fid, req[c].user, FALSE)
      [] pc[c] = "trash"       -> CanTrash(req[c].fid, req[c].user)
      [] pc[c] = "restore"     -> CanRestore(req[c].fid)
      [] pc[c] = "share"       -> CanShare(req[c])
      [] pc[c] = "unshare"     -> CanUnshare(req[c])
      [] OTHER                 -> TRUE
Refuse(c) ==
    /\ ~CanRun(c) /\ Finish(c)
    /\ UNCHANGED <<disk, memory, published, sync, history, process, lost>>
-----------------------------------------------------------------------------
(* The sync loop: a registration replaces all the metaserver shows. *)

HeartbeatFails ==
    /\ registered /\ missed < MaxMissed
    /\ registered' = FALSE /\ missed' = missed + 1
    /\ UNCHANGED <<disk, memory, published, syncing, pc, req, history, process, lost>>

\* Shares whose directory no longer exists are left out.
SendRegistration ==
    /\ ~registered /\ syncing = None
    /\ syncing' = {g \in shares : g.path \in Paths(Live)}
    /\ UNCHANGED <<disk, memory, published, registered, missed, pc, req, history, process, lost>>

Register ==
    /\ syncing # None
    /\ published' = syncing /\ syncing' = None /\ registered' = TRUE
    /\ UNCHANGED <<disk, memory, missed, pc, req, history, process, lost>>
\* The call fails, before or after the metaserver has acted on it; the loop
\* tries again at its next tick.
RegistrationFails ==
    /\ syncing # None
    /\ published' \in {published, syncing} /\ syncing' = None
    /\ UNCHANGED <<disk, memory, registered, missed, pc, req, history, process, lost>>
-----------------------------------------------------------------------------
(* Crash and restart: NewFileServer rebuilds memory from what it finds. *)

\* The size of what is at and below a path, counted byte by byte.
Bytes(files, path) ==
    UNION {{p} \X (1 .. files[p].size) : p \in {p \in Below(DOMAIN files, path) : files[p].type = "file"}}
FileSize(files, path) == Cardinality(Bytes(files, path))

\* The scan goes through the tree level by level and numbers the paths the
\* index does not know, within a level in the order of names (abstract here).
Numberings(ix, P) ==
    {f \in Bijection(P, ix.next .. ix.next + Cardinality(P) - 1) :
        \A p, q \in P : Len(p) < Len(q) => f[p] < f[q]}

Scanned(files, id, p) ==
    [NewInode(files[p].type, IF p = <<>> THEN Name("", <<>>) ELSE Last(p),
              id[IF p = <<>> THEN <<>> ELSE Front(p)], p, files[p].acl)
       EXCEPT !.kids = {id[q] : q \in {q \in DOMAIN files : q # <<>> /\ Front(q) = p}},
              !.size = FileSize(files, p)]

\* The scan passes over .acl files, and LoadACL reads them: one that a client has
\* made becomes the directory's.
Found(files) ==
    [p \in {p \in DOMAIN files : ~IsACLFile(p)} |->
        [files[p] EXCEPT !.acl = files[ACLFile(files, p)].acl]]

RestartFrom(d) ==
    LET unknown == {p \in DOMAIN d.files : p \notin DOMAIN d.index.ids} IN
    /\ crashes < MaxCrashes /\ crashes' = crashes + 1
    /\ d.index.next + Cardinality(unknown) <= MaxId
    /\ \E new \in Numberings(d.index, unknown) :
         LET ids == [p \in DOMAIN new \cup DOMAIN d.index.ids |->
                       IF p \in DOMAIN new THEN new[p] ELSE d.index.ids[p]]
         IN
         /\ index' = [ids |-> ids, next |-> d.index.next + Cardinality(unknown)]
         /\ inodes' = [i \in {ids[p] : p \in DOMAIN d.files} |->
                         Scanned(d.files, ids, CHOOSE p \in DOMAIN d.files : ids[p] = i)]
         /\ disk' = [files |-> [p \in DOMAIN d.files |->
                                 IF d.files[p].fid = None THEN [d.files[p] EXCEPT !.fid = ids[p]] ELSE d.files[p]],
                     index |-> index', shares |-> d.shares, quota |-> d.quota]
    /\ shares' = d.shares /\ trashMeta' = <<>> /\ quota' = d.quota
    /\ registered' = FALSE /\ syncing' = None
    /\ pc' = [c \in Callers |-> "idle"] /\ req' = [c \in Callers |-> None]
    /\ UNCHANGED <<published, missed, lost, workload>>
Restart(d) == RestartFrom([d EXCEPT !.files = Found(@)])

Steps(c) ==
    CASE pc[c] = "create"  -> CreateSteps(req[c])
      [] pc[c] \in {"delete", "scrapDelete"} -> DeleteSteps(req[c].fid)
      [] pc[c] = "trash"   -> TrashSteps(req[c].fid)
      [] pc[c] = "restore" -> RestoreSteps(req[c].fid)
      [] pc[c] = "share"   -> ShareSteps(req[c])
      [] pc[c] = "unshare" -> UnshareSteps(req[c])
      [] OTHER             -> <<>>

\* Phase 3 of DeleteFile removes what is below a directory before it.
HalfRemoved(c) ==
    IF pc[c] \notin {"delete", "scrapDelete"} THEN {}
    ELSE LET all == Paths(Subtree(req[c].fid)) IN
         {[disk EXCEPT !.files = Without(@, P)] :
             P \in {P \in SUBSET all : \A p \in P : Below(all, p) \subseteq P}}

\* The .acl files below the target of a share are written one by one, from the
\* top.
HalfShared(c) ==
    IF pc[c] \notin {"share", "unshare"} THEN {}
    ELSE LET lower == LowerACLs(req[c]) IN
         {SaveACL(SaveACL(disk, TopACL(req[c])), [p \in P |-> lower[p]]) :
             P \in {P \in SUBSET DOMAIN lower :
                       \A p \in P, q \in DOMAIN lower : IsPrefix(q, p) => q \in P}}

Crash == Restart(disk) /\ UNCHANGED history
CrashInside(c) ==
    /\ MidOperation /\ pc[c] # "idle" /\ CanRun(c)
    /\ torn' = TRUE /\ UNCHANGED <<stirred, late>>
    /\ replaced' = (replaced \/ (pc[c] = "create" /\ req[c].name = aclFileName))
    /\ \E d \in CutShort(Steps(c)) \cup HalfRemoved(c) \cup HalfShared(c) :
         /\ Restart(d)
         /\ retired' = retired \cup {i \in Live : \A p \in DOMAIN d.files : d.files[p].fid # i}
-----------------------------------------------------------------------------
Serve(c) == \/ CreateFile(c) \/ WriteFile(c) \/ UploadChunk(c) \/ UploadFails(c)
            \/ UploadDone(c) \/ ScrapLookup(c) \/ ScrapDelete(c) \/ DeleteFile(c)
            \/ TrashFile(c) \/ RestoreFile(c) \/ Share(c) \/ Unshare(c)
            \/ Tell(c) \/ Refuse(c)
Next == \/ \E c \in Callers : Send(c) \/ Serve(c) \/ CrashInside(c)
        \/ SetQuota
        \/ HeartbeatFails \/ SendRegistration \/ Register \/ RegistrationFails \/ Crash

Spec == Init /\ [][Next]_vars
-----------------------------------------------------------------------------
(* Properties. *)

Entry == [type : {"file", "dir"}, size : Nat, acl : SUBSET Grantees, fid : Ids \cup {None}]
IsName(n) == n.base \in Bases \cup {"", ".trash"} /\ n.tags \in Seq(Nat) /\ n # aclFileName
IsIndex(ix) == ix.next \in 0 .. MaxId /\ \A p \in DOMAIN ix.ids : ix.ids[p] < ix.next

\* Memory and disk are well formed: ids come from the index's counter, sizes
\* are natural numbers, an ACL names grantees.  (Once a rename has replaced a
\* file whose inode stays, or a client's file the .acl file of a directory,
\* nothing is said here or below; NothingIsReplaced says when that can be.)
TypeOK ==
    ~replaced =>
    /\ IsIndex(index) /\ IsIndex(disk.index)
    /\ \A p \in DOMAIN disk.files : disk.files[p] \in Entry
    /\ Live \subseteq Ids
    /\ \A i \in Live : /\ inodes[i].type \in {"file", "dir"} /\ IsName(inodes[i].name)
                       /\ inodes[i].kids \subseteq Ids /\ inodes[i].parent \in Ids
                       /\ inodes[i].shared \subseteq Grantees /\ inodes[i].size \in Nat
    /\ DOMAIN trashMeta \subseteq Live
    /\ retired \subseteq Ids

\* Names in the trash are kept apart by the id of the inode: no file that is
\* trashed or restored takes the place of another one, as long as clients do
\* not type such names themselves, or .acl, and no crash inside a method has
\* renumbered the inodes.
NothingIsReplaced == ChosenIds = {} /\ ".acl" \notin Bases /\ ~torn => ~replaced

\* Through creations, deletions, trips to the trash and back, and restarts,
\* nothing is replaced, and until something is, Parent, Children, Name and
\* OSPath describe one and the same tree, in which no two siblings have the
\* same name.
TreeIsConsistent ==
    /\ NothingIsReplaced
    /\ ~replaced => \A i \in Live :
          /\ inodes[i].kids = {j \in Live \ {Root} : inodes[j].parent = i}
          /\ i # Root => /\ inodes[i].parent \in Live
                         /\ Path(i) = Append(Path(inodes[i].parent), inodes[i].name)
          /\ \A j \in Live \ {i} : Path(i) # Path(j)

\* The inodes are exactly the files and directories on disk, at their paths
\* and with the sizes the files have.
DiskMatchesMemory ==
    ~replaced =>
    /\ Paths(Live) = DOMAIN disk.files
    /\ \A i \in Live : /\ disk.files[Path(i)].type = inodes[i].type
                       /\ inodes[i].type = "file" => disk.files[Path(i)].size = inodes[i].size

\* A file keeps the FID its creation returned for as long as it exists, across
\* renames into and out of the trash and across restarts: "File Identifiers
\* (FIDs) must be stable across reboots".  Not after a crash inside a method.
FidsSurvive == \A i \in Live : disk.files[Path(i)].fid = i

\* That holds, whatever the requests and however often the server is restarted
\* between them, until a crash strikes between two writes of a method.
FidsAreStable == ~torn /\ ~replaced => FidsSurvive

\* The FID of a deleted file never comes to name another one, with the same
\* exception: "old IDs are never recycled".
FidsAreNotReused == ~torn /\ ~replaced => Live \cap retired = {}

\* What a restart would load as the list of explicit shares and as the ACLs of
\* directories is what the running server uses.  For the ACLs there is an
\* exception: a share or its withdrawal that came after its directory was deleted
\* may have written to the .acl file of another directory at the same path.  (If
\* a client has made a file called .acl nothing is said: see RestartsKeepAccess.)
SharingIsDurable ==
    ~replaced =>
    /\ disk.shares = shares
    /\ ~late => \A i \in Live : inodes[i].type = "dir" => disk.files[Path(i)].acl = inodes[i].shared

\* With one client at a time, as long as the node stays registered and no call
\* fails, whenever no request is in flight the metaserver shows exactly the
\* explicit shares.  (The news of two requests may cross, and a registration may
\* undo the news of a request.)
AnnouncedSharesAreCurrent ==
    workload.callers = 1 /\ crashes = 0 /\ missed = 0 /\ lost = 0 /\ (\A c \in Callers : pc[c] = "idle")
        => published = shares

\* Whoever may use something outside the trash does so by a share of it or of
\* a directory above it, unless something else was shared, unshared or removed
\* while it, or anything, was in the trash, a share or withdrawal came too late
\* for its directory, a crash came between the .acl files and the share list, or
\* a client has written an .acl file itself, which the next restart reads.
AccessHasASource ==
    ~stirred /\ ~late /\ ~torn /\ ~replaced => \A i \in Live : ~isUnderTrash(i) =>
        \A user \in inodes[i].shared :
            \E p \in Prefixes(Path(i)) : Grant(p, user) \in shares

\* A user who holds no share any more, neither in force nor set aside with
\* something in the trash, can open nothing outside the trash.
\* RestoreFile does not keep this: what it restores comes back with the list it
\* had (fileserver.go:859), whatever was withdrawn since.
RevokedUsersAreOut ==
    \A user \in Grantees :
        (\A S \in {shares} \cup {trashMeta[i].shares : i \in DOMAIN trashMeta} :
            \A g \in S : g.user # user)
        => \A i \in Live : ~isUnderTrash(i) => user \notin inodes[i].shared

\* "When a FileServer restarts, all sharing relationships and .acl files persisted
\* to disk are reloaded", and .acl files "are metadata, not user files": whoever
\* had access to a directory before a restart has it afterwards, and nobody else.
RestartsKeepAccess ==
    [][crashes' # crashes =>
          \A i \in Live \cap DOMAIN inodes' :
              inodes[i].type = "dir" => inodes'[i].shared = inodes[i].shared]_vars

\* Where the trash is not used, every directory's size is the sum of the files
\* below it.  (A file that is trashed or restored stays in the size of the
\* directories it was in.)
SizesAreExact ==
    "trash" \notin Ops /\ ~replaced => \A i \in Live : inodes[i].size = FileSize(disk.files, Path(i))

\* Where the trash is not used, what a user stores grows only up to the quota
\* in force at that moment, whatever quota the handler had checked before it
\* got the write lock.
QuotaIsRespected ==
    [][("trash" \notin Ops /\ ~replaced' /\ FileSize(disk'.files, <<>>) > FileSize(disk.files, <<>>))
          => FileSize(disk'.files, <<>>) <= Quota]_vars

\* When the cleanup of the owner's failed upload ends (a crash cuts it short),
\* the partial file is gone.  (A grantee may not delete it; and by the time of
\* the lookup the name may be a directory's, which may have entries.)
FailedUploadsAreScrapped ==
    [][\A c \in Callers :
          (/\ pc[c] = "scrapDelete" /\ pc'[c] # "scrapDelete" /\ crashes' = crashes
           /\ ~replaced /\ req[c].user = Owner
           /\ req[c].fid \in Live /\ inodes[req[c].fid].type = "file")
          => req[c].fid \notin DOMAIN inodes']_vars

=============================================================================
