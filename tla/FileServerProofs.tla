-------------------------- MODULE FileServerProofs --------------------------
(***************************************************************************)
(* Proofs about FileServer that build on the invariant of its tree: names, *)
(* FIDs, ACLs, the cleanup of uploads, sizes and quota, what the           *)
(* metaserver is told, and access.                                         *)
(***************************************************************************)
EXTENDS FileServerTreeProofs
-----------------------------------------------------------------------------
(* Names: the suffixes of a name are ids of the inode that has it. *)

OwnName(name, i) == \A k \in 1 .. Len(name.tags) : name.tags[k] = i
OwnTree(n) == \A i \in DOMAIN n : OwnName(n[i].name, i)
OwnMeta(meta) == \A i \in DOMAIN meta : OwnName(meta[i].name, i)
PlainRequests(k, q) == \A c \in Callers : k[c] = "create" => q[c].name.tags = <<>>
OwnInv == OwnTree(inodes) /\ OwnMeta(trashMeta) /\ PlainRequests(pc, req)

\* A name's suffix is a sequence of numbers.
LEMMA NameTags ==
    ASSUME NEW name \in NameSet, NEW i \in Ids
    PROVE  name.tags \in Seq(Nat) /\ i \in Nat
<1>1. name.tags \in Seq(Nat)
  BY DEF NameSet
<1>2. i \in Nat
  BY FileServerAssumption DEF Ids
<1> QED BY <1>1, <1>2

\* uniqueNameInDir appends an inode's own id.
LEMMA UniqueOwn ==
    ASSUME NEW d, NEW name \in NameSet, NEW i \in Ids, OwnName(name, i)
    PROVE  OwnName(uniqueNameInDir(d, name, i), i)
<1> DEFINE t == name.tags
           x == Name(name.base, Append(name.tags, i))
<1>1. t \in Seq(Nat) /\ i \in Nat
  BY NameTags
<1>2. \A k \in 1 .. Len(t) : t[k] = i
  BY DEF OwnName
<1>3. x.tags = Append(t, i)
  BY DEF Name
<1> HIDE DEF t, x
<1>4. \A k \in 1 .. Len(Append(t, i)) : Append(t, i)[k] = i
  <2>1. /\ Len(Append(t, i)) = Len(t) + 1 /\ Append(t, i)[Len(t) + 1] = i
        /\ \A k \in 1 .. Len(t) : Append(t, i)[k] = t[k]
        /\ Len(t) \in Nat
    BY <1>1, AppendFacts
  <2> QED BY <1>2, <2>1
<1>5. OwnName(x, i)
  BY <1>3, <1>4 DEF OwnName
<1> QED
  BY <1>5 DEF uniqueNameInDir, x

\* The name uniqueNameInDir finds is free.
LEMMA FreeName ==
    ASSUME CoreInv, OwnTree(inodes), NEW d \in Live, NEW name \in NameSet, NEW i \in Live, inodes[i].parent # d
    PROVE  Append(Path(d), uniqueNameInDir(d, name, i)) \notin DOMAIN disk.files
<1> DEFINE u == uniqueNameInDir(d, name, i)
           t == name.tags
<1>1. TreeOK(inodes) /\ Paths(Live) = DOMAIN disk.files
  BY CoreFacts
<1>2. i \in Ids
  BY <1>1 DEF TreeOK, Live
<1>3. u \in NameSet
  BY <1>2, UniqueName
<1> SUFFICES ASSUME Append(Path(d), u) \in DOMAIN disk.files PROVE FALSE
  OBVIOUS
<1>4. PICK k \in Live : Path(k) = Append(Path(d), u)
  BY <1>1 DEF Paths
<1>5. k \in GetChildInodeByName(d, u)
  <2> HIDE DEF u
  <2> QED BY <1>1, <1>3, <1>4, ChildPath
<1>6. CASE GetChildInodeByName(d, name) = {}
  BY <1>5, <1>6 DEF uniqueNameInDir
<1>7. CASE GetChildInodeByName(d, name) # {}
  <2>1. u = Name(name.base, Append(t, i))
    BY <1>7 DEF uniqueNameInDir
  <2>2. u.tags = Append(t, i)
    BY <2>1 DEF Name
  <2>3. t \in Seq(Nat) /\ i \in Nat
    BY <1>2, NameTags
  <2>4. inodes[k].name = u /\ k \in inodes[d].kids
    BY <1>5 DEF GetChildInodeByName
  <2>5. inodes[k].parent = d
    BY <1>1, <2>4 DEF TreeOK, Live
  <2>6. OwnName(u, k)
    BY <2>4 DEF OwnTree, Live
  <2> HIDE DEF t, u
  <2>7. Len(Append(t, i)) = Len(t) + 1 /\ Append(t, i)[Len(t) + 1] = i /\ Len(t) \in Nat
    BY <2>3, AppendFacts
  <2>8. Len(t) + 1 \in 1 .. Len(u.tags)
    BY <2>2, <2>7
  <2>9. k = i
    BY <2>2, <2>6, <2>7, <2>8 DEF OwnName
  <2> QED BY <2>5, <2>9
<1> QED
  BY <1>6, <1>7

\* Nothing is in the way of TrashFile: only this inode has its id in its name.
LEMMA TrashNameFree ==
    ASSUME CoreInv, OwnTree(inodes), NEW i, NEW user, CanTrash(i, user)
    PROVE  TrashNew(i) \notin DOMAIN disk.files
<1>1. i \in Live /\ inodes[i].parent # Trash
  BY DEF CanTrash, CanRemove
<1>2. TreeOK(inodes)
  BY CoreFacts
<1>3. Trash \in Live
  BY <1>2, TrashIs
<1>4. inodes[i].name \in NameSet
  BY <1>1, <1>2, TreePaths DEF Live
<1> QED
  BY <1>1, <1>3, <1>4, FreeName DEF TrashNew, TrashedAs

\* Nothing is in the way of RestoreFile either.
LEMMA RestoreNameFree ==
    ASSUME CoreInv, OwnTree(inodes), NEW i, CanRestore(i)
    PROVE  RestoredPath(i) \notin DOMAIN disk.files
<1>1. i \in Live /\ inodes[i].parent = Trash /\ i \in DOMAIN trashMeta
  BY DEF CanRestore
<1>2. TreeOK(inodes) /\ MetaOK(inodes, index, trashMeta)
  BY CoreFacts
<1>3. Trash # Root /\ Path(Trash) = TrashPath
  BY <1>2, TrashIs
<1>4. RestoreTo(i) \in Live
  BY RestoreTarget
<1>5. trashMeta[i] \in MetaSet /\ (trashMeta[i].parent \in Live => Path(trashMeta[i].parent) # TrashPath)
  BY <1>1, <1>2 DEF MetaOK, Live, Path
<1>6. RestoreTo(i) # Trash
  BY <1>3, <1>5 DEF RestoreTo
<1>7. trashMeta[i].name \in NameSet
  BY <1>5 DEF MetaSet
<1> QED
  BY <1>1, <1>4, <1>6, <1>7, FreeName DEF RestoredPath, RestoredAs

\* Hence no step replaces a file.
LEMMA NeverReplaces ==
    ASSUME CoreInv, OwnInv, ".acl" \notin Bases, ~replaced, Next
    PROVE  ~replaced'
<1>0. OwnTree(inodes)
  BY DEF OwnInv
<1>9. ASSUME NEW c \in Callers, pc[c] = "create" PROVE req[c].name # aclFileName
  <2>1. req[c].name.base \in Bases
    BY <1>9, MyRequest, Zenon DEF RequestOK
  <2>2. aclFileName.base = ".acl"
    BY DEF aclFileName, Name
  <2> QED BY <2>1, <2>2
<1>10. ASSUME NEW c \in Callers, CreateFile(c) PROVE ~replaced'
  BY <1>9, <1>10 DEF CreateFile
<1>1. CASE \E c \in Callers : Send(c)
  BY <1>1, SendKeeps DEF history
<1>2. ASSUME NEW c \in Callers,
             WriteFile(c) \/ UploadChunk(c) \/ UploadFails(c) \/ UploadDone(c) \/ ScrapLookup(c)
               \/ Tell(c) \/ Refuse(c)
      PROVE  ~replaced'
  <2>1. UNCHANGED history
    BY <1>2, Zenon DEF WriteFile, UploadChunk, UploadFails, UploadDone, ScrapLookup, Tell, Refuse
  <2> QED BY <2>1 DEF history
<1>3. ASSUME NEW c \in Callers, DeleteFile(c) \/ ScrapDelete(c) \/ Share(c) \/ Unshare(c) PROVE ~replaced'
  <2>1. \A i : Delete(i) => UNCHANGED <<replaced, process>>
    BY Zenon DEF Delete
  <2>2. DeleteFile(c) \/ ScrapDelete(c) => UNCHANGED <<replaced, process>>
    BY <2>1, Zenon DEF DeleteFile, ScrapDelete
  <2>3. Share(c) \/ Unshare(c) => UNCHANGED <<replaced, process>>
    BY Zenon DEF Share, Unshare
  <2> QED BY <1>3, <2>2, <2>3
<1>4. ASSUME NEW c \in Callers, TrashFile(c) PROVE ~replaced'
  <2>1. CanTrash(req[c].fid, req[c].user) /\ Replace(TrashNew(req[c].fid))
    BY <1>4 DEF TrashFile, TrashNew
  <2>2. TrashNew(req[c].fid) \notin DOMAIN disk.files
    BY <1>0, <2>1, TrashNameFree
  <2> QED BY <2>1, <2>2 DEF Replace
<1>5. ASSUME NEW c \in Callers, RestoreFile(c) PROVE ~replaced'
  <2>1. CanRestore(req[c].fid) /\ Replace(RestoredPath(req[c].fid))
    BY <1>5 DEF RestoreFile
  <2>2. RestoredPath(req[c].fid) \notin DOMAIN disk.files
    BY <1>0, <2>1, RestoreNameFree
  <2> QED BY <2>1, <2>2 DEF Replace
<1>6. ASSUME NEW c \in Callers, CrashInside(c) PROVE ~replaced'
  BY <1>6, <1>9 DEF CrashInside
<1>7. CASE Crash
  BY <1>7 DEF Crash, history
<1>8. CASE SetQuota \/ HeartbeatFails \/ SendRegistration \/ Register \/ RegistrationFails
  BY <1>8 DEF SetQuota, SetUserQuota, HeartbeatFails, SendRegistration, Register, RegistrationFails, history
<1> QED
  BY <1>1, <1>2, <1>3, <1>4, <1>5, <1>6, <1>7, <1>8, <1>10, NextServes

\* A restart between two requests finds every inode where it was.
Reread ==
    /\ index' = index /\ DOMAIN inodes' = DOMAIN inodes
    /\ \A i \in DOMAIN inodes :
          /\ inodes'[i].path = inodes[i].path /\ inodes'[i].type = inodes[i].type
          /\ inodes'[i].shared = disk.files[inodes[i].path].acl
          /\ inodes'[i].size = FileSize(disk.files, inodes[i].path)
          /\ inodes'[i].name = (IF i = Root THEN Name("", <<>>) ELSE inodes[i].name)

\* A restart of an undamaged disk finds the same tree.
LEMMA RestartSame ==
    ASSUME CoreInv, RestartedFrom(disk)
    PROVE  Reread
<1> DEFINE f == disk.files
           ids == index.ids
<1>1. /\ TreeOK(inodes) /\ disk.index = index /\ Numbered(inodes, index) /\ Paths(Live) = DOMAIN f
  BY CoreFacts
<1>2. \A i \in Live : Path(i) \in DOMAIN ids /\ ids[Path(i)] = i
  BY <1>1 DEF Numbered, Live, Path
<1>3. DOMAIN f \subseteq DOMAIN ids
  BY <1>1, <1>2 DEF Paths
<1>4. index' = index
  BY <1>1, <1>3 DEF RestartedFrom
<1>5. ScanOf(inodes', f, ids)
  BY <1>4 DEF RestartedFrom
<1>6. DOMAIN inodes' = {ids[p] : p \in DOMAIN f}
  BY <1>5 DEF ScanOf
<1>7. DOMAIN inodes' = Live
  BY <1>1, <1>2, <1>6 DEF Paths
<1>8. ASSUME NEW i \in Live
      PROVE  /\ inodes'[i].path = inodes[i].path /\ inodes'[i].type = inodes[i].type
             /\ inodes'[i].shared = disk.files[inodes[i].path].acl
             /\ inodes'[i].size = FileSize(disk.files, inodes[i].path)
             /\ inodes'[i].name = (IF i = Root THEN Name("", <<>>) ELSE inodes[i].name)
  <2> DEFINE p == Path(i)
  <2>1. p \in DOMAIN f /\ ids[p] = i /\ f[p].type = inodes[i].type
    BY <1>2, CoreFacts
  <2>2. /\ inodes'[i].type = f[p].type /\ inodes'[i].path = p /\ inodes'[i].shared = f[p].acl
        /\ inodes'[i].name = (IF p = <<>> THEN Name("", <<>>) ELSE Last(p))
        /\ inodes'[i].size = FileSize(f, p)
    BY <1>5, <2>1 DEF ScanOf
  <2>3. i = Root => p = <<>>
    BY <1>1 DEF TreeOK, Path, Live
  <2>4. i # Root => p # <<>> /\ Last(p) = inodes[i].name
    BY <1>1, TreePaths DEF Path, Live
  <2> QED BY <2>1, <2>2, <2>3, <2>4 DEF Path
<1> QED
  BY <1>4, <1>7, <1>8 DEF Reread, Live

\* No handler but one that starts is given a new request to create.
NoNewCreate == \A b \in Callers : pc'[b] = "create" => pc[b] = "create" /\ req'[b] = req[b]

\* Names that clients chose stay without suffix.
LEMMA PlainKept ==
    ASSUME PlainRequests(pc, req), NoNewCreate
    PROVE  PlainRequests(pc', req')
BY DEF PlainRequests, NoNewCreate

\* A handler that goes on leaves the creations of the others.
LEMMA OneStep ==
    ASSUME CoreInv, NEW c \in Callers, NEW k, k # "create", pc' = [pc EXCEPT ![c] = k],
           NEW r, DOMAIN r = Callers, \A b \in Callers : pc[b] = "create" => r[b] = req[b],
           NEW q, req' = [r EXCEPT ![c] = q]
    PROVE  NoNewCreate
BY DEF NoNewCreate, CoreInv, RequestInv

\* A deletion leaves creations in flight as they are.
LEMMA OutliveCreates ==
    ASSUME NEW I, NEW b \in Callers, pc[b] = "create"
    PROVE  Outlive(I, req)[b] = req[b]
BY DEF Outlive

\* Telling the metaserver creates nothing.
LEMMA TellsNoCreate ==
    ASSUME CoreInv, NEW c \in Callers, NEW kind \in {"RootShare", "RootUnshare"}, NEW g,
           NEW r, DOMAIN r = Callers, \A b \in Callers : pc[b] = "create" => r[b] = req[b], Notify(c, r, kind, g)
    PROVE  NoNewCreate
<1>1. \E k, q : k # "create" /\ pc' = [pc EXCEPT ![c] = k] /\ req' = [r EXCEPT ![c] = q]
  BY DEF Notify
<1> QED BY <1>1, OneStep

\* No method adds a request to create.
LEMMA ServeCreates ==
    ASSUME CoreInv, NEW c \in Callers, Serve(c)
    PROVE  NoNewCreate
<1>0. DOMAIN req = Callers /\ DOMAIN pc = Callers
  BY DEF CoreInv, RequestInv
<1>1. CASE Finish(c)
  BY <1>0, <1>1, OneStep DEF Finish
<1>2. CASE pc' = pc /\ req' = req
  BY <1>2 DEF NoNewCreate
<1>3. CASE UploadFails(c)
  BY <1>0, <1>3 DEF UploadFails, NoNewCreate
<1>4. ASSUME NEW k, req' = [req EXCEPT ![c].fid = k], pc' = [pc EXCEPT ![c] = "scrapDelete"] PROVE NoNewCreate
  <2>1. req' = [req EXCEPT ![c] = [req[c] EXCEPT !.fid = k]]
    BY <1>4
  <2> QED BY <1>0, <1>4, <2>1, OneStep
<1>5. ASSUME NEW kind \in {"RootShare", "RootUnshare"}, NEW g, Notify(c, req, kind, g) PROVE NoNewCreate
  BY <1>0, <1>5, TellsNoCreate
<1>6. ASSUME NEW I, NEW i, NotifyDeleted(c, Outlive(I, req), i) PROVE NoNewCreate
  <2> DEFINE o == Outlive(I, req)
             g == SharesBelow(Path(i))
  <2>1. DOMAIN o = Callers
    BY DEF Outlive
  <2>2. \A b \in Callers : pc[b] = "create" => o[b] = req[b]
    BY OutliveCreates
  <2>3. Notify(c, o, "RootUnshare", g)
    BY <1>6 DEF NotifyDeleted
  <2> HIDE DEF o, g
  <2> QED BY <2>1, <2>2, <2>3, TellsNoCreate
<1>7. CASE CreateFile(c) \/ WriteFile(c) \/ UploadDone(c) \/ TrashFile(c) \/ RestoreFile(c) \/ Refuse(c)
  BY <1>1, <1>7, Zenon DEF CreateFile, WriteFile, UploadDone, TrashFile, RestoreFile, Refuse
<1>8. CASE UploadChunk(c)
  <2>1. pc' = pc /\ req' = req
    BY <1>8 DEF UploadChunk
  <2> QED BY <1>2, <2>1
<1>9. CASE ScrapLookup(c)
  BY <1>1, <1>4, <1>9 DEF ScrapLookup
<1>10. CASE ScrapDelete(c) \/ DeleteFile(c)
  BY <1>6, <1>10 DEF ScrapDelete, DeleteFile
<1>11. CASE Share(c) \/ Unshare(c)
  BY <1>5, <1>11 DEF Share, Unshare
<1>12. CASE Tell(c)
  <2>1. PICK g : Notify(c, req, pc[c], req[c].grants \ {g}) /\ pc[c] \in {"RootShare", "RootUnshare"}
    BY <1>12 DEF Tell
  <2> DEFINE kind == pc[c]
             G == req[c].grants \ {g}
  <2>2. Notify(c, req, kind, G) /\ kind \in {"RootShare", "RootUnshare"}
    BY <2>1
  <2> HIDE DEF kind, G
  <2> QED BY <1>5, <2>2
<1> QED
  BY <1>3, <1>7, <1>8, <1>9, <1>10, <1>11, <1>12 DEF Serve

\* Inodes that keep their names keep their own ids in them.
LEMMA SameNames ==
    ASSUME NEW n, OwnTree(n), NEW m, DOMAIN m \subseteq DOMAIN n, \A i \in DOMAIN m : m[i].name = n[i].name
    PROVE  OwnTree(m)
BY DEF OwnTree

\* A name without suffix is anybody's.
LEMMA PlainOwn ==
    ASSUME NEW name, name.tags = <<>>, NEW i
    PROVE  OwnName(name, i)
BY DEF OwnName

\* CreateFile keeps suffixes to their owners.
LEMMA OwnCreate ==
    ASSUME CoreInv, OwnInv, NEW c \in Callers, CreateFile(c), ~replaced'
    PROVE  OwnTree(inodes') /\ OwnMeta(trashMeta')
<1> DEFINE r == req[c]
<1>1. /\ CanCreate(r) /\ index' = NewIndex(r) /\ inodes' = CreatedTree(r) /\ disk' = Last(CreateSteps(r))
      /\ shares' = shares /\ trashMeta' = trashMeta /\ r.name # aclFileName
  BY DEF CreateFile, NewIndex, NewId, CreatedTree
<1>2. RequestOK(inodes, "create", r)
  BY MyRequest DEF CreateFile
<1>3. r.name.tags = <<>>
  BY DEF CreateFile, OwnInv, PlainRequests
<1> HIDE DEF r
<1>4. TreeAdded(inodes, inodes', NewId(r), r.dir, r.name, NewPath(r), r.type)
  BY <1>1, <1>2, CreateStep
<1> DEFINE i == NewId(r)
           name == r.name
<1>5. /\ inodes' \in [DOMAIN inodes \cup {i} -> InodeSet] /\ inodes'[i].name = name
      /\ \A j \in DOMAIN inodes : inodes'[j].name = inodes[j].name
  BY <1>4 DEF TreeAdded
<1> HIDE DEF i
<1>6. OwnName(name, i)
  BY <1>3, PlainOwn
<1> HIDE DEF name
<1>7. OwnTree(inodes')
  BY <1>5, <1>6 DEF OwnInv, OwnTree
<1> QED
  BY <1>1, <1>7 DEF OwnInv

\* A move does, if the new name has the inode's own id.
LEMMA OwnMoved ==
    ASSUME NEW n, OwnTree(n), NEW i, NEW d, NEW name, NEW m, Moved(n, m, i, d, name), OwnName(name, i)
    PROVE  OwnTree(m)
BY DEF Moved, OwnTree

\* So does the memory of a trashed name.
LEMMA OwnMetaAdded ==
    ASSUME NEW meta, OwnMeta(meta), NEW i, NEW e, OwnName(e.name, i), NEW w, w = With(meta, i, e)
    PROVE  OwnMeta(w)
BY DEF With, OwnMeta

\* TrashFile keeps suffixes to their owners.
LEMMA OwnTrash ==
    ASSUME CoreInv, OwnInv, NEW c \in Callers, TrashFile(c), ~replaced'
    PROVE  OwnTree(inodes') /\ OwnMeta(trashMeta')
<1> DEFINE i == req[c].fid
           e == [parent |-> inodes[i].parent, name |-> inodes[i].name, path |-> Path(i), shares |-> SharesBelow(Path(i))]
<1>1. Trashed(i) /\ trashMeta' = With(trashMeta, i, e)
  BY TrashCore DEF TrashFile
<1>2. i \in Live /\ Moved(inodes, inodes', i, Trash, TrashedAs(i))
  BY <1>1 DEF Trashed
<1>3. e.name = inodes[i].name
  OBVIOUS
<1> HIDE DEF i, e
<1>4. TreeOK(inodes) /\ OwnTree(inodes) /\ OwnMeta(trashMeta)
  BY CoreFacts DEF OwnInv
<1>5. OwnName(inodes[i].name, i) /\ i \in Ids /\ inodes[i].name \in NameSet
  BY <1>2, <1>4, TreePaths DEF OwnTree, Live, TreeOK
<1>6. OwnName(TrashedAs(i), i)
  BY <1>5, UniqueOwn DEF TrashedAs
<1>7. OwnTree(inodes')
  BY <1>2, <1>4, <1>6, OwnMoved
<1>8. OwnName(e.name, i) /\ trashMeta' = With(trashMeta, i, e)
  BY <1>1, <1>3, <1>5
<1>9. OwnMeta(trashMeta')
  BY <1>4, <1>8, OwnMetaAdded
<1> QED
  BY <1>7, <1>9

\* RestoreFile keeps suffixes to their owners.
LEMMA OwnRestore ==
    ASSUME CoreInv, OwnInv, NEW c \in Callers, RestoreFile(c), ~replaced'
    PROVE  OwnTree(inodes') /\ OwnMeta(trashMeta')
<1> DEFINE i == req[c].fid
<1>1. Restored(i) /\ trashMeta' = Without(trashMeta, {i})
  BY RestoreCore DEF RestoreFile
<1>2. i \in Live /\ i \in DOMAIN trashMeta /\ Moved(inodes, inodes', i, RestoreTo(i), RestoredAs(i))
  BY <1>1 DEF Restored
<1> HIDE DEF i
<1>4. TreeOK(inodes) /\ OwnTree(inodes) /\ OwnMeta(trashMeta) /\ MetaOK(inodes, index, trashMeta)
  BY CoreFacts DEF OwnInv
<1>5. OwnName(trashMeta[i].name, i) /\ i \in Ids /\ trashMeta[i].name \in NameSet
  BY <1>2, <1>4 DEF OwnMeta, Live, TreeOK, MetaOK, MetaSet
<1>6. OwnName(RestoredAs(i), i)
  BY <1>5, UniqueOwn DEF RestoredAs
<1>7. OwnTree(inodes')
  BY <1>2, <1>4, <1>6, OwnMoved
<1>8. \A j \in DOMAIN trashMeta' : j \in DOMAIN trashMeta /\ trashMeta'[j] = trashMeta[j]
  BY <1>1 DEF Without
<1>9. OwnMeta(trashMeta')
  BY <1>4, <1>8 DEF OwnMeta
<1> QED
  BY <1>7, <1>9

\* Every method does.
LEMMA OwnServe ==
    ASSUME CoreInv, OwnInv, workload \in Workloads, NEW c \in Callers, Serve(c), ~replaced'
    PROVE  OwnInv'
<1>0. PlainRequests(pc', req')
  BY ServeCreates, PlainKept DEF OwnInv
<1> SUFFICES OwnTree(inodes') /\ OwnMeta(trashMeta')
  BY <1>0 DEF OwnInv, OwnTree, OwnMeta, PlainRequests
<1>1. OwnTree(inodes) /\ OwnMeta(trashMeta)
  BY DEF OwnInv
<1>2. CASE CreateFile(c)
  BY <1>2, OwnCreate
<1>3. CASE TrashFile(c)
  BY <1>3, OwnTrash
<1>4. CASE RestoreFile(c)
  BY <1>4, OwnRestore
<1>5. CASE WriteFile(c) \/ UploadChunk(c)
  <2>1. PICK end \in Nat : CanWrite(req[c], end) /\ WriteTo(req[c], end)
    <3>1. CASE WriteFile(c)
      BY <3>1, MyRequest DEF WriteFile, RequestOK
    <3>2. CASE UploadChunk(c)
      BY <3>2, QuotaNat DEF UploadChunk, CoreInv
    <3> QED BY <1>5, <3>1, <3>2
  <2>2. index' = index /\ shares' = shares /\ trashMeta' = trashMeta
    BY <1>5 DEF WriteFile, UploadChunk
  <2>3. \E i, e : Wrote(i, e)
    BY <2>1, <2>2, WriteStep
  <2>4. DOMAIN inodes' \subseteq DOMAIN inodes /\ \A i \in DOMAIN inodes' : inodes'[i].name = inodes[i].name
    BY <2>3 DEF Wrote, Written
  <2> QED BY <1>1, <2>2, <2>4, SameNames
<1>6. CASE DeleteFile(c) \/ ScrapDelete(c)
  <2> DEFINE i == req[c].fid
  <2>1. Deleted(i)
    BY <1>6, DeletesCore
  <2>2. DOMAIN inodes' \subseteq DOMAIN inodes /\ \A j \in DOMAIN inodes' : inodes'[j].name = inodes[j].name
    BY <2>1 DEF Deleted, Removed
  <2>3. trashMeta' = Without(trashMeta, Subtree(i))
    BY <2>1 DEF Deleted, Delete
  <2>4. \A j \in DOMAIN trashMeta' : j \in DOMAIN trashMeta /\ trashMeta'[j] = trashMeta[j]
    BY <2>3 DEF Without
  <2>5. OwnMeta(trashMeta')
    BY <1>1, <2>4 DEF OwnMeta
  <2> QED BY <1>1, <2>2, <2>5, SameNames
<1>7. CASE Share(c) \/ Unshare(c)
  <2>1. Opened(inodes, inodes', req[c])
    BY <1>7, ShareCore
  <2>2. DOMAIN inodes' \subseteq DOMAIN inodes /\ \A j \in DOMAIN inodes' : inodes'[j].name = inodes[j].name
    BY <2>1 DEF Opened
  <2>3. trashMeta' = trashMeta
    BY <1>7 DEF Share, Unshare
  <2> QED BY <1>1, <2>2, <2>3, SameNames
<1>8. CASE UploadFails(c) \/ UploadDone(c) \/ ScrapLookup(c) \/ Tell(c) \/ Refuse(c)
  <2>1. inodes' = inodes /\ trashMeta' = trashMeta
    BY <1>8, QuietServe DEF Quiet, memory
  <2> QED BY <1>1, <2>1
<1> QED
  BY <1>2, <1>3, <1>4, <1>5, <1>6, <1>7, <1>8 DEF Serve

\* The handlers after a request has been sent.
LEMMA BeginIs ==
    ASSUME CoreInv, NEW c \in Callers, NEW r, Begin(c, r), NEW b \in Callers
    PROVE  /\ pc'[b] = IF b = c THEN r.op ELSE pc[b]
           /\ req'[b] = IF b = c THEN r ELSE req[b]
BY DEF Begin, CoreInv, RequestInv

\* Clients who type no suffix keep suffixes to their owners.
LEMMA OwnSend ==
    ASSUME CoreInv, OwnInv, ChosenIds = {}, NEW c \in Callers, Send(c)
    PROVE  OwnInv'
<1>1. inodes' = inodes /\ trashMeta' = trashMeta
  BY SendKeeps DEF memory
<1>2. \E r : Begin(c, r) /\ (r.op = "create" => r.name.tags = <<>>)
  <2>1. CASE SendCreate(c)
    <3>1. PICK user \in Users, d \in Live, base \in Bases, tags \in {<<>>} \cup {<<i>> : i \in ChosenIds}, type \in {"file", "dir"} :
             Begin(c, [op |-> "create", user |-> user, dir |-> d, name |-> Name(base, tags), type |-> type])
      BY <2>1 DEF SendCreate
    <3>2. tags = <<>>
      OBVIOUS
    <3> DEFINE r == [op |-> "create", user |-> user, dir |-> d, name |-> Name(base, tags), type |-> type]
    <3>3. r.name.tags = <<>>
      BY <3>2 DEF Name
    <3> QED BY <3>1, <3>3
  <2>2. CASE SendWrite(c)
    <3>1. PICK d \in Live, end \in 1 .. Quota + 1, k \in Live :
             Begin(c, [op |-> "write", dir |-> d, name |-> inodes[k].name, end |-> end])
      BY <2>2 DEF SendWrite
    <3> QED BY <3>1
  <2>3. CASE SendUpload(c)
    <3>1. PICK user \in Users, d \in Live, k \in Live :
             Begin(c, [op |-> "upload", user |-> user, dir |-> d, name |-> inodes[k].name, before |-> inodes[Root].size, fid |-> None])
      BY <2>3 DEF SendUpload
    <3> QED BY <3>1
  <2>4. CASE SendRemove(c)
    <3>1. PICK op \in {"delete", "trash", "restore"}, i \in Live : Begin(c, [op |-> op, user |-> Owner, fid |-> i])
      BY <2>4 DEF SendRemove
    <3> QED BY <3>1
  <2>5. CASE SendShare(c)
    <3>1. PICK op \in {"share", "unshare"}, i \in Live \ {Trash}, user \in Grantees :
             Begin(c, [op |-> op, user |-> user, fid |-> i, gone |-> None])
      BY <2>5 DEF SendShare
    <3> QED BY <3>1
  <2> QED BY <2>1, <2>2, <2>3, <2>4, <2>5 DEF Send
<1>3. PICK r : Begin(c, r) /\ (r.op = "create" => r.name.tags = <<>>)
  BY <1>2
<1>4. ASSUME NEW b \in Callers, pc'[b] = "create" PROVE req'[b].name.tags = <<>>
  BY <1>3, <1>4, BeginIs DEF OwnInv, PlainRequests
<1> QED
  BY <1>1, <1>4 DEF OwnInv, OwnTree, OwnMeta, PlainRequests

\* Every step does, until a crash inside a method.
LEMMA OwnNext ==
    ASSUME CoreInv, OwnInv, ChosenIds = {}, workload \in Workloads, Next, ~replaced', ~torn'
    PROVE  OwnInv'
<1>1. CASE \E c \in Callers : Send(c)
  BY <1>1, OwnSend
<1>2. CASE \E c \in Callers : Serve(c)
  BY <1>2, OwnServe
<1>3. CASE \E c \in Callers : CrashInside(c)
  BY <1>3, CrashInsideCore
<1>4. CASE SetQuota \/ HeartbeatFails \/ SendRegistration \/ Register \/ RegistrationFails
  <2>1. inodes' = inodes /\ trashMeta' = trashMeta /\ pc' = pc /\ req' = req
    BY <1>4 DEF SetQuota, SetUserQuota, HeartbeatFails, SendRegistration, Register, RegistrationFails, memory
  <2> QED BY <2>1 DEF OwnInv, OwnTree, OwnMeta, PlainRequests
<1>5. CASE Crash
  <2>1. Reread
    BY <1>5, CrashCore, RestartSame
  <2>2. trashMeta' = <<>> /\ pc' = [c \in Callers |-> "idle"]
    BY <1>5 DEF Crash, Restart, RestartFrom
  <2>3. OwnTree(inodes')
    <3> SUFFICES ASSUME NEW i \in DOMAIN inodes' PROVE OwnName(inodes'[i].name, i)
      BY DEF OwnTree
    <3>1. i \in DOMAIN inodes /\ inodes'[i].name = (IF i = Root THEN Name("", <<>>) ELSE inodes[i].name)
      BY <2>1 DEF Reread
    <3>2. Name("", <<>>).tags = <<>>
      BY DEF Name
    <3>3. OwnName(Name("", <<>>), i)
      BY <3>2, PlainOwn
    <3> QED BY <3>1, <3>3 DEF OwnInv, OwnTree
  <2>4. OwnMeta(trashMeta')
    BY <2>2 DEF OwnMeta
  <2>5. PlainRequests(pc', req')
    BY <2>2 DEF PlainRequests
  <2> QED BY <2>3, <2>4, <2>5 DEF OwnInv, OwnTree, OwnMeta, PlainRequests
<1> QED
  BY <1>1, <1>2, <1>3, <1>4, <1>5 DEF Next

\* The invariant that names are kept apart by.
NamesInv == ChosenIds = {} /\ ".acl" \notin Bases /\ ~torn => ~replaced /\ OwnInv

\* NamesInv holds at first.
LEMMA InitNames ==
    ASSUME Init
    PROVE  NamesInv
<1>1. ~replaced /\ trashMeta = <<>> /\ \A c \in Callers : pc[c] = "idle"
  BY DEF Init
<1>2. DOMAIN inodes = {Root, 1} /\ Root # 1
  BY InitTree DEF Root
<1>3. inodes[Root].name = Name("", <<>>) /\ inodes[1].name = trashDirName
  <2> DEFINE x == NewInode("dir", Name("", <<>>), Root, <<>>, {})
             y == NewInode("dir", trashDirName, Root, TrashPath, {})
  <2>1. inodes = [i \in {Root, 1} |-> IF i = Root THEN [x EXCEPT !.kids = {1}] ELSE y]
    BY DEF Init
  <2>2. x.name = Name("", <<>>) /\ y.name = trashDirName /\ [x EXCEPT !.kids = {1}].name = x.name
    <3>1. x = [type |-> "dir", name |-> Name("", <<>>), parent |-> Root, path |-> <<>>, kids |-> {}, shared |-> {}, size |-> 0]
      BY DEF NewInode
    <3>2. y.name = trashDirName
      BY DEF NewInode
    <3> HIDE DEF x, y
    <3> QED BY <3>1, <3>2
  <2> HIDE DEF x, y
  <2>3. inodes[Root] = [x EXCEPT !.kids = {1}] /\ inodes[1] = y
    BY <1>2, <2>1
  <2> QED BY <2>2, <2>3
<1>4. Name("", <<>>).tags = <<>> /\ trashDirName.tags = <<>>
  BY DEF Name, trashDirName
<1>5. \A i : OwnName(Name("", <<>>), i) /\ OwnName(trashDirName, i)
  BY <1>4, PlainOwn
<1>6. OwnTree(inodes)
  BY <1>2, <1>3, <1>5 DEF OwnTree
<1>7. OwnMeta(trashMeta) /\ PlainRequests(pc, req)
  BY <1>1 DEF OwnMeta, PlainRequests
<1> QED
  BY <1>1, <1>6, <1>7 DEF NamesInv, OwnInv

\* A crash inside a method is not forgotten.
LEMMA TornStays ==
    ASSUME Next, ~torn'
    PROVE  ~torn
<1>1. CASE \E c \in Callers : Send(c)
  BY <1>1, SendKeeps DEF history
<1>2. ASSUME NEW c \in Callers,
             WriteFile(c) \/ UploadChunk(c) \/ UploadFails(c) \/ UploadDone(c) \/ ScrapLookup(c)
               \/ Tell(c) \/ Refuse(c)
      PROVE  ~torn
  <2>1. UNCHANGED history
    BY <1>2, Zenon DEF WriteFile, UploadChunk, UploadFails, UploadDone, ScrapLookup, Tell, Refuse
  <2> QED BY <2>1 DEF history
<1>3. ASSUME NEW c \in Callers, DeleteFile(c) \/ ScrapDelete(c) \/ Share(c) \/ Unshare(c) PROVE ~torn
  <2>1. \A i : Delete(i) => torn' = torn
    BY Zenon DEF Delete
  <2>2. DeleteFile(c) \/ ScrapDelete(c) => torn' = torn
    BY <2>1, Zenon DEF DeleteFile, ScrapDelete
  <2>3. Share(c) \/ Unshare(c) => torn' = torn
    BY Zenon DEF Share, Unshare
  <2> QED BY <1>3, <2>2, <2>3
<1>4. ASSUME NEW c \in Callers, TrashFile(c) \/ RestoreFile(c) PROVE ~torn
  BY <1>4, Zenon DEF TrashFile, RestoreFile
<1>6. ASSUME NEW c \in Callers, CrashInside(c) PROVE ~torn
  BY <1>6 DEF CrashInside
<1>7. CASE Crash
  BY <1>7 DEF Crash, history
<1>8. CASE SetQuota \/ HeartbeatFails \/ SendRegistration \/ Register \/ RegistrationFails
  BY <1>8 DEF SetQuota, SetUserQuota, HeartbeatFails, SendRegistration, Register, RegistrationFails, history
<1>10. ASSUME NEW c \in Callers, CreateFile(c) PROVE ~torn
  BY <1>10 DEF CreateFile
<1> QED
  BY <1>10, <1>1, <1>2, <1>3, <1>4, <1>6, <1>7, <1>8, NextServes

\* Every step keeps NamesInv.
LEMMA NamesNext ==
    ASSUME FileServerInv, NamesInv, [Next]_vars
    PROVE  NamesInv'
<1>1. CASE Next
  <2>4. Bases' = Bases
    BY <1>1, NextKeeps DEF Bases
  <2> SUFFICES ASSUME ChosenIds = {}, ".acl" \notin Bases, ~torn' PROVE ~replaced' /\ OwnInv'
    BY <2>4 DEF NamesInv
  <2>1. ~torn
    BY <1>1, TornStays
  <2>2. ~replaced /\ OwnInv /\ CoreInv /\ workload \in Workloads
    BY <2>1 DEF NamesInv, FileServerInv
  <2>3. ~replaced'
    BY <1>1, <2>2, NeverReplaces
  <2> QED BY <1>1, <2>2, <2>3, OwnNext
<1>2. CASE UNCHANGED vars
  <2>1. inodes' = inodes /\ trashMeta' = trashMeta /\ pc' = pc /\ req' = req /\ torn' = torn /\ replaced' = replaced
        /\ Bases' = Bases
    BY <1>2 DEF vars, memory, history, process, Bases
  <2> QED BY <2>1 DEF NamesInv, OwnInv, OwnTree, OwnMeta, PlainRequests
<1> QED
  BY <1>1, <1>2

\* No file that TrashFile or RestoreFile renames takes the place of another one:
\* uniqueNameInDir appends an inode's own id, so a name that carries an id can
\* only be taken by that inode itself.  (Clients must not type such names, or .acl.)
THEOREM FileServerReplacesNothing == Spec => []NothingIsReplaced
<1>1. Init => NamesInv
  BY InitNames
<1>2. FileServerInv /\ NamesInv /\ [Next]_vars => NamesInv'
  BY NamesNext
<1>3. NamesInv => NothingIsReplaced
  BY DEF NamesInv, NothingIsReplaced
<1> QED
  BY <1>1, <1>2, <1>3, FileServerInvariant, PTL DEF Spec

\* Nothing is replaced, and Parent, Children, Name and OSPath of the inodes
\* describe one tree without duplicate names, across CreateFile, DeleteFile,
\* TrashFile, RestoreFile and every restart, torn operations included, until a
\* client types a name of the trash's form, or .acl.
THEOREM FileServerTree == Spec => []TreeIsConsistent
<1>1. ASSUME CoreInv, NothingIsReplaced PROVE TreeIsConsistent
  <2>1. TreeOK(inodes)
    BY <1>1, CoreFacts
  <2> QED BY <1>1, <2>1 DEF TreeOK, TreeIsConsistent, Live, Path
<1>2. FileServerInv /\ NothingIsReplaced => TreeIsConsistent
  BY <1>1 DEF FileServerInv, TreeIsConsistent
<1> QED
  BY <1>2, FileServerInvariant, FileServerReplacesNothing, PTL

-----------------------------------------------------------------------------
(* What the files remember: the FID and, in a directory, the ACL. *)

FidsOK(n, f) == \A i \in DOMAIN n : f[n[i].path].fid = i
AclsOK(n, f) == \A i \in DOMAIN n : n[i].type = "dir" => f[n[i].path].acl = n[i].shared

\* The files carry both along.
Carried(n, f, m, g) ==
    \A j \in DOMAIN m :
        /\ j \in DOMAIN n /\ m[j].type = n[j].type /\ m[j].shared = n[j].shared
        /\ g[m[j].path].fid = f[n[j].path].fid /\ g[m[j].path].acl = f[n[j].path].acl

\* Entries that travel with their inodes keep FIDs and ACLs right.
LEMMA CarriedOK ==
    ASSUME NEW n, NEW f, NEW m, NEW g, Carried(n, f, m, g)
    PROVE  (FidsOK(n, f) => FidsOK(m, g)) /\ (AclsOK(n, f) => AclsOK(m, g))
BY DEF Carried, FidsOK, AclsOK

\* A write takes every entry along.
LEMMA WriteCarries ==
    ASSUME CoreInv, NEW i, NEW e, Wrote(i, e)
    PROVE  Carried(inodes, disk.files, inodes', disk'.files)
<1> DEFINE f == disk.files
           g == disk'.files
<1>1. i \in Live /\ e \in Nat /\ Written(inodes, inodes', i, e) /\ g = GrownFiles(f, Path(i), e)
  BY DEF Wrote
<1>2. FilesOK(f) /\ \A j \in Live : Path(j) \in DOMAIN f
  BY CoreFacts
<1> HIDE DEF f, g
<1>3. \A q \in DOMAIN f : g[q].acl = f[q].acl /\ g[q].fid = f[q].fid
  BY <1>1, <1>2, GrownIs
<1>4. DOMAIN inodes' = Live /\ \A j \in Live : inodes'[j].path = Path(j) /\ inodes'[j].type = inodes[j].type /\ inodes'[j].shared = inodes[j].shared
  BY <1>1 DEF Written, Live, Path
<1>5. Carried(inodes, f, inodes', g)
  BY <1>2, <1>3, <1>4 DEF Carried, Live, Path
<1> QED
  BY <1>5 DEF f, g

\* A deletion takes every entry that stays along.
LEMMA DeleteCarries ==
    ASSUME CoreInv, NEW i, Deleted(i)
    PROVE  Carried(inodes, disk.files, inodes', disk'.files)
<1> DEFINE f == disk.files
           g == disk'.files
           I == Subtree(i)
<1>1. i \in Live \ {Root, Trash} /\ Removed(inodes, inodes', i, I) /\ g = RemovedFiles(i)
  BY DEF Deleted
<1>2. DOMAIN g = DOMAIN f \ Gone(i) /\ \A q \in DOMAIN g : g[q] = f[q]
  BY <1>1, DeleteDisk
<1>3. \A j \in Live : Path(j) \in DOMAIN f /\ (Path(j) \in Gone(i) <=> j \in I)
  BY <1>1, CoreFacts, SubtreePaths
<1> HIDE DEF f, g, I
<1>4. DOMAIN inodes' = Live \ I /\ \A j \in Live \ I : inodes'[j].path = Path(j) /\ inodes'[j].type = inodes[j].type /\ inodes'[j].shared = inodes[j].shared
  BY <1>1 DEF Removed, Live, Path
<1>5. \A j \in Live \ I : g[Path(j)] = f[Path(j)]
  BY <1>2, <1>3
<1>6. Carried(inodes, f, inodes', g)
  BY <1>4, <1>5 DEF Carried, Live, Path
<1> QED
  BY <1>6 DEF f, g

\* A move takes every entry along.
LEMMA MoveCarries ==
    ASSUME CoreInv, NEW i, NEW d, NEW name, MayMove(inodes, i, d, name), Moved(inodes, inodes', i, d, name),
           disk'.files = MovedFiles(i, Append(Path(d), name))
    PROVE  Carried(inodes, disk.files, inodes', disk'.files)
<1> DEFINE f == disk.files
           g == disk'.files
<1>1. TreeOK(inodes) /\ Match(inodes, f)
  BY CoreFacts
<1>2. g = RenameKeys(f, inodes[i].path, Append(inodes[d].path, name))
  BY DEF MovedFiles, Path
<1> HIDE DEF f, g
<1>3. FilesMoved(inodes, inodes', f, g)
  BY <1>1, <1>2, MoveFiles
<1>4. \A j \in DOMAIN inodes : g[inodes'[j].path] = f[inodes[j].path]
  BY <1>3 DEF FilesMoved
<1>5. DOMAIN inodes' = DOMAIN inodes /\ \A j \in DOMAIN inodes : inodes'[j].type = inodes[j].type /\ inodes'[j].shared = inodes[j].shared
  BY DEF Moved
<1>6. Carried(inodes, f, inodes', g)
  BY <1>4, <1>5 DEF Carried
<1> QED
  BY <1>6 DEF f, g

\* CreateFile writes the FID and the ACL of the new inode.
LEMMA CreateRemembers ==
    ASSUME CoreInv, NEW c \in Callers, CreateFile(c), ~replaced'
    PROVE  /\ FidsOK(inodes, disk.files) => FidsOK(inodes', disk'.files)
           /\ AclsOK(inodes, disk.files) => AclsOK(inodes', disk'.files)
<1> DEFINE r == req[c]
           f == disk.files
           g == disk'.files
<1>1. /\ CanCreate(r) /\ index' = NewIndex(r) /\ inodes' = CreatedTree(r) /\ disk' = Last(CreateSteps(r))
      /\ shares' = shares /\ trashMeta' = trashMeta /\ r.name # aclFileName
  BY DEF CreateFile, NewIndex, NewId, CreatedTree
<1>2. RequestOK(inodes, "create", r)
  BY MyRequest DEF CreateFile
<1> HIDE DEF r
<1> DEFINE i == NewId(r)
           p == NewPath(r)
           d == r.dir
<1>3. TreeAdded(inodes, inodes', i, d, r.name, p, r.type) /\ g = CreatedFiles(r)
  BY <1>1, <1>2, CreateStep
<1>4. /\ \A q \in DOMAIN f : g[q] = f[q]
      /\ g[p].fid = i /\ (r.type = "dir" => g[p].acl = inodes[d].shared)
  <2>1. \A q \in DOMAIN f : CreatedFiles(r)[q] = f[q]
    BY <1>1, <1>2, CreateDisk
  <2>2. CreatedFiles(r)[p].fid = i /\ CreatedFiles(r)[p].acl = IF r.type = "dir" THEN inodes[d].shared ELSE {}
    BY <1>1, <1>2, CreateDisk
  <2>3. g = CreatedFiles(r)
    BY <1>3
  <2> HIDE DEF f, g, p, i, d
  <2> QED BY <2>1, <2>2, <2>3
<1>5. i \notin Live
  BY <1>1, <1>2, CreateTarget
<1>6. \A j \in DOMAIN inodes : inodes[j].path \in DOMAIN f
  BY CoreFacts DEF Live, Path
<1>7. /\ DOMAIN inodes' = DOMAIN inodes \cup {i} /\ inodes'[i].path = p /\ inodes'[i].type = r.type /\ inodes'[i].shared = inodes[d].shared
      /\ \A j \in DOMAIN inodes : inodes'[j].path = inodes[j].path /\ inodes'[j].type = inodes[j].type /\ inodes'[j].shared = inodes[j].shared
  BY <1>3 DEF TreeAdded
<1> HIDE DEF i, p, d, f, g
<1>8. FidsOK(inodes, f) => FidsOK(inodes', g)
  BY <1>4, <1>6, <1>7 DEF FidsOK
<1>9. AclsOK(inodes, f) => AclsOK(inodes', g)
  BY <1>4, <1>6, <1>7 DEF AclsOK
<1> QED
  BY <1>8, <1>9 DEF f, g

\* Share and Unshare write every ACL they change, unless they are late.
LEMMA ShareRemembers ==
    ASSUME CoreInv, NEW c \in Callers, Share(c) \/ Unshare(c)
    PROVE  /\ FidsOK(inodes, disk.files) => FidsOK(inodes', disk'.files)
           /\ ~late' /\ AclsOK(inodes, disk.files) => AclsOK(inodes', disk'.files)
<1> DEFINE r == req[c]
           f == disk.files
           g == disk'.files
<1>1. Opened(inodes, inodes', r) /\ g = SharedFiles(r) /\ pc[c] \in {"share", "unshare"}
  BY ShareCore
<1>2. RequestOK(inodes, pc[c], r)
  BY MyRequest
<1>3. ~late' => r.fid \in Live
  BY DEF Share, Unshare, BeLate
<1> HIDE DEF r
<1>4. \A p \in DOMAIN f :
         /\ g[p].fid = f[p].fid
         /\ g[p].acl = IF f[p].type # "dir" THEN f[p].acl
                       ELSE IF p \in DOMAIN LowerACLs(r) THEN LowerACLs(r)[p]
                       ELSE IF p \in DOMAIN TopACL(r) THEN TopACL(r)[p] ELSE f[p].acl
  BY <1>1, <1>2, ShareDisk
<1>5. TreeOK(inodes) /\ \A j \in Live : Path(j) \in DOMAIN f /\ f[Path(j)].type = inodes[j].type
  BY CoreFacts
<1>6. DOMAIN inodes' = Live /\ \A j \in Live :
         /\ inodes'[j].path = Path(j) /\ inodes'[j].type = inodes[j].type
         /\ inodes'[j].shared = IF j \in Covered(r) THEN Changed(r, inodes[j].shared) ELSE inodes[j].shared
  BY <1>1 DEF Opened, Live, Path
<1> HIDE DEF f, g
<1>7. FidsOK(inodes, f) => FidsOK(inodes', g)
  BY <1>4, <1>5, <1>6 DEF FidsOK, Live, Path
<1>8. ASSUME ~late', AclsOK(inodes, f) PROVE AclsOK(inodes', g)
  <2> SUFFICES ASSUME NEW j \in Live, inodes[j].type = "dir" PROVE g[Path(j)].acl = inodes'[j].shared
    BY <1>6 DEF AclsOK
  <2>1. r.fid \in Live
    BY <1>3, <1>8
  <2>2. Covered(r) = Subtree(r.fid) /\ Target(r) = inodes[r.fid]
    BY <2>1 DEF Covered, Target
  <2>3. r.fid \in Covered(r) /\ Covered(r) \subseteq Live
    BY <2>1, <2>2 DEF Subtree
  <2>4. \A a \in Live : Path(a) = Path(j) => a = j
    BY <1>5 DEF TreeOK, Live, Path
  <2>5. f[Path(j)].acl = inodes[j].shared /\ Path(j) \in DOMAIN f /\ f[Path(j)].type = "dir"
    BY <1>5, <1>8 DEF AclsOK, Live, Path
  <2>6. CASE j \in Rewritten(r)
    <3>1. Path(j) \in Paths(Rewritten(r))
      BY <2>6 DEF Paths
    <3>2. Path(j) \in DOMAIN LowerACLs(r)
      BY <3>1 DEF LowerACLs
    <3>3. (CHOOSE a \in Rewritten(r) : Path(a) = Path(j)) = j
      <4>1. \A a \in Rewritten(r) : Path(a) = Path(j) => a = j
        BY <2>3, <2>4 DEF Rewritten
      <4> QED BY <2>6, <4>1
    <3>4. LowerACLs(r)[Path(j)] = Changed(r, inodes[j].shared)
      BY <3>1, <3>3 DEF LowerACLs
    <3>5. j \in Covered(r)
      BY <2>6 DEF Rewritten
    <3>6. g[Path(j)].acl = Changed(r, inodes[j].shared)
      BY <1>4, <2>5, <3>2, <3>4
    <3>7. inodes'[j].shared = Changed(r, inodes[j].shared)
      BY <1>6, <3>5
    <3> QED BY <3>6, <3>7
  <2>7. CASE j \notin Rewritten(r)
    <3>1. Path(j) \notin DOMAIN LowerACLs(r)
      BY <2>3, <2>4, <2>7 DEF LowerACLs, Paths, Rewritten
    <3>2. inodes'[j].shared = inodes[j].shared
      BY <1>6, <2>7 DEF Rewritten
    <3>3. CASE Path(j) \in DOMAIN TopACL(r)
      <4>1. Path(j) = Target(r).path /\ TopACL(r)[Path(j)] = Changed(r, Target(r).shared)
        BY <3>3 DEF TopACL
      <4>2. j = r.fid
        BY <2>1, <2>2, <2>4, <4>1 DEF Path
      <4>3. Changed(r, inodes[j].shared) = inodes[j].shared
        BY <2>3, <2>7, <4>2 DEF Rewritten
      <4>4. g[Path(j)].acl = inodes[j].shared
        BY <1>4, <2>2, <2>5, <3>1, <3>3, <4>1, <4>2, <4>3
      <4> QED BY <3>2, <4>4
    <3>4. CASE Path(j) \notin DOMAIN TopACL(r)
      BY <1>4, <2>5, <3>1, <3>2, <3>4
    <3> QED BY <3>3, <3>4
  <2> QED BY <2>6, <2>7
<1> QED
  BY <1>7, <1>8 DEF f, g

\* The ids of deleted files: below the counter, and of no path in the index.
RetiredOK(ix, R) == \A i \in R : i < ix.next /\ \A p \in DOMAIN ix.ids : ix.ids[p] # i

Remembers ==
    /\ FidsOK(inodes, disk.files) => FidsOK(inodes', disk'.files)
    /\ ~late' /\ AclsOK(inodes, disk.files) => AclsOK(inodes', disk'.files)
    /\ RetiredOK(index, retired) => RetiredOK(index', retired')

\* A step that takes entries along remembers them.
LEMMA CarriedRemembers ==
    ASSUME Carried(inodes, disk.files, inodes', disk'.files), RetiredOK(index, retired) => RetiredOK(index', retired')
    PROVE  Remembers
BY CarriedOK DEF Remembers

\* So does one that leaves tree and files alone.
LEMMA QuietRemembers ==
    ASSUME inodes' = inodes, disk'.files = disk.files, index' = index, retired' = retired
    PROVE  Remembers
BY DEF Remembers

\* CreateFile gives out no retired number.
LEMMA RetiredCreate ==
    ASSUME CoreInv, NEW c \in Callers, CreateFile(c), ~replaced', RetiredOK(index, retired)
    PROVE  RetiredOK(index', retired')
<1> DEFINE r == req[c]
           p == NewPath(r)
<1>1. CanCreate(r) /\ index' = GetOrAssign(index, p) /\ retired' = retired /\ r.name # aclFileName
  BY DEF CreateFile
<1>2. RequestOK(inodes, "create", r)
  BY MyRequest DEF CreateFile
<1>3. p \in PathSet /\ HasRoom(index, p)
  BY <1>1, <1>2, CreateTarget DEF CanCreate
<1>4. IndexOK(index) /\ DOMAIN index.ids # {} /\ retired \subseteq Ids
  BY CoreFacts DEF CoreInv
<1> HIDE DEF r, p
<1>5. /\ index'.next \in {index.next, index.next + 1} /\ DOMAIN index'.ids = DOMAIN index.ids \cup {p}
      /\ \A q \in DOMAIN index.ids : index'.ids[q] = index.ids[q]
      /\ (index'.ids[p] = index.next /\ index'.next = index.next + 1) \/ (p \in DOMAIN index.ids /\ index' = index)
  BY <1>1, <1>3, <1>4, AssignIndex
<1>6. index.next \in Nat /\ retired \subseteq Nat
  BY <1>4, FileServerAssumption DEF IndexOK, Ids
<1> SUFFICES ASSUME NEW i \in retired PROVE i < index'.next /\ \A q \in DOMAIN index'.ids : index'.ids[q] # i
  BY <1>1 DEF RetiredOK
<1>7. i \in Nat /\ i < index.next /\ \A q \in DOMAIN index.ids : index.ids[q] # i
  BY <1>6 DEF RetiredOK
<1>8. i < index'.next
  BY <1>5, <1>6, <1>7
<1>9. ASSUME NEW q \in DOMAIN index'.ids PROVE index'.ids[q] # i
  <2>1. CASE q \in DOMAIN index.ids
    BY <1>5, <1>7, <2>1
  <2>2. CASE q \notin DOMAIN index.ids
    <3>1. q = p /\ index'.ids[p] = index.next
      BY <1>5, <2>2
    <3> QED BY <1>6, <1>7, <3>1
  <2> QED BY <2>1, <2>2
<1> QED
  BY <1>8, <1>9

\* DeleteFile takes what it retires out of the index.
LEMMA RetiredDelete ==
    ASSUME CoreInv, NEW i, Deleted(i), RetiredOK(index, retired)
    PROVE  RetiredOK(index', retired')
<1> DEFINE I == Subtree(i)
<1>1. i \in Live \ {Root, Trash} /\ I \subseteq Live /\ retired' = retired \cup I /\ index' = IndexRemove(index, Gone(i))
  BY DEF Deleted, Delete, Gone
<1>2. /\ index'.next = index.next /\ DOMAIN index'.ids = DOMAIN index.ids \ Gone(i)
      /\ \A q \in DOMAIN index'.ids : index'.ids[q] = index.ids[q]
  BY <1>1, DeleteDisk
<1>3. IndexOK(index) /\ Numbered(inodes, index)
  BY CoreFacts
<1>4. \A j \in I : Path(j) \in Gone(i)
  BY DEF Gone, Paths
<1> HIDE DEF I
<1>5. ASSUME NEW j \in I PROVE j < index.next /\ \A q \in DOMAIN index'.ids : index'.ids[q] # j
  <2>1. Path(j) \in DOMAIN index.ids /\ index.ids[Path(j)] = j
    BY <1>1, <1>3 DEF Numbered, Live, Path
  <2>2. index.next \in Nat /\ j \in 0 .. index.next - 1
    BY <1>3, <2>1, FileServerAssumption DEF IndexOK
  <2>3. \A q \in DOMAIN index.ids : index.ids[q] = j => q = Path(j)
    BY <1>3, <2>1 DEF IndexOK
  <2> QED BY <1>2, <1>4, <2>2, <2>3
<1>6. ASSUME NEW j \in retired PROVE j < index.next /\ \A q \in DOMAIN index'.ids : index'.ids[q] # j
  BY <1>2 DEF RetiredOK
<1> QED
  BY <1>1, <1>2, <1>5, <1>6 DEF RetiredOK

\* A move changes no number.
LEMMA RetiredMove ==
    ASSUME NEW m, IndexMoved(m, index, index'), retired' = retired, RetiredOK(index, retired)
    PROVE  RetiredOK(index', retired')
<1>1. index'.next = index.next /\ \A q \in DOMAIN index'.ids : \E p \in DOMAIN index.ids : index'.ids[q] = index.ids[p]
  BY DEF IndexMoved
<1> QED
  BY <1>1 DEF RetiredOK

\* Every method keeps FIDs, ACLs and retired numbers right.
LEMMA ServeRemembers ==
    ASSUME CoreInv, workload \in Workloads, NEW c \in Callers, Serve(c), ~replaced'
    PROVE  Remembers
<1>2. CASE CreateFile(c)
  BY <1>2, CreateRemembers, RetiredCreate DEF Remembers
<1>3. CASE TrashFile(c)
  <2> DEFINE i == req[c].fid
  <2>1. Trashed(i) /\ retired' = retired
    BY <1>3, TrashCore DEF TrashFile
  <2> HIDE DEF i
  <2>2. Carried(inodes, disk.files, inodes', disk'.files)
    BY <2>1, MoveCarries DEF Trashed, TrashNew
  <2>3. RetiredOK(index, retired) => RetiredOK(index', retired')
    BY <2>1, RetiredMove DEF Trashed
  <2> QED BY <2>2, <2>3, CarriedRemembers
<1>4. CASE RestoreFile(c)
  <2> DEFINE i == req[c].fid
  <2>1. Restored(i) /\ retired' = retired
    BY <1>4, RestoreCore DEF RestoreFile
  <2> HIDE DEF i
  <2>2. Carried(inodes, disk.files, inodes', disk'.files)
    BY <2>1, MoveCarries DEF Restored, RestoredPath
  <2>3. RetiredOK(index, retired) => RetiredOK(index', retired')
    BY <2>1, RetiredMove DEF Restored
  <2> QED BY <2>2, <2>3, CarriedRemembers
<1>5. CASE WriteFile(c) \/ UploadChunk(c)
  <2>1. PICK end \in Nat : CanWrite(req[c], end) /\ WriteTo(req[c], end)
    <3>1. CASE WriteFile(c)
      BY <3>1, MyRequest DEF WriteFile, RequestOK
    <3>2. CASE UploadChunk(c)
      BY <3>2, QuotaNat DEF UploadChunk, CoreInv
    <3> QED BY <1>5, <3>1, <3>2
  <2>2. index' = index /\ shares' = shares /\ trashMeta' = trashMeta /\ retired' = retired
    BY <1>5 DEF WriteFile, UploadChunk, history
  <2>3. \E i, e : Wrote(i, e)
    BY <2>1, <2>2, WriteStep
  <2>4. Carried(inodes, disk.files, inodes', disk'.files)
    BY <2>3, WriteCarries
  <2> QED BY <2>2, <2>4, CarriedRemembers
<1>6. CASE DeleteFile(c) \/ ScrapDelete(c)
  BY <1>6, DeletesCore, DeleteCarries, RetiredDelete, CarriedRemembers
<1>7. CASE Share(c) \/ Unshare(c)
  <2>1. index' = index /\ retired' = retired
    BY <1>7 DEF Share, Unshare
  <2> QED BY <1>7, <2>1, ShareRemembers DEF Remembers
<1>8. CASE UploadFails(c) \/ UploadDone(c) \/ ScrapLookup(c) \/ Tell(c) \/ Refuse(c)
  <2>1. inodes' = inodes /\ disk' = disk /\ index' = index /\ retired' = retired
    BY <1>8, QuietServe DEF Quiet, memory, history
  <2> QED BY <2>1, QuietRemembers
<1> QED
  BY <1>2, <1>3, <1>4, <1>5, <1>6, <1>7, <1>8 DEF Serve

\* After a restart, whatever it was made from, memory has the ACLs of the disk.
LEMMA RestartAcls ==
    ASSUME NEW d, DurableOK(d), RestartedFrom(d)
    PROVE  AclsOK(inodes', disk'.files)
<1> DEFINE f == d.files
           g == disk'.files
           ids == index'.ids
<1>1. /\ ScanOf(inodes', f, ids) /\ DOMAIN g = DOMAIN f
      /\ \A p \in DOMAIN f : g[p] = IF f[p].fid = None THEN [f[p] EXCEPT !.fid = ids[p]] ELSE f[p]
  BY DEF RestartedFrom
<1>2. FilesOK(f) /\ IndexOK(index')
  BY DurableIs DEF RestartedFrom
<1>3. \A p \in DOMAIN f : f[p] \in Entry
  BY <1>2 DEF FilesOK
<1> HIDE DEF f, g, ids
<1>4. ASSUME NEW p \in DOMAIN f PROVE g[p].acl = f[p].acl
  <2> DEFINE x == f[p]
             y == g[p]
             z == ids[p]
  <2>1. x \in Entry /\ y = IF x.fid = None THEN [x EXCEPT !.fid = z] ELSE x
    BY <1>1, <1>3
  <2> HIDE DEF x, y, z
  <2>2. y.acl = x.acl
    BY <2>1 DEF Entry
  <2> QED BY <2>2 DEF x, y
<1>5. ASSUME NEW i \in DOMAIN inodes' PROVE g[inodes'[i].path].acl = inodes'[i].shared
  <2>1. PICK p \in DOMAIN f : i = ids[p]
    BY <1>1 DEF ScanOf
  <2>2. inodes'[i].path = p /\ inodes'[i].shared = f[p].acl
    BY <1>1, <2>1 DEF ScanOf
  <2> QED BY <1>4, <2>2
<1> QED
  BY <1>5 DEF AclsOK, g

\* So does a restart between methods.
LEMMA CrashRemembers ==
    ASSUME CoreInv, Crash
    PROVE  Remembers
<1>1. RestartedFrom(disk) /\ Reread /\ retired' = retired
  BY CrashCore, RestartSame DEF Crash, history
<1>2. DurableOK(disk) /\ Numbered(inodes, index)
  BY CoreFacts
<1>3. AclsOK(inodes', disk'.files)
  BY <1>1, <1>2, RestartAcls
<1>4. index' = index
  BY <1>1 DEF Reread
<1>5. ASSUME FidsOK(inodes, disk.files) PROVE FidsOK(inodes', disk'.files)
  <2> DEFINE f == disk.files
             g == disk'.files
  <2>1. \A p \in DOMAIN f : g[p] = IF f[p].fid = None THEN [f[p] EXCEPT !.fid = index.ids[p]] ELSE f[p]
    BY <1>1, <1>4 DEF RestartedFrom
  <2>2. \A p \in DOMAIN f : f[p] \in Entry
    BY CoreFacts DEF FilesOK
  <2> HIDE DEF f, g
  <2>3. ASSUME NEW i \in DOMAIN inodes' PROVE g[inodes'[i].path].fid = i
    <3>1. i \in DOMAIN inodes /\ inodes'[i].path = inodes[i].path
      BY <1>1 DEF Reread
    <3> DEFINE p == inodes[i].path
               x == f[p]
               y == g[p]
               z == index.ids[p]
    <3>2. z = i
      BY <1>2, <3>1 DEF Numbered
    <3>3. p \in DOMAIN f
      BY <3>1, CoreFacts DEF f, Live, Path
    <3>4. x.fid = i
      BY <1>5, <3>1 DEF FidsOK, f
    <3>5. y = IF x.fid = None THEN [x EXCEPT !.fid = z] ELSE x
      BY <2>1, <3>3
    <3>6. x \in Entry
      BY <2>2, <3>3
    <3> HIDE DEF x, y, z
    <3>7. y.fid = i
      BY <3>2, <3>4, <3>5, <3>6 DEF Entry
    <3> QED BY <3>1, <3>7 DEF y
  <2> QED BY <2>3 DEF FidsOK, g
<1> QED
  BY <1>1, <1>3, <1>4, <1>5 DEF Remembers

\* As long as no crash has struck inside a method every file carries its FID and
\* no deleted one is in use; as long as no share came late, the .acl files are
\* what memory has.
MemoInv ==
    ~replaced =>
    /\ ~torn => FidsOK(inodes, disk.files) /\ RetiredOK(index, retired)
    /\ ~late => AclsOK(inodes, disk.files)

\* MemoInv holds at first.
LEMMA InitMemo ==
    ASSUME Init
    PROVE  MemoInv
<1>1. DOMAIN inodes = {Root, 1} /\ retired = {} /\ inodes[Root].path = <<>> /\ inodes[1].path = TrashPath
      /\ inodes[Root].shared = {} /\ inodes[1].shared = {}
  <2>1. retired = {}
    BY DEF Init
  <2>2. Root # 1
    BY DEF Root
  <2> QED BY <2>1, <2>2, InitTree DEF Live
<1>2. disk.files = RootAndTrash(NewEntry("dir", Root), NewEntry("dir", 1))
  BY DEF Init
<1>3. disk.files[<<>>] = NewEntry("dir", Root) /\ disk.files[TrashPath] = NewEntry("dir", 1)
  BY <1>2, EmptyPath DEF RootAndTrash
<1>4. disk.files[<<>>].fid = Root /\ disk.files[TrashPath].fid = 1
      /\ disk.files[<<>>].acl = {} /\ disk.files[TrashPath].acl = {}
  BY <1>3 DEF NewEntry
<1>5. FidsOK(inodes, disk.files) /\ AclsOK(inodes, disk.files)
  BY <1>1, <1>4 DEF FidsOK, AclsOK
<1>6. RetiredOK(index, retired)
  BY <1>1 DEF RetiredOK
<1> QED
  BY <1>5, <1>6 DEF MemoInv

\* A late share is not forgotten.
LEMMA LateStays ==
    ASSUME Next, ~late'
    PROVE  ~late
<1>1. CASE \E c \in Callers : Send(c)
  BY <1>1, SendKeeps DEF history
<1>2. ASSUME NEW c \in Callers,
             WriteFile(c) \/ UploadChunk(c) \/ UploadFails(c) \/ UploadDone(c) \/ ScrapLookup(c)
               \/ Tell(c) \/ Refuse(c)
      PROVE  ~late
  <2>1. UNCHANGED history
    BY <1>2, Zenon DEF WriteFile, UploadChunk, UploadFails, UploadDone, ScrapLookup, Tell, Refuse
  <2> QED BY <2>1 DEF history
<1>3. ASSUME NEW c \in Callers, DeleteFile(c) \/ ScrapDelete(c) PROVE ~late
  <2>1. \A i : Delete(i) => late' = late
    BY Zenon DEF Delete
  <2> QED BY <1>3, <2>1, Zenon DEF DeleteFile, ScrapDelete
<1>4. ASSUME NEW c \in Callers, Share(c) \/ Unshare(c) PROVE ~late
  <2>1. BeLate(req[c])
    BY <1>4, Zenon DEF Share, Unshare
  <2> QED BY <2>1 DEF BeLate
<1>5. ASSUME NEW c \in Callers, TrashFile(c) \/ RestoreFile(c) PROVE ~late
  BY <1>5, Zenon DEF TrashFile, RestoreFile
<1>6. ASSUME NEW c \in Callers, CrashInside(c) PROVE ~late
  BY <1>6 DEF CrashInside
<1>7. CASE Crash
  BY <1>7 DEF Crash, history
<1>8. CASE SetQuota
  BY <1>8 DEF SetQuota, SetUserQuota, history
<1>9. CASE HeartbeatFails \/ SendRegistration \/ Register \/ RegistrationFails
  BY <1>9, Zenon DEF HeartbeatFails, SendRegistration, Register, RegistrationFails, history
<1>10. ASSUME NEW c \in Callers, CreateFile(c) PROVE ~late
  BY <1>10 DEF CreateFile
<1> QED
  BY <1>10, <1>1, <1>2, <1>3, <1>4, <1>5, <1>6, <1>7, <1>8, <1>9, NextServes

\* After a crash inside a method memory has the ACLs of the disk.
LEMMA CrashInsideAcls ==
    ASSUME CoreInv, NEW c \in Callers, CrashInside(c), ~replaced'
    PROVE  AclsOK(inodes', disk'.files)
<1>1. CanRun(c) /\ (pc[c] = "create" => req[c].name # aclFileName)
  BY DEF CrashInside
<1>2. PICK d \in CutShort(Steps(c)) \cup HalfRemoved(c) \cup HalfShared(c) :
        Restart(d) /\ retired' = retired \cup {i \in Live : \A p \in DOMAIN d.files : d.files[p].fid # i}
  BY DEF CrashInside
<1>3. DurableOK(d)
  BY <1>1, CutOK
<1> QED
  BY <1>2, <1>3, RestartFacts, RestartAcls

\* Every step keeps MemoInv.
LEMMA MemoNext ==
    ASSUME FileServerInv, MemoInv, [Next]_vars
    PROVE  MemoInv'
<1> SUFFICES ASSUME ~replaced' PROVE /\ ~torn' => FidsOK(inodes', disk'.files) /\ RetiredOK(index', retired')
                                     /\ ~late' => AclsOK(inodes', disk'.files)
  BY DEF MemoInv, FidsOK, AclsOK, RetiredOK
<1>1. CASE Next
  <2>1. ~replaced /\ CoreInv /\ workload \in Workloads
    BY <1>1, NextKeeps DEF FileServerInv
  <2>2. /\ ~torn' => FidsOK(inodes, disk.files) /\ RetiredOK(index, retired)
        /\ ~late' => AclsOK(inodes, disk.files)
    BY <1>1, <2>1, TornStays, LateStays DEF MemoInv
  <2>3. CASE Remembers
    BY <2>2, <2>3 DEF Remembers
  <2>4. ASSUME NEW c \in Callers, CrashInside(c) PROVE torn' /\ AclsOK(inodes', disk'.files)
    BY <2>1, <2>4, CrashInsideCore, CrashInsideAcls
  <2>5. ASSUME NEW c \in Callers, Send(c) PROVE Remembers
    BY <2>5, SendKeeps, QuietRemembers DEF memory, history
  <2>6. ASSUME NEW c \in Callers, Serve(c) PROVE Remembers
    BY <2>1, <2>6, ServeRemembers
  <2>7. CASE SetQuota
    <3>1. inodes' = inodes /\ disk'.files = disk.files /\ index' = index /\ retired' = retired
      BY <2>1, <2>7, SetQuotaCore DEF memory, history
    <3> QED BY <2>3, <3>1, QuietRemembers
  <2>8. CASE HeartbeatFails \/ SendRegistration \/ Register \/ RegistrationFails
    <3>1. inodes' = inodes /\ disk' = disk /\ index' = index /\ retired' = retired
      BY <2>1, <2>8, QuietSync DEF Quiet, memory, history
    <3> QED BY <2>3, <3>1, QuietRemembers
  <2>9. CASE Crash
    BY <2>1, <2>3, <2>9, CrashRemembers
  <2> QED
    BY <1>1, <2>3, <2>4, <2>5, <2>6, <2>7, <2>8, <2>9 DEF Next
<1>2. CASE UNCHANGED vars
  <2>1. /\ inodes' = inodes /\ disk' = disk /\ index' = index /\ retired' = retired
        /\ torn' = torn /\ replaced' = replaced /\ late' = late
    BY <1>2 DEF vars, memory, history
  <2> QED BY <2>1 DEF MemoInv
<1> QED
  BY <1>1, <1>2

\* FIDs, ACLs and retired numbers are right in every reachable state.
LEMMA MemoInvariant == Spec => []MemoInv
<1>1. Init => MemoInv
  BY InitMemo
<1>2. FileServerInv /\ MemoInv /\ [Next]_vars => MemoInv'
  BY MemoNext
<1> QED
  BY <1>1, <1>2, FileServerInvariant, PTL DEF Spec

\* A file keeps the FID its creation returned for as long as it exists, through
\* renames and restarts, until a crash strikes between two writes of a method:
\* CreateFile writes the FID beside the file, every move carries it along, and the
\* scan of NewFileServer finds every path in the index the last method saved.
THEOREM FileServerFidsAreStable == Spec => []FidsAreStable
<1>1. MemoInv => FidsAreStable
  BY DEF MemoInv, FidsAreStable, FidsSurvive, FidsOK, Live, Path
<1> QED
  BY <1>1, MemoInvariant, PTL

\* The FID of a deleted file never comes to name another one, with the same
\* exception: the counter of the index only grows, and deletion takes the path of
\* every file that it retires out of the index.
THEOREM FileServerFidsAreNotReused == Spec => []FidsAreNotReused
<1>1. FileServerInv /\ MemoInv => FidsAreNotReused
  <2> SUFFICES ASSUME FileServerInv, MemoInv, ~torn, ~replaced, NEW i \in Live, i \in retired PROVE FALSE
    BY DEF FidsAreNotReused
  <2>1. CoreInv /\ RetiredOK(index, retired)
    BY DEF FileServerInv, MemoInv
  <2>2. Numbered(inodes, index)
    BY <2>1, CoreFacts
  <2> QED BY <2>1, <2>2 DEF RetiredOK, Numbered, Live
<1> QED
  BY <1>1, FileServerInvariant, MemoInvariant, PTL

\* What a restart would load as the explicit shares is what the running server
\* uses, and so are the ACLs of directories as long as no share or withdrawal
\* found its directory deleted; all until a rename has replaced a file or a client
\* has made a file called .acl.
THEOREM FileServerSharingIsDurable == Spec => []SharingIsDurable
<1>1. FileServerInv /\ MemoInv => SharingIsDurable
  <2> SUFFICES ASSUME FileServerInv, MemoInv, ~replaced
               PROVE  disk.shares = shares /\ (~late => AclsOK(inodes, disk.files))
    BY DEF SharingIsDurable, AclsOK, Live, Path
  <2>1. CoreInv
    BY DEF FileServerInv
  <2> QED BY <2>1, CoreFacts DEF MemoInv
<1> QED
  BY <1>1, FileServerInvariant, MemoInvariant, PTL

-----------------------------------------------------------------------------
(* The cleanup of a failed upload. *)

\* A handler moves only itself, and to one of these places.
HandlerMoves(b) ==
    \/ pc' = pc
    \/ \E k \in {"idle", "scrap", "scrapDelete", "RootShare", "RootUnshare"} : pc' = [pc EXCEPT ![b] = k]

\* Which steps a handler may take from where it is.
LEMMA ServesOn ==
    ASSUME CoreInv, NEW b \in Callers, Serve(b)
    PROVE  HandlerMoves(b)
<1>1. Finish(b) => HandlerMoves(b)
  BY DEF Finish, HandlerMoves
<1>2. \A q, kind, g : kind \in {"RootShare", "RootUnshare"} /\ Notify(b, q, kind, g) => HandlerMoves(b)
  BY DEF Notify, HandlerMoves
<1>3. CASE CreateFile(b) \/ WriteFile(b) \/ UploadDone(b) \/ TrashFile(b) \/ RestoreFile(b) \/ Refuse(b)
  BY <1>1, <1>3, Zenon DEF CreateFile, WriteFile, UploadDone, TrashFile, RestoreFile, Refuse
<1>4. CASE UploadChunk(b) \/ UploadFails(b)
  <2>1. pc' = pc \/ pc' = [pc EXCEPT ![b] = "scrap"]
    BY <1>4, Zenon DEF UploadChunk, UploadFails
  <2> QED BY <2>1 DEF HandlerMoves
<1>5. CASE ScrapLookup(b)
  <2>1. pc' = [pc EXCEPT ![b] = "scrapDelete"] \/ Finish(b)
    BY <1>5 DEF ScrapLookup
  <2> QED BY <1>1, <2>1 DEF HandlerMoves
<1>6. CASE ScrapDelete(b) \/ DeleteFile(b)
  BY <1>2, <1>6, DeletesCore DEF NotifyDeleted
<1>7. CASE Share(b) \/ Unshare(b)
  <2>1. \E kind \in {"RootShare", "RootUnshare"} : \E g : Notify(b, req, kind, g)
    BY <1>7, Zenon DEF Share, Unshare
  <2> QED BY <1>2, <2>1
<1>8. CASE Tell(b)
  <2>1. \E g : Notify(b, req, pc[b], g) /\ pc[b] \in {"RootShare", "RootUnshare"}
    BY <1>8, Zenon DEF Tell
  <2> QED BY <1>2, <2>1
<1> QED
  BY <1>3, <1>4, <1>5, <1>6, <1>7, <1>8 DEF Serve

\* A handler moves no other handler.
LEMMA ServesItself ==
    ASSUME CoreInv, NEW b \in Callers, Serve(b), NEW c \in Callers, c # b
    PROVE  pc'[c] = pc[c]
<1>1. DOMAIN pc = Callers
  BY DEF CoreInv, RequestInv
<1> QED
  BY <1>1, ServesOn DEF HandlerMoves

\* A file has nothing below it and is neither the root nor the trash: its owner
\* may remove it.
LEMMA FilesMayGo ==
    ASSUME CoreInv, NEW i \in Live, inodes[i].type = "file"
    PROVE  CanRemove(i, Owner, FALSE)
<1>1. TreeOK(inodes)
  BY CoreFacts
<1>2. i # Root /\ i # Trash
  BY <1>1, TrashIs DEF TreeOK
<1>3. inodes[i].kids = {}
  BY <1>1 DEF TreeOK, Live
<1> QED
  BY <1>2, <1>3 DEF CanRemove

\* The cleanup of the owner's upload deletes the file it found.
LEMMA ScrapStep ==
    ASSUME CoreInv, NEW c \in Callers, Serve(c), pc[c] = "scrapDelete", req[c].user = Owner,
           req[c].fid \in Live, inodes[req[c].fid].type = "file"
    PROVE  req[c].fid \notin DOMAIN inodes'
<1>1. CanRun(c)
  BY FilesMayGo DEF CanRun
<1>2. ScrapDelete(c)
  <2>1. ~Refuse(c)
    BY <1>1 DEF Refuse
  <2>2. ~(CreateFile(c) \/ WriteFile(c) \/ UploadChunk(c) \/ UploadFails(c) \/ UploadDone(c) \/ ScrapLookup(c))
    BY DEF CreateFile, WriteFile, UploadChunk, UploadFails, UploadDone, ScrapLookup
  <2>3. ~(DeleteFile(c) \/ TrashFile(c) \/ RestoreFile(c) \/ Share(c) \/ Unshare(c) \/ Tell(c))
    BY DEF DeleteFile, TrashFile, RestoreFile, Share, Unshare, Tell
  <2> QED BY <2>1, <2>2, <2>3 DEF Serve
<1> DEFINE i == req[c].fid
<1>3. Removed(inodes, inodes', i, Subtree(i))
  BY <1>2, DeletesCore DEF Deleted
<1>4. i \in Subtree(i)
  BY DEF Subtree
<1> HIDE DEF i
<1>5. i \notin DOMAIN inodes'
  BY <1>3, <1>4 DEF Removed
<1> QED
  BY <1>5 DEF i

Scrapped(c) ==
    (/\ pc[c] = "scrapDelete" /\ pc'[c] # "scrapDelete" /\ crashes' = crashes
     /\ ~replaced /\ req[c].user = Owner
     /\ req[c].fid \in Live /\ inodes[req[c].fid].type = "file")
    => req[c].fid \notin DOMAIN inodes'

\* So nothing but a crash ends it with the file there.
LEMMA NextScraps ==
    ASSUME FileServerInv, Next, NEW c \in Callers
    PROVE  Scrapped(c)
<1> SUFFICES ASSUME pc[c] = "scrapDelete", pc'[c] # "scrapDelete", crashes' = crashes, ~replaced,
                    req[c].user = Owner, req[c].fid \in Live, inodes[req[c].fid].type = "file"
             PROVE  req[c].fid \notin DOMAIN inodes'
  BY DEF Scrapped
<1>1. CoreInv
  BY DEF FileServerInv
<1>2. \A d : ~Restart(d)
  BY DEF Restart, RestartFrom, FileServerInv
<1>3. ~Crash /\ \A b \in Callers : ~CrashInside(b)
  BY <1>2 DEF Crash, CrashInside
<1>4. ASSUME NEW b \in Callers, Send(b) PROVE FALSE
  <2>1. PICK r : Begin(b, r)
    BY <1>4, Zenon DEF Send, SendCreate, SendWrite, SendUpload, SendRemove, SendShare
  <2>2. pc[b] = "idle"
    BY <2>1 DEF Begin
  <2>3. pc'[c] = IF c = b THEN r.op ELSE pc[c]
    BY <1>1, <2>1, BeginIs
  <2> QED BY <2>2, <2>3
<1>5. ASSUME NEW b \in Callers, Serve(b) PROVE req[c].fid \notin DOMAIN inodes'
  <2>1. b = c
    BY <1>1, <1>5, ServesItself
  <2> QED BY <1>1, <1>5, <2>1, ScrapStep
<1>6. ~(SetQuota \/ HeartbeatFails \/ SendRegistration \/ Register \/ RegistrationFails)
  <2>1. SetQuota \/ HeartbeatFails \/ SendRegistration \/ Register \/ RegistrationFails => pc' = pc
    BY Zenon DEF SetQuota, SetUserQuota, HeartbeatFails, SendRegistration, Register, RegistrationFails
  <2> QED BY <2>1
<1> QED
  BY <1>3, <1>4, <1>5, <1>6 DEF Next

\* When cleanupFailedUpload ends for the owner, the partial file is gone: whatever
\* the other handlers do between its lookup and its write lock, DeleteFile can
\* refuse the owner's file only if it is gone already.
THEOREM FileServerScrapsFailedUploads == Spec => FailedUploadsAreScrapped
<1> DEFINE Vanished == \A c \in Callers : Scrapped(c)
<1>1. FileServerInv /\ [Next]_vars => [Vanished]_vars
  BY NextScraps
<1>2. [][Vanished]_vars <=> FailedUploadsAreScrapped
  BY DEF FailedUploadsAreScrapped, Scrapped
<1> HIDE DEF Vanished
<1> QED
  BY <1>1, <1>2, FileServerInvariant, PTL DEF Spec

-----------------------------------------------------------------------------
(* Sizes. *)

\* The bytes below a path are those of the files below it.
LEMMA BytesAre ==
    ASSUME NEW f, NEW p, NEW x
    PROVE  x \in Bytes(f, p) <=>
             \E q \in DOMAIN f : IsPrefix(p, q) /\ f[q].type = "file" /\ x \in {q} \X (1 .. f[q].size)
BY DEF Bytes, Below

\* What g stores, f stores.
Lean(g, f) ==
    \A q \in DOMAIN g : g[q].type = "file" /\ g[q].size # 0 =>
        q \in DOMAIN f /\ f[q].type = "file" /\ f[q].size = g[q].size

\* Fewer files have fewer bytes.
LEMMA LeanBytes ==
    ASSUME NEW f, NEW g, FilesOK(g), Lean(g, f), NEW p
    PROVE  Bytes(g, p) \subseteq Bytes(f, p)
<1> SUFFICES ASSUME NEW x \in Bytes(g, p) PROVE x \in Bytes(f, p)
  OBVIOUS
<1>1. PICK q \in DOMAIN g : IsPrefix(p, q) /\ g[q].type = "file" /\ x \in {q} \X (1 .. g[q].size)
  BY BytesAre
<1>2. g[q].size \in Nat
  BY DEF FilesOK, Entry
<1>3. g[q].size # 0
  BY <1>1, <1>2
<1>4. q \in DOMAIN f /\ f[q].type = "file" /\ f[q].size = g[q].size
  BY <1>1, <1>3 DEF Lean
<1>5. x \in {q} \X (1 .. f[q].size)
  BY <1>1, <1>4
<1> QED
  BY <1>1, <1>4, <1>5, BytesAre

\* Fewer files need no more space.
LEMMA LeanSizes ==
    ASSUME NEW f, FilesOK(f), NEW g, FilesOK(g), Lean(g, f), NEW p
    PROVE  /\ FileSize(g, p) <= FileSize(f, p)
           /\ Lean(f, g) => FileSize(g, p) = FileSize(f, p)
<1>1. Bytes(g, p) \in SUBSET Bytes(f, p) /\ IsFiniteSet(Bytes(f, p))
  BY LeanBytes, BytesFinite
<1>2. Cardinality(Bytes(g, p)) <= Cardinality(Bytes(f, p))
  BY <1>1, FS_Subset
<1>3. Lean(f, g) => Bytes(g, p) = Bytes(f, p)
  BY <1>1, LeanBytes
<1> QED
  BY <1>2, <1>3 DEF FileSize

\* Files of the same sizes take the same space.
LEMMA SameSizes ==
    ASSUME NEW f, FilesOK(f), NEW g, FilesOK(g), DOMAIN g = DOMAIN f,
           \A q \in DOMAIN f : g[q].type = f[q].type /\ g[q].size = f[q].size
    PROVE  \A p : FileSize(g, p) = FileSize(f, p)
<1>1. Lean(f, g) /\ Lean(g, f)
  BY DEF Lean
<1> QED
  BY <1>1, LeanSizes

\* A file that grows makes everything above it grow as much.
LEMMA GrownSize ==
    ASSUME NEW f, FilesOK(f), NEW p \in DOMAIN f, f[p].type = "file", NEW e \in Nat, f[p].size <= e,
           NEW g, g = GrownFiles(f, p, e), NEW a
    PROVE  FileSize(g, a) = IF IsPrefix(a, p) THEN FileSize(f, a) + (e - f[p].size) ELSE FileSize(f, a)
<1> DEFINE s == f[p].size
           new == {p} \X (s + 1 .. e)
<1>1. /\ FilesOK(g) /\ DOMAIN g = DOMAIN f
      /\ \A q \in DOMAIN f : g[q].type = f[q].type /\ g[q].size = IF q = p THEN e ELSE f[q].size
  BY GrownIs
<1>2. s \in Nat
  BY DEF FilesOK, Entry
<1>3. CASE IsPrefix(a, p)
  <2>1. Bytes(g, a) = Bytes(f, a) \cup new
    <3>1. ASSUME NEW x \in Bytes(g, a) PROVE x \in Bytes(f, a) \cup new
      <4>1. PICK q \in DOMAIN g : IsPrefix(a, q) /\ g[q].type = "file" /\ x \in {q} \X (1 .. g[q].size)
        BY <3>1, BytesAre
      <4>2. CASE q # p
        BY <1>1, <4>1, <4>2, BytesAre
      <4>3. CASE q = p
        <5>1. x \in {p} \X (1 .. e)
          BY <1>1, <4>1, <4>3
        <5>2. x \in {p} \X (1 .. s) \/ x \in new
          BY <1>2, <5>1
        <5> QED BY <1>1, <4>1, <4>3, <5>2, BytesAre
      <4> QED BY <4>2, <4>3
    <3>2. ASSUME NEW x \in new PROVE x \in Bytes(g, a)
      <4>1. x \in {p} \X (1 .. g[p].size)
        BY <1>1, <1>2, <3>2
      <4> QED BY <1>1, <1>3, <4>1, BytesAre
    <3>3. ASSUME NEW x \in Bytes(f, a) PROVE x \in Bytes(g, a)
      <4>1. PICK q \in DOMAIN f : IsPrefix(a, q) /\ f[q].type = "file" /\ x \in {q} \X (1 .. f[q].size)
        BY <3>3, BytesAre
      <4>2. x \in {q} \X (1 .. g[q].size)
        BY <1>1, <1>2, <4>1
      <4> QED BY <1>1, <4>1, <4>2, BytesAre
    <3> QED BY <3>1, <3>2, <3>3
  <2>2. Bytes(f, a) \cap new = {}
    <3> SUFFICES ASSUME NEW x \in Bytes(f, a), x \in new PROVE FALSE
      OBVIOUS
    <3>1. PICK q \in DOMAIN f : IsPrefix(a, q) /\ f[q].type = "file" /\ x \in {q} \X (1 .. f[q].size)
      BY BytesAre
    <3> QED BY <1>2, <3>1
  <2>3. IsFiniteSet(new) /\ Cardinality(new) = e - s
    <3>1. IsFiniteSet({p}) /\ Cardinality({p}) = 1
      BY FS_Singleton
    <3>2. IsFiniteSet(s + 1 .. e) /\ Cardinality(s + 1 .. e) = IF s + 1 > e THEN 0 ELSE e - (s + 1) + 1
      <4>1. s + 1 \in Int /\ e \in Int
        BY <1>2
      <4> QED BY <4>1, FS_Interval
    <3>3. IsFiniteSet(new) /\ Cardinality(new) = Cardinality({p}) * Cardinality(s + 1 .. e)
      BY <3>1, <3>2, FS_Product
    <3>4. Cardinality(s + 1 .. e) = e - s
      BY <1>2, <3>2
    <3>5. Cardinality(new) = 1 * (e - s)
      BY <3>1, <3>3, <3>4
    <3>6. 1 * (e - s) = e - s
      BY <1>2
    <3> QED BY <3>3, <3>5, <3>6
  <2>4. IsFiniteSet(Bytes(f, a)) /\ FileSize(f, a) \in Nat
    BY BytesFinite
  <2> HIDE DEF new, s
  <2>5. Cardinality(Bytes(f, a) \cup new) = Cardinality(Bytes(f, a)) + Cardinality(new) - Cardinality(Bytes(f, a) \cap new)
    BY <2>3, <2>4, FS_Union
  <2>6. Cardinality(Bytes(f, a) \cap new) = 0
    BY <2>2, FS_EmptySet
  <2>7. FileSize(g, a) = FileSize(f, a) + (e - s)
    <3>1. FileSize(g, a) = FileSize(f, a) + (e - s) - 0
      BY <2>1, <2>3, <2>5, <2>6 DEF FileSize
    <3> QED BY <1>2, <2>4, <3>1
  <2> QED BY <1>3, <2>7 DEF s
<1>4. CASE ~IsPrefix(a, p)
  <2>1. Bytes(g, a) = Bytes(f, a)
    <3>1. ASSUME NEW x PROVE x \in Bytes(g, a) <=> x \in Bytes(f, a)
      BY <1>1, <1>4, BytesAre
    <3> QED BY <3>1
  <2> QED BY <1>4, <2>1 DEF FileSize
<1> QED
  BY <1>3, <1>4

\* What is deleted leaves the size of everything above it.
LEMMA RemovedSize ==
    ASSUME NEW f, FilesOK(f), NEW old \in PathSet, NEW P, P = {p \in DOMAIN f : IsPrefix(old, p)},
           NEW g, Kept(f, g, P), NEW a \in DOMAIN f, a \notin P
    PROVE  /\ FileSize(g, a) = IF IsPrefix(a, old) THEN FileSize(f, a) - FileSize(f, old) ELSE FileSize(f, a)
           /\ IsPrefix(a, old) => FileSize(f, old) <= FileSize(f, a)
<1>1. DOMAIN g = DOMAIN f \ P /\ \A q \in DOMAIN g : g[q] = f[q]
  BY DEF Kept
<1>2. Bytes(g, a) = Bytes(f, a) \ Bytes(f, old)
  <2>1. ASSUME NEW x \in Bytes(g, a) PROVE x \in Bytes(f, a) /\ x \notin Bytes(f, old)
    <3>1. PICK q \in DOMAIN g : IsPrefix(a, q) /\ g[q].type = "file" /\ x \in {q} \X (1 .. g[q].size)
      BY <2>1, BytesAre
    <3>2. q \in DOMAIN f /\ g[q] = f[q] /\ ~IsPrefix(old, q)
      BY <1>1
    <3>3. x \in Bytes(f, a)
      BY <3>1, <3>2, BytesAre
    <3>4. ASSUME x \in Bytes(f, old) PROVE FALSE
      <4>1. PICK k \in DOMAIN f : IsPrefix(old, k) /\ f[k].type = "file" /\ x \in {k} \X (1 .. f[k].size)
        BY <3>4, BytesAre
      <4>2. k = q
        BY <3>1, <4>1
      <4> QED BY <3>2, <4>1, <4>2
    <3> QED BY <3>3, <3>4
  <2>2. ASSUME NEW x \in Bytes(f, a), x \notin Bytes(f, old) PROVE x \in Bytes(g, a)
    <3>1. PICK q \in DOMAIN f : IsPrefix(a, q) /\ f[q].type = "file" /\ x \in {q} \X (1 .. f[q].size)
      BY <2>2, BytesAre
    <3>2. ~IsPrefix(old, q)
      BY <2>2, <3>1, BytesAre
    <3>3. q \in DOMAIN g /\ g[q] = f[q]
      BY <1>1, <3>2
    <3> QED BY <3>1, <3>3, BytesAre
  <2> QED BY <2>1, <2>2
<1>3. IsFiniteSet(Bytes(f, a)) /\ IsFiniteSet(Bytes(f, old)) /\ FileSize(f, a) \in Nat /\ FileSize(f, old) \in Nat
  BY BytesFinite
<1>4. Cardinality(Bytes(g, a)) = Cardinality(Bytes(f, a)) - Cardinality(Bytes(f, a) \cap Bytes(f, old))
  BY <1>2, <1>3, FS_Difference
<1>5. a \in PathSet /\ DOMAIN f \subseteq PathSet
  BY DEF FilesOK
<1>6. CASE IsPrefix(a, old)
  <2>1. ASSUME NEW x \in Bytes(f, old) PROVE x \in Bytes(f, a)
    <3>1. PICK q \in DOMAIN f : IsPrefix(old, q) /\ f[q].type = "file" /\ x \in {q} \X (1 .. f[q].size)
      BY <2>1, BytesAre
    <3>2. IsPrefix(a, q)
      BY <1>5, <1>6, <3>1, PrefixOrder DEF PathSet
    <3> QED BY <3>1, <3>2, BytesAre
  <2>2. Bytes(f, old) \in SUBSET Bytes(f, a) /\ Bytes(f, a) \cap Bytes(f, old) = Bytes(f, old)
    BY <2>1
  <2>3. Cardinality(Bytes(f, old)) <= Cardinality(Bytes(f, a))
    BY <1>3, <2>2, FS_Subset
  <2> QED BY <1>4, <1>6, <2>2, <2>3 DEF FileSize
<1>7. CASE ~IsPrefix(a, old)
  <2>1. Bytes(f, a) \cap Bytes(f, old) = {}
    <3> SUFFICES ASSUME NEW x \in Bytes(f, a), x \in Bytes(f, old) PROVE FALSE
      OBVIOUS
    <3>1. PICK q \in DOMAIN f : IsPrefix(a, q) /\ f[q].type = "file" /\ x \in {q} \X (1 .. f[q].size)
      BY BytesAre
    <3>2. PICK k \in DOMAIN f : IsPrefix(old, k) /\ f[k].type = "file" /\ x \in {k} \X (1 .. f[k].size)
      BY BytesAre
    <3>3. k = q
      BY <3>1, <3>2
    <3>4. IsPrefix(a, old) \/ IsPrefix(old, a)
      BY <1>5, <3>1, <3>2, <3>3, PrefixOrder DEF PathSet
    <3> QED BY <1>7, <3>4
  <2>2. Cardinality(Bytes(f, a) \cap Bytes(f, old)) = 0
    BY <2>1, FS_EmptySet
  <2>3. FileSize(g, a) = FileSize(f, a) - 0
    BY <1>4, <2>2 DEF FileSize
  <2> QED BY <1>3, <1>7, <2>3
<1> QED
  BY <1>6, <1>7

\* Every inode has the size of what is below it on disk.
Sizes(n, f) == \A i \in DOMAIN n : n[i].size = FileSize(f, n[i].path)

\* CreateFile keeps sizes exact and stores nothing.
LEMMA CreateSizes ==
    ASSUME CoreInv, NEW c \in Callers, CreateFile(c), ~replaced', Sizes(inodes, disk.files)
    PROVE  Sizes(inodes', disk'.files) /\ FileSize(disk'.files, <<>>) = FileSize(disk.files, <<>>)
<1> DEFINE r == req[c]
           f == disk.files
           g == CreatedFiles(r)
           p == NewPath(r)
           i == NewId(r)
<1>1. /\ CanCreate(r) /\ index' = NewIndex(r) /\ inodes' = CreatedTree(r) /\ disk' = Last(CreateSteps(r))
      /\ shares' = shares /\ trashMeta' = trashMeta /\ r.name # aclFileName
  BY DEF CreateFile, NewIndex, CreatedTree, NewId
<1>2. RequestOK(inodes, "create", r)
  BY MyRequest DEF CreateFile
<1>3. disk'.files = g /\ TreeAdded(inodes, inodes', i, r.dir, r.name, p, r.type)
  BY <1>1, <1>2, CreateStep
<1>4. /\ FilesOK(g) /\ DOMAIN g = DOMAIN f \cup {p} /\ (\A q \in DOMAIN f : g[q] = f[q]) /\ g[p].size = 0
  BY <1>1, <1>2, CreateDisk
<1>5. p \in PathSet /\ p \notin DOMAIN f
  BY <1>1, <1>2, CreateTarget
<1>6. FilesOK(f)
  BY CoreFacts
<1> HIDE DEF g, p, i, f, r
<1>7. Lean(f, g) /\ Lean(g, f)
  BY <1>4, <1>5 DEF Lean
<1>8. \A a : FileSize(g, a) = FileSize(f, a)
  BY <1>4, <1>6, <1>7, LeanSizes
<1>9. FileSize(g, p) = 0
  <2>1. Bytes(g, p) = {}
    <3> SUFFICES ASSUME NEW x \in Bytes(g, p) PROVE FALSE
      OBVIOUS
    <3>1. PICK q \in DOMAIN g : IsPrefix(p, q) /\ g[q].type = "file" /\ x \in {q} \X (1 .. g[q].size)
      BY BytesAre
    <3>2. q # p
      BY <1>4, <3>1
    <3>3. q \in DOMAIN f
      BY <1>4, <3>2
    <3>4. p \in DOMAIN f
      BY <1>5, <1>6, <3>1, <3>3, FileAncestors
    <3> QED BY <1>5, <3>4
  <2> QED BY <2>1, FS_EmptySet DEF FileSize
<1>10. ASSUME NEW j \in DOMAIN inodes' PROVE inodes'[j].size = FileSize(g, inodes'[j].path)
  <2>1. CASE j = i
    BY <1>3, <1>9, <2>1 DEF TreeAdded
  <2>2. CASE j # i
    <3>1. j \in DOMAIN inodes /\ inodes'[j].path = inodes[j].path /\ inodes'[j].size = inodes[j].size
      BY <1>3, <2>2 DEF TreeAdded
    <3> QED BY <1>8, <3>1 DEF Sizes, f
  <2> QED BY <2>1, <2>2
<1> QED
  BY <1>3, <1>8, <1>10 DEF Sizes, f

\* A write keeps sizes exact all the way up.
LEMMA WriteSizes ==
    ASSUME CoreInv, NEW i, NEW e, Wrote(i, e), Sizes(inodes, disk.files)
    PROVE  Sizes(inodes', disk'.files)
<1> DEFINE f == disk.files
           g == disk'.files
<1>1. /\ i \in Live /\ inodes[i].type = "file" /\ e \in Nat /\ inodes[i].size <= e
      /\ Written(inodes, inodes', i, e) /\ g = GrownFiles(f, Path(i), e)
  BY DEF Wrote
<1>2. FilesOK(f) /\ Path(i) \in DOMAIN f /\ f[Path(i)].type = "file" /\ f[Path(i)].size = inodes[i].size
  BY <1>1, CoreFacts DEF Match, Path, Live
<1> HIDE DEF f, g
<1>3. ASSUME NEW j \in DOMAIN inodes' PROVE inodes'[j].size = FileSize(g, inodes'[j].path)
  <2>1. /\ j \in DOMAIN inodes /\ inodes'[j].path = Path(j)
        /\ inodes'[j].size = IF IsPrefix(Path(j), Path(i)) THEN inodes[j].size + (e - inodes[i].size) ELSE inodes[j].size
    BY <1>1 DEF Written, Path
  <2>2. FileSize(g, Path(j)) = IF IsPrefix(Path(j), Path(i)) THEN FileSize(f, Path(j)) + (e - f[Path(i)].size)
                               ELSE FileSize(f, Path(j))
    BY <1>1, <1>2, GrownSize
  <2>3. inodes[j].size = FileSize(f, Path(j))
    BY <2>1 DEF Sizes, Path, f
  <2> QED BY <1>2, <2>1, <2>2, <2>3
<1> QED
  BY <1>3 DEF Sizes, g

\* A deletion keeps sizes exact all the way up.
LEMMA DeleteSizes ==
    ASSUME CoreInv, NEW i, Deleted(i), Sizes(inodes, disk.files)
    PROVE  Sizes(inodes', disk'.files)
<1> DEFINE f == disk.files
           g == disk'.files
           P == Gone(i)
<1>1. i \in Live \ {Root, Trash} /\ Removed(inodes, inodes', i, Subtree(i)) /\ g = RemovedFiles(i)
  BY DEF Deleted
<1>2. FilesOK(f) /\ TreeOK(inodes) /\ \A j \in Live : Path(j) \in DOMAIN f
  BY CoreFacts
<1>3. P = {p \in DOMAIN f : IsPrefix(Path(i), p)} /\ Path(i) \in PathSet /\ \A j \in Live : Path(j) \in P <=> j \in Subtree(i)
  BY <1>1, SubtreePaths
<1>4. Kept(f, g, P)
  BY <1>1, DeleteDisk DEF Kept
<1> HIDE DEF f, g, P
<1>5. ASSUME NEW j \in DOMAIN inodes' PROVE inodes'[j].size = FileSize(g, inodes'[j].path)
  <2>1. /\ j \in Live /\ j \notin Subtree(i) /\ inodes'[j].path = Path(j)
        /\ inodes'[j].size = IF IsPrefix(Path(j), Path(inodes[i].parent))
                             THEN (IF inodes[j].size > inodes[i].size THEN inodes[j].size - inodes[i].size ELSE 0)
                             ELSE inodes[j].size
    BY <1>1 DEF Removed, Path, Live
  <2>2. j # i
    BY <1>1, <2>1, SubtreePaths
  <2>3. IsPrefix(Path(j), Path(inodes[i].parent)) <=> IsPrefix(Path(j), Path(i))
    BY <1>1, <1>2, <2>1, <2>2, TreePaths DEF Path, Live
  <2>4. /\ FileSize(g, Path(j)) = IF IsPrefix(Path(j), Path(i)) THEN FileSize(f, Path(j)) - FileSize(f, Path(i))
                                  ELSE FileSize(f, Path(j))
        /\ IsPrefix(Path(j), Path(i)) => FileSize(f, Path(i)) <= FileSize(f, Path(j))
    BY <1>2, <1>3, <1>4, <2>1, RemovedSize
  <2>5. inodes[j].size = FileSize(f, Path(j)) /\ inodes[i].size = FileSize(f, Path(i))
    BY <1>1, <2>1 DEF Sizes, Path, f, Live
  <2>6. FileSize(f, Path(j)) \in Nat /\ FileSize(f, Path(i)) \in Nat
    BY <1>2, BytesFinite
  <2> QED BY <2>1, <2>3, <2>4, <2>5, <2>6
<1> QED
  BY <1>5 DEF Sizes, g

\* Share and Unshare store nothing.
LEMMA ShareSizes ==
    ASSUME CoreInv, NEW c \in Callers, Share(c) \/ Unshare(c), Sizes(inodes, disk.files)
    PROVE  Sizes(inodes', disk'.files) /\ FileSize(disk'.files, <<>>) = FileSize(disk.files, <<>>)
<1> DEFINE r == req[c]
           f == disk.files
           g == SharedFiles(r)
<1>1. Opened(inodes, inodes', r) /\ disk'.files = g /\ pc[c] \in {"share", "unshare"}
  BY ShareCore
<1>2. RequestOK(inodes, pc[c], r)
  BY MyRequest
<1>3. FilesOK(g) /\ DOMAIN g = DOMAIN f /\ \A p \in DOMAIN f : g[p].type = f[p].type /\ g[p].size = f[p].size
  BY <1>1, <1>2, ShareDisk
<1>4. FilesOK(f)
  BY CoreFacts
<1> HIDE DEF f, g
<1>5. \A a : FileSize(g, a) = FileSize(f, a)
  BY <1>3, <1>4, SameSizes
<1>6. ASSUME NEW j \in DOMAIN inodes' PROVE inodes'[j].size = FileSize(g, inodes'[j].path)
  <2>1. j \in DOMAIN inodes /\ inodes'[j].path = inodes[j].path /\ inodes'[j].size = inodes[j].size
    BY <1>1 DEF Opened
  <2> QED BY <1>5, <2>1 DEF Sizes, f
<1> QED
  BY <1>1, <1>5, <1>6 DEF Sizes, f

\* The scan counts what it finds.
LEMMA RestartSizes ==
    ASSUME NEW d, DurableOK(d), RestartedFrom(d)
    PROVE  Sizes(inodes', disk'.files) /\ \A a : FileSize(disk'.files, a) = FileSize(d.files, a)
<1> DEFINE f == d.files
           g == disk'.files
           ids == index'.ids
<1>1. /\ ScanOf(inodes', f, ids) /\ DOMAIN g = DOMAIN f
      /\ \A p \in DOMAIN f : g[p] = IF f[p].fid = None THEN [f[p] EXCEPT !.fid = ids[p]] ELSE f[p]
  BY DEF RestartedFrom
<1>2. FilesOK(f) /\ FilesOK(g)
  BY DurableIs DEF RestartedFrom
<1>3. \A p \in DOMAIN f : f[p] \in Entry
  BY <1>2 DEF FilesOK
<1> HIDE DEF f, g, ids
<1>4. ASSUME NEW p \in DOMAIN f PROVE g[p].type = f[p].type /\ g[p].size = f[p].size
  <2> DEFINE x == f[p]
             y == g[p]
             z == ids[p]
  <2>1. x \in Entry /\ y = IF x.fid = None THEN [x EXCEPT !.fid = z] ELSE x
    BY <1>1, <1>3
  <2> HIDE DEF x, y, z
  <2>2. y.type = x.type /\ y.size = x.size
    BY <2>1 DEF Entry
  <2> QED BY <2>2 DEF x, y
<1>5. \A a : FileSize(g, a) = FileSize(f, a)
  BY <1>1, <1>2, <1>4, SameSizes
<1>6. ASSUME NEW i \in DOMAIN inodes' PROVE inodes'[i].size = FileSize(g, inodes'[i].path)
  <2>1. PICK p \in DOMAIN f : i = ids[p]
    BY <1>1 DEF ScanOf
  <2>2. inodes'[i].path = p /\ inodes'[i].size = FileSize(f, p)
    BY <1>1, <2>1 DEF ScanOf
  <2> QED BY <1>5, <2>2
<1> QED
  BY <1>5, <1>6 DEF Sizes, g, f

\* Where the trash is not used it stays empty.
NoTrashInv ==
    "trash" \notin Ops /\ ~replaced => DOMAIN trashMeta = {} /\ \A c \in Callers : pc[c] # "trash"

\* At first nothing is in the trash.
LEMMA NoTrashInit ==
    ASSUME Init
    PROVE  NoTrashInv
<1>1. ~replaced /\ trashMeta = <<>> /\ pc = [c \in Callers |-> "idle"]
  BY DEF Init
<1> QED
  BY <1>1 DEF NoTrashInv

\* Without requests to trash nothing is trashed or restored.
LEMMA NoMoves ==
    ASSUME NoTrashInv, "trash" \notin Ops, ~replaced, NEW c \in Callers
    PROVE  ~TrashFile(c) /\ ~RestoreFile(c) /\ pc[c] # "trash" /\ \A i : ~CanRestore(i)
<1>1. pc[c] # "trash" /\ DOMAIN trashMeta = {}
  BY DEF NoTrashInv
<1>2. \A i : ~CanRestore(i)
  BY <1>1 DEF CanRestore
<1> QED
  BY <1>1, <1>2 DEF TrashFile, RestoreFile

\* So nothing gets into the trash.
LEMMA NoTrashServe ==
    ASSUME CoreInv, NoTrashInv, "trash" \notin Ops, ~replaced, NEW c \in Callers, Serve(c)
    PROVE  DOMAIN trashMeta' = {} /\ \A b \in Callers : pc'[b] # "trash"
<1>1. DOMAIN trashMeta = {} /\ \A b \in Callers : pc[b] # "trash"
  BY DEF NoTrashInv
<1>2. \A b \in Callers : pc'[b] # "trash"
  <2>1. DOMAIN pc = Callers
    BY DEF CoreInv, RequestInv
  <2> QED BY <1>1, <2>1, ServesOn DEF HandlerMoves
<1>3. CASE CreateFile(c) \/ WriteFile(c) \/ UploadChunk(c)
  <2>1. UNCHANGED trashMeta
    BY <1>3, Zenon DEF CreateFile, WriteFile, UploadChunk
  <2> QED BY <1>1, <1>2, <2>1
<1>4. CASE UploadFails(c) \/ UploadDone(c) \/ ScrapLookup(c) \/ Tell(c) \/ Refuse(c)
  <2>1. replaced' = replaced /\ trashMeta' = trashMeta
    BY <1>4, QuietServe DEF Quiet, memory, history
  <2> QED BY <1>1, <1>2, <2>1
<1>5. CASE Share(c) \/ Unshare(c)
  <2>1. replaced' = replaced /\ trashMeta' = trashMeta
    BY <1>5, Zenon DEF Share, Unshare
  <2> QED BY <1>1, <1>2, <2>1
<1>6. CASE DeleteFile(c) \/ ScrapDelete(c)
  <2>1. Delete(req[c].fid)
    BY <1>6, DeletesCore DEF Deleted
  <2>2. replaced' = replaced /\ trashMeta' = Without(trashMeta, Subtree(req[c].fid))
    BY <2>1, Zenon DEF Delete
  <2>3. DOMAIN trashMeta' = {}
    BY <1>1, <2>2 DEF Without
  <2> QED BY <1>1, <1>2, <2>2, <2>3
<1> QED
  BY <1>3, <1>4, <1>5, <1>6, NoMoves DEF Serve

\* Every step keeps NoTrashInv.
LEMMA NoTrashNext ==
    ASSUME FileServerInv, NoTrashInv, [Next]_vars
    PROVE  NoTrashInv'
<1>1. CASE Next
  <2>1. workload' = workload /\ Ops' = Ops
    BY <1>1, NextKeeps DEF Ops
  <2> SUFFICES ASSUME "trash" \notin Ops, ~replaced'
               PROVE  DOMAIN trashMeta' = {} /\ \A b \in Callers : pc'[b] # "trash"
    BY <2>1 DEF NoTrashInv
  <2>2. ~replaced /\ DOMAIN trashMeta = {} /\ \A b \in Callers : pc[b] # "trash"
    BY <1>1, NextKeeps DEF NoTrashInv
  <2>3. CoreInv
    BY <2>2 DEF FileServerInv
  <2>4. ASSUME NEW c \in Callers, Send(c)
        PROVE  DOMAIN trashMeta' = {} /\ \A b \in Callers : pc'[b] # "trash"
    <3>1. replaced' = replaced /\ trashMeta' = trashMeta
      BY <2>4, SendKeeps DEF memory, history
    <3>2. PICK r : Begin(c, r)
      BY <2>4, Zenon DEF Send, SendCreate, SendWrite, SendUpload, SendRemove, SendShare
    <3>3. r.op # "trash"
      BY <3>2 DEF Begin
    <3>4. \A b \in Callers : pc'[b] = IF b = c THEN r.op ELSE pc[b]
      BY <2>3, <3>2, BeginIs
    <3> QED BY <2>2, <3>1, <3>3, <3>4
  <2>5. ASSUME NEW d, Restart(d) PROVE DOMAIN trashMeta' = {} /\ \A b \in Callers : pc'[b] # "trash"
    <3>1. trashMeta' = <<>> /\ pc' = [c \in Callers |-> "idle"]
      BY <2>5 DEF Restart, RestartFrom
    <3> QED BY <3>1
  <2>6. ASSUME NEW c \in Callers, CrashInside(c)
        PROVE  DOMAIN trashMeta' = {} /\ \A b \in Callers : pc'[b] # "trash"
    <3>1. \E d : Restart(d)
      BY <2>6 DEF CrashInside
    <3> QED BY <2>2, <2>5, <3>1
  <2>7. CASE Crash
    <3>1. replaced' = replaced /\ \E d : Restart(d)
      BY <2>7 DEF Crash, history
    <3> QED BY <2>2, <2>5, <3>1
  <2>8. CASE SetQuota \/ HeartbeatFails \/ SendRegistration \/ Register \/ RegistrationFails
    <3>1. UNCHANGED <<memory, history, pc>>
      BY <2>8, Zenon DEF SetQuota, SetUserQuota, HeartbeatFails, SendRegistration, Register, RegistrationFails
    <3> QED BY <2>2, <3>1 DEF memory, history
  <2> QED
    BY <1>1, <2>2, <2>3, <2>4, <2>6, <2>7, <2>8, NoTrashServe DEF Next
<1>2. CASE UNCHANGED vars
  <2>1. trashMeta' = trashMeta /\ pc' = pc /\ replaced' = replaced /\ workload' = workload
    BY <1>2 DEF vars, memory, history, process
  <2> QED BY <2>1 DEF NoTrashInv, Ops
<1> QED
  BY <1>1, <1>2

\* A crash inside a method leaves nothing on disk that was not stored before.
LEMMA CutCreateLean ==
    ASSUME CoreInv, NEW r, RequestOK(inodes, "create", r), r.name # aclFileName, CanCreate(r),
           NEW d \in CutShort(CreateSteps(r))
    PROVE  Lean(d.files, disk.files)
<1> DEFINE f == disk.files
           p == NewPath(r)
           e == NewEntry(r.type, None)
           g == MadeFiles(r)
           h == AcledFiles(r)
           hh == CreatedFiles(r)
           qq == disk.quota
           acls == [x \in {p} |-> inodes[r.dir].shared]
<1>1. /\ CreateSteps(r) = <<Durable(g, index, shares, qq), Durable(h, index, shares, qq),
                            Durable(h, EmptyIndex, shares, qq), Durable(hh, NewIndex(r), shares, qq)>>
      /\ FilesOK(g)
  BY CreateDisk
<1>2. g = With(f, p, e) /\ h = Acled(g, acls)
  BY DEF MadeFiles, AcledFiles
<1>3. e.size = 0
  BY DEF NewEntry
<1>4. \A x \in DOMAIN acls : acls[x] \in SUBSET Grantees
  BY CreateTarget
<1>5. p \notin DOMAIN f
  BY CreateTarget
<1> HIDE DEF f, g, h, hh, qq, p, e, acls
<1>6. d \in {Durable(g, index, shares, qq), Durable(h, index, shares, qq), Durable(h, EmptyIndex, shares, qq)}
  BY <1>1, LastOfFour
<1>7. d.files \in {g, h}
  BY <1>6, DurableFields
<1>8. Lean(g, f)
  BY <1>2, <1>3 DEF Lean, With
<1>9. DOMAIN h = DOMAIN g /\ \A x \in DOMAIN g : h[x].type = g[x].type /\ h[x].size = g[x].size
  BY <1>1, <1>2, <1>4, AcledFacts
<1>10. Lean(h, f)
  BY <1>8, <1>9 DEF Lean
<1> QED
  BY <1>7, <1>8, <1>10 DEF f

\* Files that are only taken away leave no more than there was.
LEMMA KeptLean ==
    ASSUME NEW f, NEW g, NEW P, Kept(f, g, P)
    PROVE  Lean(g, f)
BY DEF Kept, Lean

\* A crash inside DeleteFile leaves no more than there was.
LEMMA CutDeleteLean ==
    ASSUME CoreInv, NEW i \in Live \ {Root, Trash}, NEW d \in CutShort(DeleteSteps(i))
    PROVE  Lean(d.files, disk.files)
<1> DEFINE g == RemovedFiles(i)
           iy == IndexRemove(index, Gone(i))
           S == shares \ SharesBelow(Path(i))
           qq == disk.quota
<1>1. /\ DeleteSteps(i) = <<Durable(g, index, shares, qq), Durable(g, EmptyIndex, shares, qq),
                            Durable(g, iy, shares, qq), Durable(g, iy, S, qq)>>
      /\ Kept(disk.files, g, Gone(i))
  BY DeleteDisk DEF Kept
<1> HIDE DEF g, iy, S, qq
<1>2. d \in {Durable(g, index, shares, qq), Durable(g, EmptyIndex, shares, qq), Durable(g, iy, shares, qq)}
  BY <1>1, LastOfFour
<1>3. d.files = g
  BY <1>2, DurableFields
<1> QED
  BY <1>1, <1>3, KeptLean

\* Nor does one inside Share or Unshare.
LEMMA CutShareLean ==
    ASSUME CoreInv, NEW k \in {"share", "unshare"}, NEW r, RequestOK(inodes, k, r), NEW S,
           NEW d \in CutShort(SharingSteps(r, S))
    PROVE  Lean(d.files, disk.files)
<1> DEFINE f == disk.files
           g == TopFiles(r)
           h == SharedFiles(r)
           qq == disk.quota
           acls == TopACL(r)
<1>1. /\ SharingSteps(r, S) = <<Durable(g, index, shares, qq), Durable(h, index, shares, qq), Durable(h, index, S, qq)>>
      /\ DOMAIN h = DOMAIN f /\ \A p \in DOMAIN f : h[p].type = f[p].type /\ h[p].size = f[p].size
  BY ShareDisk
<1>2. g = Acled(f, acls) /\ FilesOK(f) /\ \A p \in DOMAIN acls : acls[p] \in SUBSET Grantees
  BY CoreFacts, ShareTarget DEF TopFiles
<1> HIDE DEF f, g, h, qq, acls
<1>3. DOMAIN g = DOMAIN f /\ \A p \in DOMAIN f : g[p].type = f[p].type /\ g[p].size = f[p].size
  BY <1>2, AcledFacts
<1>4. d \in {Durable(g, index, shares, qq), Durable(h, index, shares, qq)}
  BY <1>1, LastOfThree
<1>5. d.files \in {g, h}
  BY <1>4, DurableFields
<1>6. Lean(g, f) /\ Lean(h, f)
  BY <1>1, <1>3 DEF Lean
<1> QED
  BY <1>5, <1>6 DEF f

\* Nor does one among the removals.
LEMMA CutHalfLean ==
    ASSUME CoreInv, NEW c \in Callers, CanRun(c), NEW d \in HalfRemoved(c)
    PROVE  Lean(d.files, disk.files)
<1> DEFINE i == req[c].fid
           f == disk.files
           qq == disk.quota
<1>1. pc[c] \in {"delete", "scrapDelete"}
  BY DEF HalfRemoved
<1>2. i \in Live \ {Root, Trash}
  BY <1>1 DEF CanRun, CanRemove
<1>3. PICK P \in SUBSET Gone(i) : d = [disk EXCEPT !.files = Without(f, P)] /\ \A p \in P : Below(Gone(i), p) \subseteq P
  BY <1>1 DEF HalfRemoved, Gone
<1> DEFINE g == Without(f, P)
<1>4. Kept(f, g, P)
  BY <1>2, <1>3, HalfRemovedOK
<1>5. disk = Durable(f, index, shares, qq)
  BY CoreFacts
<1> HIDE DEF g, f, qq
<1>6. d = Durable(g, index, shares, qq)
  <2>1. [Durable(f, index, shares, qq) EXCEPT !.files = g] = Durable(g, index, shares, qq)
    BY DurableUpdates
  <2>2. d = [disk EXCEPT !.files = g]
    BY <1>3 DEF g
  <2> QED BY <1>5, <2>1, <2>2
<1>7. d.files = g
  BY <1>6, DurableFields
<1> QED
  BY <1>4, <1>7, KeptLean DEF f

\* Nor does one among the .acl files.
LEMMA CutHalfShareLean ==
    ASSUME CoreInv, NEW c \in Callers, NEW d \in HalfShared(c)
    PROVE  Lean(d.files, disk.files)
<1> DEFINE r == req[c]
           f == disk.files
           A == TopACL(r)
           B == LowerACLs(r)
           g == TopFiles(r)
           qq == disk.quota
<1>1. pc[c] \in {"share", "unshare"} /\ RequestOK(inodes, pc[c], r)
  BY MyRequest DEF HalfShared
<1>2. PICK P \in SUBSET DOMAIN B : d = Durable(Acled(g, [p \in P |-> B[p]]), index, shares, qq)
  BY CutHalfShared
<1> DEFINE C == [p \in P |-> B[p]]
           h == Acled(g, C)
<1>3. (\A p \in DOMAIN A : A[p] \in SUBSET Grantees) /\ (\A p \in DOMAIN C : C[p] \in SUBSET Grantees)
  <2>1. (\A p \in DOMAIN A : A[p] \in SUBSET Grantees) /\ (\A p \in DOMAIN B : B[p] \in SUBSET Grantees)
    BY <1>1, ShareTarget
  <2> QED BY <2>1
<1>4. g = Acled(f, A) /\ FilesOK(f)
  BY CoreFacts DEF TopFiles
<1> HIDE DEF f, g, h, A, B, C, qq
<1>5. FilesOK(g) /\ DOMAIN g = DOMAIN f /\ \A p \in DOMAIN f : g[p].type = f[p].type /\ g[p].size = f[p].size
  BY <1>3, <1>4, AcledFacts
<1>6. DOMAIN h = DOMAIN g /\ \A p \in DOMAIN g : h[p].type = g[p].type /\ h[p].size = g[p].size
  BY <1>3, <1>5, AcledFacts DEF h
<1>7. d.files = h
  BY <1>2, DurableFields DEF h, C
<1> QED
  BY <1>5, <1>6, <1>7 DEF Lean, f

\* Nor does any crash inside a method.
LEMMA CutLean ==
    ASSUME CoreInv, NoTrashInv, "trash" \notin Ops, ~replaced, NEW c \in Callers, CanRun(c),
           pc[c] = "create" => req[c].name # aclFileName,
           NEW d \in CutShort(Steps(c)) \cup HalfRemoved(c) \cup HalfShared(c)
    PROVE  Lean(d.files, disk.files)
<1> DEFINE r == req[c]
           s == Steps(c)
<1>1. CASE d \in HalfRemoved(c)
  BY <1>1, CutHalfLean
<1>3. CASE d \in HalfShared(c)
  BY <1>3, CutHalfShareLean
<1>2. CASE d \in CutShort(s)
  <2>1. RequestOK(inodes, pc[c], r)
    BY MyRequest
  <2>2. CASE pc[c] = "create"
    <3>1. s = CreateSteps(r) /\ CanCreate(r) /\ RequestOK(inodes, "create", r) /\ r.name # aclFileName
      BY <2>1, <2>2 DEF Steps, CanRun
    <3> QED BY <1>2, <3>1, CutCreateLean
  <2>3. CASE pc[c] \in {"delete", "scrapDelete"}
    <3>1. s = DeleteSteps(r.fid) /\ r.fid \in Live \ {Root, Trash}
      BY <2>3 DEF Steps, CanRun, CanRemove
    <3> QED BY <1>2, <3>1, CutDeleteLean
  <2>4. CASE pc[c] \in {"trash", "restore"}
    <3>1. pc[c] = "restore" /\ ~CanRestore(r.fid)
      BY <2>4, NoMoves
    <3> QED BY <3>1 DEF CanRun
  <2>5. CASE pc[c] \in {"share", "unshare"}
    <3>1. \E S : s = SharingSteps(r, S)
      BY <2>5 DEF Steps, ShareSteps, UnshareSteps
    <3> QED BY <1>2, <2>1, <2>5, <3>1, CutShareLean
  <2>6. CASE pc[c] \notin {"create", "delete", "scrapDelete", "trash", "restore", "share", "unshare"}
    <3>1. s = <<>>
      BY <2>6 DEF Steps
    <3>2. CutShort(<<>>) = {}
      BY DEF CutShort
    <3> HIDE DEF s
    <3> QED BY <1>2, <3>1, <3>2
  <2> QED BY <2>2, <2>3, <2>4, <2>5, <2>6
<1> QED
  BY <1>1, <1>2, <1>3

\* Sizes stay exact, and what is stored grows only up to the quota.
Stored(f) == FileSize(f, <<>>)
Measured ==
    /\ Sizes(inodes', disk'.files)
    /\ Stored(disk'.files) > Stored(disk.files) => Stored(disk'.files) <= Quota

\* What is stored is a number.
LEMMA StoredNat ==
    ASSUME NEW f, FilesOK(f)
    PROVE  Stored(f) \in Nat
BY BytesFinite DEF Stored

\* A step that touches no file stores nothing.
LEMMA SameMeasure ==
    ASSUME CoreInv, Sizes(inodes, disk.files), inodes' = inodes, disk'.files = disk.files
    PROVE  Measured
<1>1. Stored(disk.files) \in Nat
  BY CoreFacts, StoredNat
<1> QED
  BY <1>1 DEF Measured

\* A write that fits the quota ends within it.
LEMMA WriteMeasured ==
    ASSUME CoreInv, workload \in Workloads, NEW i, NEW e, Wrote(i, e), Sizes(inodes, disk.files)
    PROVE  Measured
<1> DEFINE f == disk.files
           g == disk'.files
           s == inodes[i].size
<1>1. /\ i \in Live /\ inodes[i].type = "file" /\ e \in Nat /\ s <= e
      /\ e > s => FitsQuota(e - s)
      /\ g = GrownFiles(f, Path(i), e)
  BY DEF Wrote
<1>2. FilesOK(f) /\ Path(i) \in DOMAIN f /\ f[Path(i)].type = "file" /\ f[Path(i)].size = s /\ Path(i) \in PathSet
  BY <1>1, CoreFacts DEF Match, Path, Live, FilesOK
<1>3. Root \in DOMAIN inodes /\ inodes[Root].path = <<>> /\ i \in DOMAIN inodes /\ inodes[i] \in InodeSet
  BY <1>1, CoreFacts DEF TreeOK, Live
<1>4. inodes[Root].size = Stored(f)
  BY <1>3 DEF Sizes, Stored
<1>5. s \in Nat /\ Quota \in Nat /\ Stored(f) \in Nat
  BY <1>2, <1>3, InodeFields, QuotaNat, StoredNat DEF CoreInv
<1>6. IsPrefix(<<>>, Path(i))
  BY <1>2, PrefixOrder DEF PathSet
<1>7. Stored(g) = Stored(f) + (e - s)
  BY <1>1, <1>2, <1>6, GrownSize DEF Stored
<1>8. ASSUME Stored(g) > Stored(f) PROVE Stored(g) <= Quota
  <2>1. e > s
    BY <1>1, <1>5, <1>7, <1>8
  <2>2. Stored(f) <= Quota - (e - s)
    BY <1>1, <1>4, <2>1 DEF FitsQuota
  <2> QED BY <1>1, <1>5, <1>7, <2>2
<1> QED
  BY <1>8, WriteSizes DEF Measured

\* Less is not more.
LEMMA LeanMeasured ==
    ASSUME NEW f, FilesOK(f), NEW g, FilesOK(g), Lean(g, f)
    PROVE  ~(Stored(g) > Stored(f))
<1>1. Stored(g) \in Nat /\ Stored(f) \in Nat /\ Stored(g) <= Stored(f)
  BY StoredNat, LeanSizes DEF Stored
<1> QED
  BY <1>1

\* Every method keeps sizes exact and storage within the quota in force.
LEMMA ServeMeasured ==
    ASSUME CoreInv, workload \in Workloads, NoTrashInv, "trash" \notin Ops, ~replaced, Sizes(inodes, disk.files),
           NEW c \in Callers, Serve(c), ~replaced'
    PROVE  Measured
<1>1. Stored(disk.files) \in Nat
  BY CoreFacts, StoredNat
<1>2. CASE CreateFile(c)
  BY <1>1, <1>2, CreateSizes DEF Measured, Stored
<1>3. CASE Share(c) \/ Unshare(c)
  BY <1>1, <1>3, ShareSizes DEF Measured, Stored
<1>4. CASE WriteFile(c) \/ UploadChunk(c)
  <2>1. PICK end \in Nat : CanWrite(req[c], end) /\ WriteTo(req[c], end)
    <3>1. CASE WriteFile(c)
      BY <3>1, MyRequest DEF WriteFile, RequestOK
    <3>2. CASE UploadChunk(c)
      BY <3>2, QuotaNat DEF UploadChunk, CoreInv
    <3> QED BY <1>4, <3>1, <3>2
  <2>2. index' = index /\ shares' = shares /\ trashMeta' = trashMeta
    BY <1>4 DEF WriteFile, UploadChunk
  <2>3. \E i, e : Wrote(i, e)
    BY <2>1, <2>2, WriteStep
  <2> QED BY <2>3, WriteMeasured
<1>5. CASE DeleteFile(c) \/ ScrapDelete(c)
  <2> DEFINE i == req[c].fid
             g == disk'.files
  <2>1. Deleted(i)
    BY <1>5, DeletesCore
  <2>2. i \in Live \ {Root, Trash} /\ g = RemovedFiles(i)
    BY <2>1 DEF Deleted
  <2>3. Kept(disk.files, g, Gone(i)) /\ FilesOK(g)
    BY <2>2, DeleteDisk DEF Kept
  <2>4. Lean(g, disk.files) /\ FilesOK(disk.files)
    BY <2>3, KeptLean, CoreFacts
  <2>5. ~(Stored(g) > Stored(disk.files))
    BY <2>3, <2>4, LeanMeasured
  <2> HIDE DEF i
  <2>6. Sizes(inodes', g)
    BY <2>1, DeleteSizes
  <2> QED BY <2>5, <2>6 DEF Measured
<1>6. CASE UploadFails(c) \/ UploadDone(c) \/ ScrapLookup(c) \/ Tell(c) \/ Refuse(c)
  <2>1. inodes' = inodes /\ disk' = disk
    BY <1>6, QuietServe DEF Quiet, memory
  <2> QED BY <2>1, SameMeasure
<1> QED
  BY <1>2, <1>3, <1>4, <1>5, <1>6, NoMoves DEF Serve

\* A restart counts what is there.
LEMMA RestartMeasured ==
    ASSUME CoreInv, NEW d, DurableOK(d), RestartedFrom(d), Lean(d.files, disk.files)
    PROVE  Measured
<1>1. FilesOK(disk.files) /\ FilesOK(d.files)
  BY CoreFacts, DurableIs
<1>2. ~(Stored(d.files) > Stored(disk.files))
  BY <1>1, LeanMeasured
<1>3. Sizes(inodes', disk'.files) /\ Stored(disk'.files) = Stored(d.files)
  BY RestartSizes DEF Stored
<1> QED
  BY <1>2, <1>3 DEF Measured

\* Every step keeps sizes exact, and lets storage grow only within the quota.
LEMMA NextMeasured ==
    ASSUME FileServerInv, NoTrashInv, "trash" \notin Ops, Sizes(inodes, disk.files), Next, ~replaced'
    PROVE  Measured
<1>1. CoreInv /\ workload \in Workloads /\ ~replaced
  BY NextKeeps DEF FileServerInv
<1>2. ASSUME NEW c \in Callers, Send(c) PROVE Measured
  <2>1. inodes' = inodes /\ disk' = disk
    BY <1>2, SendKeeps DEF memory
  <2> QED BY <1>1, <2>1, SameMeasure
<1>3. ASSUME NEW c \in Callers, Serve(c) PROVE Measured
  BY <1>1, <1>3, ServeMeasured
<1>4. ASSUME NEW c \in Callers, CrashInside(c) PROVE Measured
  <2>1. CanRun(c) /\ (pc[c] = "create" => req[c].name # aclFileName)
    BY <1>4 DEF CrashInside
  <2>2. PICK d \in CutShort(Steps(c)) \cup HalfRemoved(c) \cup HalfShared(c) :
          Restart(d) /\ retired' = retired \cup {i \in Live : \A p \in DOMAIN d.files : d.files[p].fid # i}
    BY <1>4 DEF CrashInside
  <2>3. DurableOK(d) /\ Lean(d.files, disk.files)
    BY <1>1, <2>1, CutOK, CutLean
  <2>4. RestartedFrom(d)
    BY <2>2, <2>3, RestartFacts
  <2> QED BY <1>1, <2>3, <2>4, RestartMeasured
<1>5. CASE Crash
  <2>1. RestartedFrom(disk) /\ DurableOK(disk)
    BY <1>1, <1>5, CrashCore, CoreFacts
  <2>2. Lean(disk.files, disk.files)
    BY DEF Lean
  <2> QED BY <1>1, <2>1, <2>2, RestartMeasured
<1>6. CASE SetQuota
  <2>1. inodes' = inodes /\ disk'.files = disk.files
    BY <1>1, <1>6, SetQuotaCore DEF memory
  <2> QED BY <1>1, <2>1, SameMeasure
<1>7. CASE HeartbeatFails \/ SendRegistration \/ Register \/ RegistrationFails
  <2>1. inodes' = inodes /\ disk' = disk
    BY <1>1, <1>7, QuietSync DEF Quiet, memory
  <2> QED BY <1>1, <2>1, SameMeasure
<1> QED
  BY <1>2, <1>3, <1>4, <1>5, <1>6, <1>7 DEF Next

SizesInv == NoTrashInv /\ ("trash" \notin Ops /\ ~replaced => Sizes(inodes, disk.files))

\* SizesInv holds at first.
LEMMA SizesInit ==
    ASSUME Init
    PROVE  SizesInv
<1> DEFINE f == disk.files
<1>1. f = RootAndTrash(NewEntry("dir", Root), NewEntry("dir", 1))
  BY DEF Init
<1>2. \A p \in DOMAIN f : f[p].type = "dir"
  BY <1>1 DEF RootAndTrash, NewEntry
<1> HIDE DEF f
<1>3. \A p : Bytes(f, p) = {}
  <2> SUFFICES ASSUME NEW p, NEW x \in Bytes(f, p) PROVE FALSE
    OBVIOUS
  <2>1. \E q \in DOMAIN f : f[q].type = "file"
    BY BytesAre
  <2> QED BY <1>2, <2>1
<1>4. \A p : FileSize(f, p) = 0
  BY <1>3, FS_EmptySet DEF FileSize
<1>5. Sizes(inodes, f)
  BY <1>4, InitTree DEF Sizes, Live
<1> QED
  BY <1>5, NoTrashInit DEF SizesInv, f

\* Every step keeps SizesInv.
LEMMA SizesNext ==
    ASSUME FileServerInv, SizesInv, [Next]_vars
    PROVE  SizesInv'
<1>1. NoTrashInv /\ NoTrashInv'
  BY NoTrashNext DEF SizesInv
<1>2. CASE Next
  <2>1. workload' = workload /\ (~replaced' => ~replaced)
    BY <1>2, NextKeeps
  <2>2. "trash" \notin Ops /\ ~replaced' => Sizes(inodes', disk'.files)
    BY <1>1, <1>2, <2>1, NextMeasured DEF SizesInv, Measured
  <2> QED BY <1>1, <2>1, <2>2 DEF SizesInv, Ops, Sizes
<1>3. CASE UNCHANGED vars
  <2>1. workload' = workload /\ inodes' = inodes /\ disk' = disk /\ replaced' = replaced
    BY <1>3 DEF vars, memory, process, history
  <2> QED BY <1>1, <2>1 DEF SizesInv, Ops, Sizes
<1> QED
  BY <1>2, <1>3

\* Sizes are exact in every reachable state of a server without trash requests.
LEMMA SizesInvariant == Spec => []SizesInv
<1>1. Init => SizesInv
  BY SizesInit
<1>2. FileServerInv /\ SizesInv /\ [Next]_vars => SizesInv'
  BY SizesNext
<1> QED
  BY <1>1, <1>2, FileServerInvariant, PTL DEF Spec

\* Where the trash is not used, every directory's size is the sum of the files
\* below it: a write adds what the file grows by along the whole chain of parents,
\* a deletion takes off what the subtree held, and the scan counts afresh.  (A
\* client's own .acl file is counted until the next scan passes over it: nothing is
\* claimed once there has been one.)
THEOREM FileServerSizesAreExact == Spec => []SizesAreExact
<1>1. SizesInv => SizesAreExact
  BY DEF SizesInv, SizesAreExact, Sizes, Live, Path
<1> QED
  BY <1>1, SizesInvariant, PTL

\* Where the trash is not used, what a user stores grows only up to the quota in
\* force: the size of the root that WriteFile tests under the write lock is what
\* is stored, and nothing but a write makes it grow, a crash inside a method
\* included; until a client makes a file called .acl.
THEOREM FileServerQuotaIsRespected == Spec => QuotaIsRespected
<1> DEFINE Fits == ("trash" \notin Ops /\ ~replaced' /\ FileSize(disk'.files, <<>>) > FileSize(disk.files, <<>>))
                      => FileSize(disk'.files, <<>>) <= Quota
<1>1. FileServerInv /\ SizesInv /\ [Next]_vars => [Fits]_vars
  <2>1. ASSUME FileServerInv, SizesInv, Next PROVE Fits
    BY <2>1, NextKeeps, NextMeasured DEF SizesInv, Measured, Stored
  <2> QED BY <2>1
<1>2. [][Fits]_vars <=> QuotaIsRespected
  BY DEF QuotaIsRespected
<1> HIDE DEF Fits
<1> QED
  BY <1>1, <1>2, FileServerInvariant, SizesInvariant, PTL DEF Spec

-----------------------------------------------------------------------------
(* What the metaserver has been told, with one client at a time. *)

\* Until the first crash: what is counted is finite.
CountInv ==
    /\ crashes \in Nat /\ missed \in Nat /\ DOMAIN pc = Callers /\ DOMAIN req = Callers
    /\ crashes = 0 =>
          /\ lost \in Nat /\ IsFiniteSet(shares)
          /\ \A i \in DOMAIN trashMeta : IsFiniteSet(trashMeta[i].shares)

\* CountInv holds at first.
LEMMA CountInit ==
    ASSUME Init
    PROVE  CountInv
<1>1. crashes = 0 /\ missed = 0 /\ lost = 0 /\ shares = {} /\ trashMeta = <<>>
      /\ pc = [c \in Callers |-> "idle"] /\ req = [c \in Callers |-> None]
  BY DEF Init
<1>2. IsFiniteSet({}) /\ DOMAIN <<>> = {}
  BY FS_EmptySet
<1> QED
  BY <1>1, <1>2 DEF CountInv

\* What TrashFile and RestoreFile tell the metaserver, if no call is lost.
LEMMA ToldAll ==
    ASSUME NEW kind, NEW G, IsFiniteSet(G), lost \in Nat, TellAll(kind, G)
    PROVE  /\ lost' \in Nat
           /\ lost' = 0 => lost = 0 /\ published' = IF kind = "RootShare" THEN published \cup G ELSE published \ G
<1>1. PICK failed \in SUBSET G :
        /\ lost' = lost + Cardinality(failed)
        /\ published' = IF kind = "RootShare" THEN published \cup (G \ failed) ELSE published \ (G \ failed)
  BY DEF TellAll
<1>2. IsFiniteSet(failed)
  BY FS_Subset
<1>3. Cardinality(failed) \in Nat
  BY <1>2, FS_CardinalityType
<1>4. lost' \in Nat /\ (lost' = 0 => lost = 0 /\ Cardinality(failed) = 0)
  BY <1>1, <1>3
<1>5. Cardinality(failed) = 0 => failed = {}
  BY <1>2, FS_EmptySet
<1>6. failed = {} => G \ failed = G
  OBVIOUS
<1> QED
  BY <1>1, <1>4, <1>5, <1>6

\* Every step leaves the domains of pc and req alone.
LEMMA CallersStay ==
    ASSUME CountInv, Next
    PROVE  DOMAIN pc' = Callers /\ DOMAIN req' = Callers
<1>0. DOMAIN pc = Callers /\ DOMAIN req = Callers
  BY DEF CountInv
<1>1. ASSUME NEW c \in Callers, Finish(c) PROVE DOMAIN pc' = Callers /\ DOMAIN req' = Callers
  BY <1>0, <1>1 DEF Finish
<1>2. ASSUME NEW c \in Callers, NEW q, DOMAIN q = Callers, NEW kind, NEW g, Notify(c, q, kind, g)
      PROVE  DOMAIN pc' = Callers /\ DOMAIN req' = Callers
  BY <1>0, <1>2 DEF Notify
<1>3. ASSUME NEW c \in Callers, Send(c) PROVE DOMAIN pc' = Callers /\ DOMAIN req' = Callers
  <2>1. PICK r : Begin(c, r)
    BY <1>3, Zenon DEF Send, SendCreate, SendWrite, SendUpload, SendRemove, SendShare
  <2> QED BY <1>0, <2>1 DEF Begin
<1>4. ASSUME NEW c \in Callers, CreateFile(c) \/ WriteFile(c) \/ UploadDone(c) \/ TrashFile(c) \/ RestoreFile(c) \/ Refuse(c)
      PROVE  DOMAIN pc' = Callers /\ DOMAIN req' = Callers
  BY <1>1, <1>4, Zenon DEF CreateFile, WriteFile, UploadDone, TrashFile, RestoreFile, Refuse
<1>5. ASSUME NEW c \in Callers, UploadChunk(c) \/ UploadFails(c) PROVE DOMAIN pc' = Callers /\ DOMAIN req' = Callers
  <2>1. (pc' = pc \/ pc' = [pc EXCEPT ![c] = "scrap"]) /\ req' = req
    BY <1>5, Zenon DEF UploadChunk, UploadFails
  <2> QED BY <1>0, <2>1
<1>6. ASSUME NEW c \in Callers, ScrapLookup(c) PROVE DOMAIN pc' = Callers /\ DOMAIN req' = Callers
  BY <1>0, <1>1, <1>6 DEF ScrapLookup
<1>7. ASSUME NEW c \in Callers, DeleteFile(c) \/ ScrapDelete(c) PROVE DOMAIN pc' = Callers /\ DOMAIN req' = Callers
  <2>1. \A I : DOMAIN Outlive(I, req) = Callers
    BY DEF Outlive
  <2>2. \E I, g : Notify(c, Outlive(I, req), "RootUnshare", g)
    BY <1>7, Zenon DEF DeleteFile, ScrapDelete, NotifyDeleted
  <2> QED BY <1>2, <2>1, <2>2
<1>8. ASSUME NEW c \in Callers, Share(c) \/ Unshare(c) \/ Tell(c) PROVE DOMAIN pc' = Callers /\ DOMAIN req' = Callers
  <2>1. \E kind, g : Notify(c, req, kind, g)
    BY <1>8, Zenon DEF Share, Unshare, Tell
  <2> QED BY <1>0, <1>2, <2>1
<1>9. ASSUME NEW d, Restart(d) PROVE DOMAIN pc' = Callers /\ DOMAIN req' = Callers
  BY <1>9 DEF Restart, RestartFrom
<1>10. ASSUME NEW c \in Callers, CrashInside(c) PROVE DOMAIN pc' = Callers /\ DOMAIN req' = Callers
  BY <1>9, <1>10 DEF CrashInside
<1>11. CASE Crash
  BY <1>9, <1>11 DEF Crash
<1>12. CASE SetQuota \/ HeartbeatFails \/ SendRegistration \/ Register \/ RegistrationFails
  <2>1. pc' = pc /\ req' = req
    BY <1>12, Zenon DEF SetQuota, SetUserQuota, HeartbeatFails, SendRegistration, Register, RegistrationFails
  <2> QED BY <1>0, <2>1
<1> QED
  BY <1>3, <1>4, <1>5, <1>6, <1>7, <1>8, <1>10, <1>11, <1>12, NextServes

\* Every step of a behaviour without a crash is one of these, as far as shares
\* are concerned.
Silent == shares' = shares /\ published' = published /\ lost' = lost
Detaches(c) ==
    /\ pc[c] = "trash" /\ Finish(c)
    /\ \E i : /\ TellAll("RootUnshare", SharesBelow(Path(i))) /\ shares' = shares \ SharesBelow(Path(i))
              /\ \E e : e.shares = SharesBelow(Path(i)) /\ trashMeta' = With(trashMeta, i, e)
Reattaches(c) ==
    /\ pc[c] = "restore" /\ Finish(c)
    /\ \E i \in DOMAIN trashMeta :
          /\ TellAll("RootShare", Reattached(i)) /\ shares' = shares \cup Reattached(i)
          /\ trashMeta' = Without(trashMeta, {i})

\* The steps by what they do to the shares, as long as there is no crash.
LEMMA NextShares ==
    ASSUME Next, crashes \in Nat, crashes' = crashes
    PROVE  \/ \E c \in Callers : Send(c)
           \/ \E c \in Callers : CreateFile(c) \/ WriteFile(c) \/ UploadChunk(c)
           \/ \E c \in Callers : UploadFails(c) \/ UploadDone(c) \/ ScrapLookup(c) \/ Refuse(c)
           \/ \E c \in Callers : Tell(c)
           \/ \E c \in Callers : DeleteFile(c) \/ ScrapDelete(c)
           \/ \E c \in Callers : Detaches(c) /\ UNCHANGED sync
           \/ \E c \in Callers : Reattaches(c) /\ UNCHANGED sync
           \/ \E c \in Callers : Share(c) \/ Unshare(c)
           \/ SetQuota
           \/ HeartbeatFails \/ SendRegistration \/ Register \/ RegistrationFails
<1>1. \A d : ~Restart(d)
  BY DEF Restart, RestartFrom
<1>2. ~Crash /\ \A c \in Callers : ~CrashInside(c)
  BY <1>1 DEF Crash, CrashInside
<1>3. ASSUME NEW c \in Callers, TrashFile(c) PROVE Detaches(c) /\ UNCHANGED sync
  <2> DEFINE i == req[c].fid
             G == SharesBelow(Path(i))
             e == [parent |-> inodes[i].parent, name |-> inodes[i].name, path |-> Path(i), shares |-> G]
  <2>1. /\ pc[c] = "trash" /\ Finish(c) /\ UNCHANGED sync
        /\ TellAll("RootUnshare", G) /\ shares' = shares \ G /\ trashMeta' = With(trashMeta, i, e)
    BY <1>3, Zenon DEF TrashFile
  <2>2. e.shares = G
    OBVIOUS
  <2> HIDE DEF e, i
  <2> QED BY <2>1, <2>2, Zenon DEF Detaches
<1>4. ASSUME NEW c \in Callers, RestoreFile(c) PROVE Reattaches(c) /\ UNCHANGED sync
  <2> DEFINE i == req[c].fid
  <2>1. /\ pc[c] = "restore" /\ Finish(c) /\ UNCHANGED sync /\ CanRestore(i)
        /\ TellAll("RootShare", Reattached(i)) /\ shares' = shares \cup Reattached(i)
        /\ trashMeta' = Without(trashMeta, {i})
    BY <1>4, Zenon DEF RestoreFile
  <2>2. i \in DOMAIN trashMeta
    BY <2>1 DEF CanRestore
  <2> HIDE DEF i
  <2> QED BY <2>1, <2>2, Zenon DEF Reattaches
<1> QED
  BY <1>2, <1>3, <1>4, NextServes

\* Finitely many shares are restored.
LEMMA ReattachedFinite ==
    ASSUME NEW i, IsFiniteSet(trashMeta[i].shares)
    PROVE  IsFiniteSet(Reattached(i))
<1> DEFINE G == trashMeta[i].shares
           F(g) == Grant(Rebase(g.path, trashMeta[i].path, RestoredPath(i)), g.user)
           f == [g \in G |-> F(g)]
<1>1. Reattached(i) = {F(g) : g \in G}
  BY DEF Reattached
<1>2. f \in Surjection(G, {F(g) : g \in G})
  BY DEF Surjection
<1> HIDE DEF f, F, G
<1>3. IsFiniteSet({F(g) : g \in G})
  BY <1>2, FS_Surjection DEF G
<1> QED
  BY <1>1, <1>3

Counted ==
    lost' \in Nat /\ IsFiniteSet(shares') /\ \A i \in DOMAIN trashMeta' : IsFiniteSet(trashMeta'[i].shares)

\* A step counts the calls that are lost.
LEMMA NextCounts ==
    ASSUME CountInv, Next, crashes = 0, crashes' = 0
    PROVE  Counted
<1>0. lost \in Nat /\ IsFiniteSet(shares) /\ \A i \in DOMAIN trashMeta : IsFiniteSet(trashMeta[i].shares)
  BY DEF CountInv
<1>1. ASSUME UNCHANGED <<memory, lost>> PROVE Counted
  BY <1>0, <1>1 DEF Counted, memory
<1>2. CASE \E c \in Callers : Send(c)
  BY <1>1, <1>2, SendKeeps
<1>3. ASSUME NEW c \in Callers, CreateFile(c) \/ WriteFile(c) \/ UploadChunk(c) PROVE Counted
  <2>1. UNCHANGED <<shares, trashMeta, lost>>
    BY <1>3, Zenon DEF CreateFile, WriteFile, UploadChunk
  <2> QED BY <1>0, <2>1 DEF Counted
<1>4. ASSUME NEW c \in Callers, UploadFails(c) \/ UploadDone(c) \/ ScrapLookup(c) \/ Refuse(c) PROVE Counted
  <2>1. UNCHANGED <<memory, lost>>
    BY <1>4, Zenon DEF UploadFails, UploadDone, ScrapLookup, Refuse
  <2> QED BY <1>1, <2>1
<1>5. ASSUME NEW c \in Callers, Tell(c) PROVE Counted
  <2>1. UNCHANGED memory /\ (lost' = lost \/ lost' = lost + 1)
    BY <1>5, Zenon DEF Tell
  <2> QED BY <1>0, <2>1 DEF Counted, memory
<1>6. ASSUME NEW c \in Callers, DeleteFile(c) \/ ScrapDelete(c) PROVE Counted
  <2>1. PICK i : Delete(i)
    BY <1>6, Zenon DEF DeleteFile, ScrapDelete
  <2>2. shares' = shares \ SharesBelow(Path(i)) /\ trashMeta' = Without(trashMeta, Subtree(i)) /\ lost' = lost
    BY <2>1, Zenon DEF Delete
  <2>3. IsFiniteSet(shares')
    BY <1>0, <2>2, FS_Subset
  <2>4. \A j \in DOMAIN trashMeta' : j \in DOMAIN trashMeta /\ trashMeta'[j] = trashMeta[j]
    BY <2>2 DEF Without
  <2> QED BY <1>0, <2>2, <2>3, <2>4 DEF Counted
<1>7. ASSUME NEW c \in Callers, Detaches(c) PROVE Counted
  <2>1. PICK i : /\ TellAll("RootUnshare", SharesBelow(Path(i))) /\ shares' = shares \ SharesBelow(Path(i))
                 /\ \E e : e.shares = SharesBelow(Path(i)) /\ trashMeta' = With(trashMeta, i, e)
    BY <1>7 DEF Detaches
  <2>2. PICK e : e.shares = SharesBelow(Path(i)) /\ trashMeta' = With(trashMeta, i, e)
    BY <2>1
  <2>3. SharesBelow(Path(i)) \in SUBSET shares
    BY DEF SharesBelow
  <2>4. IsFiniteSet(SharesBelow(Path(i))) /\ IsFiniteSet(shares')
    BY <1>0, <2>1, <2>3, FS_Subset
  <2>5. lost' \in Nat
    BY <1>0, <2>1, <2>4, ToldAll
  <2>6. \A j \in DOMAIN trashMeta' : IF j = i THEN trashMeta'[j] = e ELSE j \in DOMAIN trashMeta /\ trashMeta'[j] = trashMeta[j]
    BY <2>2 DEF With
  <2>7. ASSUME NEW j \in DOMAIN trashMeta' PROVE IsFiniteSet(trashMeta'[j].shares)
    BY <1>0, <2>2, <2>4, <2>6
  <2> QED BY <2>4, <2>5, <2>7 DEF Counted
<1>8. ASSUME NEW c \in Callers, Reattaches(c) PROVE Counted
  <2>1. PICK i \in DOMAIN trashMeta :
          /\ TellAll("RootShare", Reattached(i)) /\ shares' = shares \cup Reattached(i)
          /\ trashMeta' = Without(trashMeta, {i})
    BY <1>8 DEF Reattaches
  <2>2. IsFiniteSet(Reattached(i))
    BY <1>0, ReattachedFinite
  <2>3. IsFiniteSet(shares')
    BY <1>0, <2>1, <2>2, FS_Union
  <2>4. lost' \in Nat
    BY <1>0, <2>1, <2>2, ToldAll
  <2>5. \A j \in DOMAIN trashMeta' : j \in DOMAIN trashMeta /\ trashMeta'[j] = trashMeta[j]
    BY <2>1 DEF Without
  <2> QED BY <1>0, <2>3, <2>4, <2>5 DEF Counted
<1>9. ASSUME NEW c \in Callers, Share(c) \/ Unshare(c) PROVE Counted
  <2>1. UNCHANGED <<trashMeta, lost>> /\ \E g : shares' = shares \cup {g} \/ shares' = shares \ {g}
    BY <1>9, Zenon DEF Share, Unshare
  <2>2. PICK g : shares' = shares \cup {g} \/ shares' = shares \ {g}
    BY <2>1
  <2>3. IsFiniteSet(shares \cup {g}) /\ IsFiniteSet(shares \ {g})
    BY <1>0, FS_AddElement, FS_Subset
  <2> QED BY <1>0, <2>1, <2>2, <2>3 DEF Counted
<1>10. CASE SetQuota \/ HeartbeatFails \/ SendRegistration \/ Register \/ RegistrationFails
  <2>1. UNCHANGED <<memory, lost>>
    BY <1>10, Zenon DEF SetQuota, SetUserQuota, HeartbeatFails, SendRegistration, Register, RegistrationFails
  <2> QED BY <1>1, <2>1
<1>11. crashes \in Nat /\ crashes' = crashes
  BY DEF CountInv
<1> QED
  BY <1>2, <1>3, <1>4, <1>5, <1>6, <1>7, <1>8, <1>9, <1>10, <1>11, NextShares

\* The sync loop's own steps are the only ones, but for a restart, that touch
\* its state.
LEMMA OthersDoNotSync ==
    ASSUME Next, crashes \in Nat, crashes' = crashes
    PROVE  HeartbeatFails \/ SendRegistration \/ Register \/ RegistrationFails \/ UNCHANGED sync
<1>1. CASE \E c \in Callers : Send(c)
  BY <1>1, SendKeeps
<1>2. ASSUME NEW c \in Callers,
             CreateFile(c) \/ WriteFile(c) \/ UploadChunk(c) \/ UploadFails(c) \/ UploadDone(c) \/ ScrapLookup(c)
               \/ Tell(c) \/ Refuse(c) \/ Share(c) \/ Unshare(c)
      PROVE  UNCHANGED sync
  BY <1>2, Zenon DEF CreateFile, WriteFile, UploadChunk, UploadFails, UploadDone, ScrapLookup, Tell, Refuse, Share, Unshare
<1>3. ASSUME NEW c \in Callers, DeleteFile(c) \/ ScrapDelete(c) PROVE UNCHANGED sync
  <2>1. \A i : Delete(i) => UNCHANGED sync
    BY Zenon DEF Delete
  <2> QED BY <1>3, <2>1, Zenon DEF DeleteFile, ScrapDelete
<1>4. CASE SetQuota
  BY <1>4, Zenon DEF SetQuota, SetUserQuota
<1> QED
  BY <1>1, <1>2, <1>3, <1>4, NextShares

\* A step counts the heartbeats that are missed.
LEMMA MissedCounts ==
    ASSUME Next, missed \in Nat
    PROVE  missed' \in {missed, missed + 1}
<1>1. CASE \E d : Restart(d)
  BY <1>1 DEF Restart, RestartFrom
<1>2. CASE UNCHANGED sync
  BY <1>2 DEF sync
<1>3. CASE HeartbeatFails \/ SendRegistration \/ Register \/ RegistrationFails
  BY <1>3, Zenon DEF HeartbeatFails, SendRegistration, Register, RegistrationFails
<1>4. Crash \/ (\E c \in Callers : CrashInside(c)) => \E d : Restart(d)
  BY DEF Crash, CrashInside
<1>5. CASE \E c \in Callers : Send(c)
  BY <1>2, <1>5, SendKeeps
<1>6. ASSUME NEW c \in Callers,
             CreateFile(c) \/ WriteFile(c) \/ UploadChunk(c) \/ UploadFails(c) \/ UploadDone(c) \/ ScrapLookup(c)
               \/ Tell(c) \/ Refuse(c) \/ Share(c) \/ Unshare(c)
      PROVE  UNCHANGED sync
  BY <1>6, Zenon DEF CreateFile, WriteFile, UploadChunk, UploadFails, UploadDone, ScrapLookup, Tell, Refuse, Share, Unshare
<1>7. ASSUME NEW c \in Callers, DeleteFile(c) \/ ScrapDelete(c) \/ TrashFile(c) \/ RestoreFile(c) PROVE UNCHANGED sync
  <2>1. \A i : Delete(i) => UNCHANGED sync
    BY Zenon DEF Delete
  <2> QED BY <1>7, <2>1, Zenon DEF DeleteFile, ScrapDelete, TrashFile, RestoreFile
<1>8. CASE SetQuota
  BY <1>2, <1>8, Zenon DEF SetQuota, SetUserQuota
<1> QED
  BY <1>1, <1>2, <1>3, <1>4, <1>5, <1>6, <1>7, <1>8, NextServes

\* Every step keeps CountInv.
LEMMA CountNext ==
    ASSUME CountInv, [Next]_vars
    PROVE  CountInv'
<1>1. CASE Next
  <2>1. crashes \in Nat /\ missed \in Nat
    BY DEF CountInv
  <2>2. crashes' \in {crashes, crashes + 1} /\ missed' \in {missed, missed + 1}
    BY <1>1, <2>1, NextKeeps, MissedCounts
  <2>3. crashes' \in Nat /\ missed' \in Nat /\ (crashes' = 0 => crashes = 0)
    BY <2>1, <2>2
  <2>4. crashes' = 0 => Counted
    BY <1>1, <2>3, NextCounts
  <2>5. DOMAIN pc' = Callers /\ DOMAIN req' = Callers
    BY <1>1, CallersStay
  <2> QED BY <2>3, <2>4, <2>5 DEF CountInv, Counted
<1>2. CASE UNCHANGED vars
  <2>1. UNCHANGED <<crashes, missed, lost, pc, req, shares, trashMeta>>
    BY <1>2 DEF vars, memory, sync, process
  <2> QED BY <2>1 DEF CountInv
<1> QED
  BY <1>1, <1>2

\* At most one handler is at work.
Alone(k) == \A b, c \in Callers : k[b] # "idle" /\ k[c] # "idle" => b = c

\* What the metaserver shows is, but for what the handler still has to tell it,
\* the explicit shares.
Told(k, q, P, S) ==
    /\ (\A c \in Callers : k[c] \notin {"RootShare", "RootUnshare"}) => P = S
    /\ \A c \in Callers : k[c] = "RootShare" => P \cup q[c].grants = S
    /\ \A c \in Callers : k[c] = "RootUnshare" => P \ q[c].grants = S

NewsInv ==
    workload.callers = 1 /\ crashes = 0 /\ missed = 0 /\ lost = 0 =>
    registered /\ syncing = None /\ Alone(pc) /\ Told(pc, req, published, shares)

\* What remains of it in the next state when the sync loop is quiet.
News == Alone(pc') /\ Told(pc', req', published', shares')

\* A step that changes no share makes no news.
LEMMA QuietNews ==
    ASSUME Alone(pc), Told(pc, req, published, shares), UNCHANGED <<pc, req, published, shares>>
    PROVE  News
BY DEF News

\* The one handler at work stays alone.
LEMMA WorkingNews ==
    ASSUME DOMAIN pc = Callers, NEW c \in Callers, Alone(pc), pc[c] # "idle" \/ \A b \in Callers : pc[b] = "idle",
           NEW k, pc' = [pc EXCEPT ![c] = k]
    PROVE  pc'[c] = k /\ (\A b \in Callers \ {c} : pc[b] = "idle" /\ pc'[b] = "idle") /\ Alone(pc')
<1>1. pc'[c] = k /\ \A b \in Callers \ {c} : pc'[b] = pc[b]
  OBVIOUS
<1>2. \A b \in Callers \ {c} : pc[b] = "idle"
  BY DEF Alone
<1> QED
  BY <1>1, <1>2 DEF Alone

\* A request that ends with nothing to tell leaves no news.
LEMMA EndedNews ==
    ASSUME DOMAIN pc = Callers, NEW c \in Callers, Alone(pc), pc[c] # "idle" \/ \A b \in Callers : pc[b] = "idle",
           NEW k, k \notin {"RootShare", "RootUnshare"}, pc' = [pc EXCEPT ![c] = k], published' = shares'
    PROVE  News
<1>1. pc'[c] = k /\ (\A b \in Callers \ {c} : pc[b] = "idle" /\ pc'[b] = "idle") /\ Alone(pc')
  BY WorkingNews
<1> QED
  BY <1>1 DEF News, Told

\* A handler that has news to tell carries exactly the difference.
LEMMA TellingNews ==
    ASSUME DOMAIN pc = Callers, NEW c \in Callers, Alone(pc), pc[c] # "idle", NEW q, DOMAIN q = Callers,
           NEW kind \in {"RootShare", "RootUnshare"}, NEW g, Notify(c, q, kind, g),
           IF kind = "RootShare" THEN published' \cup g = shares' ELSE published' \ g = shares'
    PROVE  News
<1>1. CASE g = {}
  <2>1. pc' = [pc EXCEPT ![c] = "idle"]
    BY <1>1 DEF Notify
  <2>2. published' = shares'
    BY <1>1
  <2> QED BY <2>1, <2>2, EndedNews
<1>2. CASE g # {}
  <2> DEFINE r == [op |-> kind, grants |-> g]
  <2>1. pc' = [pc EXCEPT ![c] = kind] /\ req' = [q EXCEPT ![c] = r]
    BY <1>2 DEF Notify
  <2>2. pc'[c] = kind /\ (\A b \in Callers \ {c} : pc'[b] = "idle") /\ Alone(pc')
    BY <2>1, WorkingNews
  <2>3. r.grants = g
    OBVIOUS
  <2> HIDE DEF r
  <2>4. req'[c].grants = g
    BY <2>1, <2>3
  <2> QED BY <2>2, <2>4 DEF News, Told
<1> QED
  BY <1>1, <1>2

\* A lost call is not forgotten.
LEMMA LostCounts ==
    ASSUME CountInv, Next, crashes = 0, crashes' = 0, lost' = 0
    PROVE  lost = 0
<1>0. lost \in Nat /\ IsFiniteSet(shares) /\ \A i \in DOMAIN trashMeta : IsFiniteSet(trashMeta[i].shares)
  BY DEF CountInv
<1>1. CASE \E c \in Callers : Send(c)
  BY <1>1, SendKeeps
<1>2. ASSUME NEW c \in Callers,
             CreateFile(c) \/ WriteFile(c) \/ UploadChunk(c) \/ UploadFails(c) \/ UploadDone(c) \/ ScrapLookup(c)
               \/ Refuse(c) \/ Share(c) \/ Unshare(c)
      PROVE  lost = 0
  <2>1. UNCHANGED lost
    BY <1>2, Zenon DEF CreateFile, WriteFile, UploadChunk, UploadFails, UploadDone, ScrapLookup, Refuse, Share, Unshare
  <2> QED BY <2>1
<1>3. ASSUME NEW c \in Callers, DeleteFile(c) \/ ScrapDelete(c) PROVE lost = 0
  <2>1. \A i : Delete(i) => UNCHANGED lost
    BY Zenon DEF Delete
  <2>2. UNCHANGED lost
    BY <1>3, <2>1, Zenon DEF DeleteFile, ScrapDelete
  <2> QED BY <2>2
<1>4. ASSUME NEW c \in Callers, Tell(c) PROVE lost = 0
  <2>1. lost' = lost \/ lost' = lost + 1
    BY <1>4, Zenon DEF Tell
  <2> QED BY <1>0, <2>1
<1>5. ASSUME NEW c \in Callers, Detaches(c) PROVE lost = 0
  <2>1. PICK i : TellAll("RootUnshare", SharesBelow(Path(i)))
    BY <1>5 DEF Detaches
  <2>2. SharesBelow(Path(i)) \in SUBSET shares
    BY DEF SharesBelow
  <2>3. IsFiniteSet(SharesBelow(Path(i)))
    BY <1>0, <2>2, FS_Subset
  <2> QED BY <1>0, <2>1, <2>3, ToldAll
<1>6. ASSUME NEW c \in Callers, Reattaches(c) PROVE lost = 0
  <2>1. PICK i \in DOMAIN trashMeta : TellAll("RootShare", Reattached(i))
    BY <1>6 DEF Reattaches
  <2>2. IsFiniteSet(Reattached(i))
    BY <1>0, ReattachedFinite
  <2> QED BY <1>0, <2>1, <2>2, ToldAll
<1>7. CASE SetQuota \/ HeartbeatFails \/ SendRegistration \/ Register \/ RegistrationFails
  <2>1. UNCHANGED lost
    BY <1>7, Zenon DEF SetQuota, SetUserQuota, HeartbeatFails, SendRegistration, Register, RegistrationFails
  <2> QED BY <2>1
<1>8. crashes \in Nat /\ crashes' = crashes
  BY DEF CountInv
<1> QED
  BY <1>1, <1>2, <1>3, <1>4, <1>5, <1>6, <1>7, <1>8, NextShares

\* A client begins only when no other one is served.
LEMMA BeginsAlone ==
    ASSUME workload.callers = 1, DOMAIN pc = Callers, NEW c \in Callers, NEW r, Begin(c, r)
    PROVE  (\A b \in Callers : pc[b] = "idle") /\ pc' = [pc EXCEPT ![c] = r.op] /\ r.op \in Ops
<1> DEFINE busy == {d \in Callers : pc[d] # "idle"}
<1>1. Cardinality(busy) < 1 /\ pc' = [pc EXCEPT ![c] = r.op] /\ r.op \in Ops
  BY DEF Begin
<1>2. IsFiniteSet(Callers) /\ busy \in SUBSET Callers
  BY FileServerAssumption
<1> HIDE DEF busy
<1>3. IsFiniteSet(busy)
  BY <1>2, FS_Subset
<1>4. Cardinality(busy) \in Nat
  BY <1>3, FS_CardinalityType
<1>5. Cardinality(busy) = 0
  BY <1>1, <1>4
<1>6. busy = {}
  BY <1>3, <1>5, FS_EmptySet
<1> QED
  BY <1>1, <1>6 DEF busy

\* Every step keeps the difference between shares and metaserver in one handler.
LEMMA NextNews ==
    ASSUME CountInv, Next, workload \in Workloads, workload.callers = 1, crashes = 0, crashes' = 0, lost' = 0,
           Alone(pc), Told(pc, req, published, shares),
           ~(HeartbeatFails \/ SendRegistration \/ Register \/ RegistrationFails)
    PROVE  News
<1>0. /\ DOMAIN pc = Callers /\ DOMAIN req = Callers /\ lost \in Nat /\ IsFiniteSet(shares)
      /\ \A i \in DOMAIN trashMeta : IsFiniteSet(trashMeta[i].shares)
  BY DEF CountInv
<1>1. ASSUME NEW c \in Callers, pc[c] \notin {"idle", "RootShare", "RootUnshare"} PROVE published = shares
  BY <1>1 DEF Alone, Told
<1>2. ASSUME NEW c \in Callers, Send(c) PROVE News
  <2>1. PICK r : Begin(c, r)
    BY <1>2, Zenon DEF Send, SendCreate, SendWrite, SendUpload, SendRemove, SendShare
  <2>2. (\A b \in Callers : pc[b] = "idle") /\ pc' = [pc EXCEPT ![c] = r.op] /\ r.op \in Ops
    BY <1>0, <2>1, BeginsAlone
  <2>3. r.op \notin {"RootShare", "RootUnshare"}
    BY <2>2, WorkloadFacts DEF Operations
  <2>4. published' = published /\ shares' = shares
    BY <1>2, SendKeeps DEF memory
  <2>5. published = shares
    BY <2>2 DEF Told
  <2> QED BY <1>0, <2>2, <2>3, <2>4, <2>5, EndedNews
<1>3. ASSUME NEW c \in Callers, pc[c] \notin {"idle", "RootShare", "RootUnshare"}, NEW k \in {"idle", "scrap", "scrapDelete"},
             pc' = [pc EXCEPT ![c] = k], published' = published, shares' = shares
      PROVE  News
  <2>1. published' = shares'
    BY <1>1, <1>3
  <2> QED BY <1>0, <1>3, <2>1, EndedNews
<1>4. ASSUME NEW c \in Callers, CreateFile(c) \/ WriteFile(c) \/ UploadDone(c) PROVE News
  <2>1. /\ pc[c] \in {"create", "write", "upload"} /\ Finish(c) /\ UNCHANGED <<published, shares>>
    BY <1>4, Zenon DEF CreateFile, WriteFile, UploadDone, memory
  <2> QED BY <1>3, <2>1 DEF Finish
<1>5. ASSUME NEW c \in Callers, UploadChunk(c) PROVE News
  <2>1. UNCHANGED <<pc, req, published, shares>>
    BY <1>5, Zenon DEF UploadChunk
  <2> QED BY <2>1, QuietNews
<1>6. ASSUME NEW c \in Callers, UploadFails(c) PROVE News
  <2>1. pc[c] = "upload" /\ pc' = [pc EXCEPT ![c] = "scrap"] /\ UNCHANGED <<published, shares>>
    BY <1>6, Zenon DEF UploadFails, memory
  <2> QED BY <1>3, <2>1
<1>7. ASSUME NEW c \in Callers, ScrapLookup(c) PROVE News
  <2>1. pc[c] = "scrap" /\ UNCHANGED <<published, shares>>
    BY <1>7, Zenon DEF ScrapLookup, memory
  <2>2. pc' = [pc EXCEPT ![c] = "scrapDelete"] \/ pc' = [pc EXCEPT ![c] = "idle"]
    BY <1>7 DEF ScrapLookup, Finish
  <2> QED BY <1>3, <2>1, <2>2
<1>8. ASSUME NEW c \in Callers, Refuse(c) PROVE News
  <2>1. ~CanRun(c) /\ Finish(c) /\ UNCHANGED <<published, shares>>
    BY <1>8, Zenon DEF Refuse, memory
  <2>2. pc[c] \notin {"idle", "RootShare", "RootUnshare"}
    BY <2>1 DEF CanRun
  <2> QED BY <1>3, <2>1, <2>2 DEF Finish
<1>9. ASSUME NEW c \in Callers, Tell(c) PROVE News
  <2> DEFINE G == req[c].grants
             kind == pc[c]
  <2>1. PICK g \in G :
          /\ Notify(c, req, kind, G \ {g})
          /\ (published' = IF kind = "RootShare" THEN published \cup {g} ELSE published \ {g}) \/ lost' = lost + 1
    BY <1>9, Zenon DEF Tell
  <2>2. kind \in {"RootShare", "RootUnshare"} /\ shares' = shares
    BY <1>9, Zenon DEF Tell, memory
  <2>3. published' = IF kind = "RootShare" THEN published \cup {g} ELSE published \ {g}
    <3>1. lost' # lost + 1
      BY <1>0
    <3> QED BY <2>1, <3>1
  <2>4. IF kind = "RootShare" THEN published \cup G = shares ELSE published \ G = shares
    BY <2>2 DEF Told
  <2>5. pc[c] # "idle"
    BY <2>2
  <2> HIDE DEF G, kind
  <2>6. IF kind = "RootShare" THEN published' \cup (G \ {g}) = shares' ELSE published' \ (G \ {g}) = shares'
    BY <2>1, <2>2, <2>3, <2>4
  <2> QED BY <1>0, <2>1, <2>2, <2>5, <2>6, TellingNews
<1>10. ASSUME NEW c \in Callers, DeleteFile(c) \/ ScrapDelete(c) PROVE News
  <2>1. PICK i, I : /\ pc[c] \in {"delete", "scrapDelete"} /\ Delete(i)
                    /\ Notify(c, Outlive(I, req), "RootUnshare", SharesBelow(Path(i)))
    BY <1>10, Zenon DEF DeleteFile, ScrapDelete, NotifyDeleted
  <2>2. shares' = shares \ SharesBelow(Path(i)) /\ published' = published
    BY <2>1, Zenon DEF Delete
  <2>3. published' \ SharesBelow(Path(i)) = shares'
    BY <1>1, <2>1, <2>2
  <2>4. DOMAIN Outlive(I, req) = Callers
    BY DEF Outlive
  <2>5. pc[c] # "idle"
    BY <2>1
  <2> QED BY <1>0, <2>1, <2>3, <2>4, <2>5, TellingNews
<1>11. ASSUME NEW c \in Callers, Detaches(c) PROVE News
  <2>1. PICK i : TellAll("RootUnshare", SharesBelow(Path(i))) /\ shares' = shares \ SharesBelow(Path(i))
    BY <1>11 DEF Detaches
  <2>2. pc[c] = "trash" /\ pc' = [pc EXCEPT ![c] = "idle"]
    BY <1>11 DEF Detaches, Finish
  <2>3. SharesBelow(Path(i)) \in SUBSET shares
    BY DEF SharesBelow
  <2>4. IsFiniteSet(SharesBelow(Path(i)))
    BY <1>0, <2>3, FS_Subset
  <2>5. published' = published \ SharesBelow(Path(i))
    BY <1>0, <2>1, <2>4, ToldAll
  <2>6. published' = shares'
    BY <1>1, <2>1, <2>2, <2>5
  <2> QED BY <1>0, <2>2, <2>6, EndedNews
<1>12. ASSUME NEW c \in Callers, Reattaches(c) PROVE News
  <2>1. PICK i \in DOMAIN trashMeta : TellAll("RootShare", Reattached(i)) /\ shares' = shares \cup Reattached(i)
    BY <1>12 DEF Reattaches
  <2>2. pc[c] = "restore" /\ pc' = [pc EXCEPT ![c] = "idle"]
    BY <1>12 DEF Reattaches, Finish
  <2>3. IsFiniteSet(Reattached(i))
    BY <1>0, ReattachedFinite
  <2>4. published' = published \cup Reattached(i)
    BY <1>0, <2>1, <2>3, ToldAll
  <2>5. published' = shares'
    BY <1>1, <2>1, <2>2, <2>4
  <2> QED BY <1>0, <2>2, <2>5, EndedNews
<1>13. ASSUME NEW c \in Callers, Share(c) PROVE News
  <2>1. PICK g : /\ pc[c] = "share" /\ shares' = shares \cup {g} /\ published' = published
                 /\ Notify(c, req, "RootShare", {g})
    BY <1>13, Zenon DEF Share
  <2>2. published' \cup {g} = shares' /\ pc[c] # "idle"
    BY <1>1, <2>1
  <2> QED BY <1>0, <2>1, <2>2, TellingNews
<1>14. ASSUME NEW c \in Callers, Unshare(c) PROVE News
  <2>1. PICK g : /\ pc[c] = "unshare" /\ shares' = shares \ {g} /\ published' = published
                 /\ Notify(c, req, "RootUnshare", {g})
    BY <1>14, Zenon DEF Unshare
  <2>2. published' \ {g} = shares' /\ pc[c] # "idle"
    BY <1>1, <2>1
  <2> QED BY <1>0, <2>1, <2>2, TellingNews
<1>15. CASE SetQuota
  <2>1. UNCHANGED <<pc, req, published, shares>>
    BY <1>15, Zenon DEF SetQuota, SetUserQuota, memory
  <2> QED BY <2>1, QuietNews
<1>16. crashes \in Nat /\ crashes' = crashes
  BY DEF CountInv
<1> QED
  BY <1>2, <1>4, <1>5, <1>6, <1>7, <1>8, <1>9, <1>10, <1>11, <1>12, <1>13, <1>14, <1>15, <1>16, NextShares

\* NewsInv holds at first.
LEMMA NewsInit ==
    ASSUME Init
    PROVE  NewsInv
<1>1. /\ registered = TRUE /\ syncing = None /\ pc = [c \in Callers |-> "idle"] /\ published = {} /\ shares = {}
  BY DEF Init
<1>2. \A c \in Callers : pc[c] = "idle"
  BY <1>1
<1> QED
  BY <1>1, <1>2 DEF NewsInv, Alone, Told

\* Every step keeps NewsInv.
LEMMA NewsNext ==
    ASSUME FileServerInv, CountInv, NewsInv, [Next]_vars
    PROVE  NewsInv'
<1>1. CASE Next
  <2>1. workload' = workload /\ workload \in Workloads
    BY <1>1, NextKeeps DEF FileServerInv
  <2> SUFFICES ASSUME workload.callers = 1, crashes' = 0, missed' = 0, lost' = 0
               PROVE  registered' /\ syncing' = None /\ News
    BY <2>1 DEF NewsInv, News
  <2>2. crashes \in Nat /\ missed \in Nat
    BY DEF CountInv
  <2>3. crashes' \in {crashes, crashes + 1} /\ missed' \in {missed, missed + 1}
    BY <1>1, <2>2, NextKeeps, MissedCounts
  <2>4. crashes = 0 /\ missed = 0
    BY <2>2, <2>3
  <2>5. lost = 0
    BY <1>1, <2>4, LostCounts
  <2>6. registered /\ syncing = None /\ Alone(pc) /\ Told(pc, req, published, shares)
    BY <2>4, <2>5 DEF NewsInv
  <2>7. ~(HeartbeatFails \/ SendRegistration \/ Register \/ RegistrationFails)
    <3>1. HeartbeatFails => missed' = missed + 1
      BY Zenon DEF HeartbeatFails
    <3>2. missed' # missed + 1
      BY <2>4
    <3>3. ~SendRegistration /\ ~Register /\ ~RegistrationFails
      BY <2>6, Zenon DEF SendRegistration, Register, RegistrationFails
    <3> QED BY <3>1, <3>2, <3>3
  <2>8. News
    BY <1>1, <2>1, <2>4, <2>6, <2>7, NextNews
  <2>9. UNCHANGED sync
    BY <1>1, <2>2, <2>4, <2>7, OthersDoNotSync
  <2> QED BY <2>6, <2>8, <2>9 DEF sync
<1>2. CASE UNCHANGED vars
  <2>1. UNCHANGED <<workload, crashes, missed, lost, registered, syncing, pc, req, published, shares>>
    BY <1>2 DEF vars, memory, sync, process
  <2> QED BY <2>1 DEF NewsInv
<1> QED
  BY <1>1, <1>2

\* With one client at a time, while nothing fails, the metaserver shows exactly
\* the explicit shares whenever no request is in flight: every method that changes
\* fs.Shared has its handler tell the metaserver all of the change, and nothing
\* else, before the next request begins.
THEOREM FileServerSharesAreAnnounced == Spec => []AnnouncedSharesAreCurrent
<1>1. Init => CountInv /\ NewsInv
  BY CountInit, NewsInit
<1>2. CountInv /\ [Next]_vars => CountInv'
  BY CountNext
<1>3. FileServerInv /\ CountInv /\ NewsInv /\ [Next]_vars => NewsInv'
  BY NewsNext
<1>4. NewsInv => AnnouncedSharesAreCurrent
  BY DEF NewsInv, AnnouncedSharesAreCurrent, Told
<1> QED
  BY <1>1, <1>2, <1>3, <1>4, FileServerInvariant, PTL DEF Spec

-----------------------------------------------------------------------------
(* Where access comes from.  A source is a share at or above a path; what is  *)
(* in the trash waits for the sources above its old parent and for the shares *)
(* that were set aside with it.                                               *)
Source(p, u, S) == \E g \in S : g.user = u /\ IsPrefix(g.path, p)
SetAside(p, base, u, G) == \E g \in G : g.user = u /\ IsPrefix(base, g.path) /\ IsPrefix(g.path, p)
Sourced(n, S) ==
    \A j \in DOMAIN n : ~IsPrefix(TrashPath, n[j].path) => \A u \in n[j].shared : Source(n[j].path, u, S)
Awaits(n, i, e, S) ==
    ~IsPrefix(TrashPath, n[e.parent].path) =>
        \A j \in DOMAIN n : IsPrefix(n[i].path, n[j].path) => \A u \in n[j].shared :
            Source(n[e.parent].path, u, S) \/ SetAside(Rebase(n[j].path, n[i].path, e.path), e.path, u, e.shares)
Waiting(n, meta, S) ==
    \A i \in DOMAIN meta : DOMAIN meta = {i} /\ meta[i].parent \in DOMAIN n /\ Awaits(n, i, meta[i], S)
Bare(f) == \A p \in DOMAIN f : f[p].type = "file" => f[p].acl = {}
AccessOK(n, meta, S, f) == Sourced(n, S) /\ Waiting(n, meta, S) /\ Bare(f)

\* PrefixOrder and PrefixAppend for paths.
LEMMA PathOrder ==
    \A p, q, r \in PathSet :
        /\ IsPrefix(p, p)
        /\ IsPrefix(p, q) /\ IsPrefix(q, r) => IsPrefix(p, r)
        /\ IsPrefix(p, r) /\ IsPrefix(q, r) => IsPrefix(p, q) \/ IsPrefix(q, p)
        /\ \A a \in NameSet : IsPrefix(p, Append(q, a)) <=> p = Append(q, a) \/ IsPrefix(p, q)
<1> SUFFICES ASSUME NEW p \in PathSet, NEW q \in PathSet, NEW r \in PathSet
             PROVE  /\ IsPrefix(p, p)
                    /\ IsPrefix(p, q) /\ IsPrefix(q, r) => IsPrefix(p, r)
                    /\ IsPrefix(p, r) /\ IsPrefix(q, r) => IsPrefix(p, q) \/ IsPrefix(q, p)
                    /\ \A a \in NameSet : IsPrefix(p, Append(q, a)) <=> p = Append(q, a) \/ IsPrefix(p, q)
  OBVIOUS
<1> DEFINE S == NameSet
<1>1. p \in Seq(S) /\ q \in Seq(S) /\ r \in Seq(S)
  BY DEF PathSet
<1> HIDE DEF S
<1>2. /\ IsPrefix(p, p) /\ (IsPrefix(p, q) /\ IsPrefix(q, r) => IsPrefix(p, r))
      /\ (IsPrefix(p, r) /\ IsPrefix(q, r) => IsPrefix(p, q) \/ IsPrefix(q, p))
  BY <1>1, PrefixOrder
<1>3. \A a \in S : IsPrefix(p, Append(q, a)) <=> p = Append(q, a) \/ IsPrefix(p, q)
  BY <1>1, PrefixAppend
<1> QED BY <1>2, <1>3 DEF S

\* A child's path and its prefixes.
LEMMA AppendedPath ==
    ASSUME NEW q \in PathSet, NEW a \in NameSet, NEW r, r = Append(q, a)
    PROVE  /\ r \in PathSet /\ IsPrefix(q, r) /\ ~IsPrefix(r, q)
           /\ \A p \in PathSet : IsPrefix(p, r) <=> p = r \/ IsPrefix(p, q)
<1>1. r \in PathSet /\ Len(r) = Len(q) + 1 /\ Len(q) \in Nat
  BY AppendFacts DEF PathSet
<1>2. \A p \in PathSet : IsPrefix(p, r) <=> p = r \/ IsPrefix(p, q)
  BY PathOrder
<1>3. IsPrefix(r, q) => Len(r) <= Len(q)
  BY <1>1, PrefixOrder DEF PathSet
<1>4. ~IsPrefix(r, q)
  BY <1>1, <1>3
<1>5. IsPrefix(q, q)
  BY PathOrder
<1> QED BY <1>1, <1>2, <1>4, <1>5

\* Two moves of a path, one after the other, are one move.
LEMMA RebaseTwice ==
    ASSUME NEW S, NEW p \in Seq(S), NEW old \in Seq(S), NEW mid \in Seq(S), NEW new \in Seq(S), IsPrefix(old, p)
    PROVE  Rebase(Rebase(p, old, mid), mid, new) = Rebase(p, old, new)
<1> DEFINE q == Rebase(p, old, mid)
           r == Rebase(q, mid, new)
           s == Rebase(p, old, new)
<1>0. Len(p) \in Nat /\ Len(old) \in Nat /\ Len(new) \in Nat /\ Len(mid) \in Nat /\ Len(old) <= Len(p)
  BY PrefixOrder
<1>1. q \in Seq(S) /\ Spliced(q, p, old, mid) /\ IsPrefix(mid, q)
  BY RebaseFacts, RebaseBack
<1>2. r \in Seq(S) /\ Spliced(r, q, mid, new)
  BY <1>1, RebaseFacts
<1>3. s \in Seq(S) /\ Spliced(s, p, old, new)
  BY RebaseFacts
<1> HIDE DEF q, r, s
<1>4. Spliced(r, p, old, new)
  <2>1. Len(q) = Len(mid) + Len(p) - Len(old) /\ Len(q) - Len(mid) = Len(p) - Len(old)
    BY <1>0, <1>1 DEF Spliced
  <2>2. Len(r) = Len(new) + Len(p) - Len(old)
    BY <1>0, <1>2, <2>1 DEF Spliced
  <2>3. \A k \in 1 .. Len(new) : r[k] = new[k]
    BY <1>2 DEF Spliced
  <2>4. \A k \in 1 .. Len(p) - Len(old) : r[Len(new) + k] = q[Len(mid) + k] /\ q[Len(mid) + k] = p[Len(old) + k]
    BY <1>1, <1>2, <2>1 DEF Spliced
  <2> QED BY <2>2, <2>3, <2>4 DEF Spliced
<1>5. r = s
  BY <1>0, <1>2, <1>3, <1>4, SplicedUnique
<1> QED BY <1>5 DEF r, s, q

\* Rebasing keeps the order of paths, and two moves make one.
LEMMA PathMoves ==
    \A p, q, old, mid, new \in PathSet : IsPrefix(old, p) =>
        /\ Rebase(p, old, mid) \in PathSet /\ IsPrefix(mid, Rebase(p, old, mid))
        /\ Rebase(Rebase(p, old, mid), mid, new) = Rebase(p, old, new)
        /\ IsPrefix(p, q) => IsPrefix(Rebase(p, old, mid), Rebase(q, old, mid))
<1> SUFFICES ASSUME NEW p \in PathSet, NEW q \in PathSet, NEW old \in PathSet, NEW mid \in PathSet, NEW new \in PathSet,
                    IsPrefix(old, p)
             PROVE  /\ Rebase(p, old, mid) \in PathSet /\ IsPrefix(mid, Rebase(p, old, mid))
                    /\ Rebase(Rebase(p, old, mid), mid, new) = Rebase(p, old, new)
                    /\ IsPrefix(p, q) => IsPrefix(Rebase(p, old, mid), Rebase(q, old, mid))
  OBVIOUS
<1> DEFINE S == NameSet
<1>1. p \in Seq(S) /\ q \in Seq(S) /\ old \in Seq(S) /\ mid \in Seq(S) /\ new \in Seq(S)
  BY DEF PathSet
<1> HIDE DEF S
<1>2. /\ Rebase(p, old, mid) \in Seq(S) /\ IsPrefix(mid, Rebase(p, old, mid))
      /\ Rebase(Rebase(p, old, mid), mid, new) = Rebase(p, old, new)
  BY <1>1, RebaseBack, RebaseTwice
<1>3. IsPrefix(p, q) => IsPrefix(Rebase(p, old, mid), Rebase(q, old, mid))
  BY <1>1, RebasePrefix
<1> QED BY <1>2, <1>3 DEF S, PathSet

\* A share of a directory reaches what is below it.
LEMMA SourceBelow ==
    ASSUME NEW S, S \subseteq GrantSet, NEW p \in PathSet, NEW q \in PathSet, IsPrefix(p, q), NEW u, Source(p, u, S)
    PROVE  Source(q, u, S)
<1>1. PICK g \in S : g.user = u /\ IsPrefix(g.path, p)
  BY DEF Source
<1>2. g.path \in PathSet
  BY DEF GrantSet
<1> QED BY <1>1, <1>2, PathOrder DEF Source

\* The shares at and below a path are no source of what is elsewhere.
LEMMA SourceElsewhere ==
    ASSUME NEW S, S \subseteq GrantSet, NEW p \in PathSet, NEW q \in PathSet, ~IsPrefix(p, q), NEW u, Source(q, u, S)
    PROVE  Source(q, u, S \ {g \in S : IsPrefix(p, g.path)})
<1>1. PICK g \in S : g.user = u /\ IsPrefix(g.path, q)
  BY DEF Source
<1>2. g.path \in PathSet
  BY DEF GrantSet
<1>3. ~IsPrefix(p, g.path)
  BY <1>1, <1>2, PathOrder
<1> QED BY <1>1, <1>3 DEF Source

\* What is remembered of something in the trash.
LEMMA MetaFields ==
    ASSUME NEW n, NEW ix, NEW meta, MetaOK(n, ix, meta), NEW i \in DOMAIN meta
    PROVE  meta[i].path \in PathSet /\ meta[i].shares \subseteq GrantSet /\ i \in DOMAIN n
  BY DEF MetaOK, MetaSet

\* Paths and access lists are all that counts.
LEMMA SameAccess ==
    ASSUME NEW n, NEW m, DOMAIN m = DOMAIN n, \A j \in DOMAIN n : m[j].path = n[j].path /\ m[j].shared = n[j].shared,
           NEW meta, DOMAIN meta \subseteq DOMAIN n, NEW S, Sourced(n, S), Waiting(n, meta, S)
    PROVE  Sourced(m, S) /\ Waiting(m, meta, S)
<1>1. Sourced(m, S)
  BY DEF Sourced
<1>2. ASSUME NEW i \in DOMAIN meta PROVE DOMAIN meta = {i} /\ meta[i].parent \in DOMAIN m /\ Awaits(m, i, meta[i], S)
  <2> DEFINE e == meta[i]
  <2>1. DOMAIN meta = {i} /\ e.parent \in DOMAIN n /\ Awaits(n, i, e, S)
    BY <1>2 DEF Waiting
  <2>2. i \in DOMAIN n
    BY <1>2
  <2> HIDE DEF e
  <2>3. Awaits(m, i, e, S)
    BY <2>1, <2>2 DEF Awaits
  <2> QED BY <2>1, <2>3 DEF e
<1> QED BY <1>1, <1>2 DEF Waiting

\* What is created inherits its directory's access list, and so its sources.
LEMMA CreateAccess ==
    ASSUME NEW n, TreeOK(n), NEW d \in DOMAIN n, NEW name \in NameSet, NEW i, i \notin DOMAIN n, NEW t,
           NEW p, p = Append(n[d].path, name), \A k \in DOMAIN n : n[k].path # p,
           NEW m, TreeAdded(n, m, i, d, name, p, t),
           NEW ix, NEW meta, MetaOK(n, ix, meta), NEW S, S \subseteq GrantSet, Sourced(n, S), Waiting(n, meta, S)
    PROVE  Sourced(m, S) /\ Waiting(m, meta, S)
<1>1. /\ DOMAIN m = DOMAIN n \cup {i} /\ m[i].path = p /\ m[i].shared = n[d].shared
      /\ \A j \in DOMAIN n : m[j].path = n[j].path /\ m[j].shared = n[j].shared
  BY DEF TreeAdded
<1>2. /\ \A j \in DOMAIN n : n[j].path \in PathSet
      /\ p \in PathSet /\ IsPrefix(n[d].path, p) /\ TrashPath \in PathSet
      /\ \A q \in PathSet : IsPrefix(q, p) <=> q = p \/ IsPrefix(q, n[d].path)
  <2>1. \A j \in DOMAIN n : n[j].path \in PathSet
    BY TreePaths
  <2>2. /\ p \in PathSet /\ IsPrefix(n[d].path, p)
        /\ \A q \in PathSet : IsPrefix(q, p) <=> q = p \/ IsPrefix(q, n[d].path)
    <3> DEFINE dp == n[d].path
    <3>1. dp \in PathSet /\ p = Append(dp, name)
      BY <2>1
    <3> HIDE DEF dp
    <3>2. p \in PathSet /\ IsPrefix(dp, p) /\ \A q \in PathSet : IsPrefix(q, p) <=> q = p \/ IsPrefix(q, dp)
      BY <3>1, AppendedPath, Zenon
    <3> QED BY <3>2 DEF dp
  <2> QED BY <2>1, <2>2, EmptyPath
<1>3. Sourced(m, S)
  <2>1. ASSUME NEW u \in n[d].shared, ~IsPrefix(TrashPath, p) PROVE Source(p, u, S)
    <3>1. Source(n[d].path, u, S)
      BY <1>2, <2>1 DEF Sourced
    <3> QED BY <1>2, <3>1, SourceBelow
  <2> QED BY <1>1, <2>1 DEF Sourced
<1>4. ASSUME NEW k \in DOMAIN meta PROVE DOMAIN meta = {k} /\ meta[k].parent \in DOMAIN m /\ Awaits(m, k, meta[k], S)
  <2> DEFINE e == meta[k]
  <2>1. DOMAIN meta = {k} /\ e.parent \in DOMAIN n /\ Awaits(n, k, e, S) /\ k \in DOMAIN n
        /\ e.path \in PathSet /\ e.shares \subseteq GrantSet
    BY <1>4, MetaFields DEF Waiting
  <2> HIDE DEF e
  <2>2. ASSUME ~IsPrefix(TrashPath, n[e.parent].path), IsPrefix(n[k].path, p), NEW u \in n[d].shared
        PROVE  Source(n[e.parent].path, u, S) \/ SetAside(Rebase(p, n[k].path, e.path), e.path, u, e.shares)
    <3>1. IsPrefix(n[k].path, n[d].path)
      BY <1>2, <2>1, <2>2
    <3>2. Source(n[e.parent].path, u, S) \/ SetAside(Rebase(n[d].path, n[k].path, e.path), e.path, u, e.shares)
      BY <2>1, <2>2, <3>1 DEF Awaits
    <3> DEFINE a == Rebase(n[d].path, n[k].path, e.path)
               b == Rebase(p, n[k].path, e.path)
    <3>3. a \in PathSet /\ b \in PathSet /\ IsPrefix(a, b)
      BY <1>2, <2>1, <2>2, <3>1, PathMoves
    <3> HIDE DEF a, b
    <3>4. SetAside(a, e.path, u, e.shares) => SetAside(b, e.path, u, e.shares)
      <4>1. \A g \in e.shares : g.path \in PathSet
        BY <2>1 DEF GrantSet
      <4> QED BY <3>3, <4>1, PathOrder DEF SetAside
    <3> QED BY <3>2, <3>4 DEF a, b
  <2>3. m[e.parent].path = n[e.parent].path /\ m[k].path = n[k].path
    BY <1>1, <2>1
  <2>4. Awaits(m, k, e, S)
    <3> SUFFICES ASSUME ~IsPrefix(TrashPath, n[e.parent].path), NEW j \in DOMAIN m, IsPrefix(n[k].path, m[j].path),
                        NEW u \in m[j].shared
                 PROVE  Source(n[e.parent].path, u, S) \/ SetAside(Rebase(m[j].path, n[k].path, e.path), e.path, u, e.shares)
      BY <2>3 DEF Awaits
    <3>1. CASE j = i
      BY <1>1, <2>2, <3>1
    <3>2. CASE j \in DOMAIN n
      BY <1>1, <2>1, <3>2 DEF Awaits
    <3> QED BY <1>1, <3>1, <3>2
  <2> QED BY <1>1, <2>1, <2>4 DEF e
<1> QED BY <1>3, <1>4 DEF Waiting

\* With what is deleted go the shares at and below it, and no others.
LEMMA DeleteAccess ==
    ASSUME NEW n, TreeOK(n), NEW i \in DOMAIN n, NEW gone, gone = {j \in DOMAIN n : IsPrefix(n[i].path, n[j].path)},
           NEW m, Removed(n, m, i, gone), NEW S, S \subseteq GrantSet, Sourced(n, S),
           NEW T, T = S \ {g \in S : IsPrefix(n[i].path, g.path)}
    PROVE  Sourced(m, T)
<1>1. /\ DOMAIN m = DOMAIN n \ gone
      /\ \A j \in DOMAIN m : m[j].path = n[j].path /\ m[j].shared = n[j].shared
  BY DEF Removed
<1>2. \A j \in DOMAIN n : n[j].path \in PathSet
  BY TreePaths
<1>3. ASSUME NEW j \in DOMAIN m, ~IsPrefix(TrashPath, m[j].path), NEW u \in m[j].shared PROVE Source(m[j].path, u, T)
  <2>1. j \in DOMAIN n /\ ~IsPrefix(n[i].path, n[j].path)
    BY <1>1
  <2>2. Source(n[j].path, u, S)
    BY <1>1, <1>3, <2>1 DEF Sourced
  <2>3. Source(n[j].path, u, T)
    BY <1>2, <2>1, <2>2, SourceElsewhere
  <2> QED BY <1>1, <2>3
<1> QED BY <1>3 DEF Sourced

\* The shares below what goes to the trash are set aside; its other sources are
\* above its parent.
LEMMA TrashAccess ==
    ASSUME NEW n, TreeOK(n), NEW i, NEW d, NEW name, MayMove(n, i, d, name), n[d].path = TrashPath, i # d,
           NEW m, Moved(n, m, i, d, name), NEW S, S \subseteq GrantSet, Sourced(n, S),
           NEW G, G = {g \in S : IsPrefix(n[i].path, g.path)}, NEW T, T = S \ G,
           NEW e, e.parent = n[i].parent, e.path = n[i].path, e.shares = G
    PROVE  Sourced(m, T) /\ e.parent \in DOMAIN m /\ Awaits(m, i, e, T)
<1> DEFINE old == n[i].path
           new == Append(n[d].path, name)
           h == n[i].parent
           hp == n[h].path
<1>1. /\ old \in PathSet /\ new \in PathSet /\ DOMAIN m = DOMAIN n /\ m[i].path = new
      /\ \A j \in DOMAIN n : n[j].path \in PathSet /\ m[j].path \in PathSet
      /\ \A j \in DOMAIN n : ~IsPrefix(old, n[j].path) => m[j].path = n[j].path /\ ~IsPrefix(new, m[j].path)
      /\ \A j \in DOMAIN n : IsPrefix(old, n[j].path) =>
            IsPrefix(new, m[j].path) /\ n[j].path = Rebase(m[j].path, new, old)
  BY MovedFacts
<1>2. \A j \in DOMAIN n : m[j].shared = n[j].shared
  BY DEF Moved
<1>3. i \in DOMAIN n \ {Root} /\ h \in DOMAIN n /\ old = Append(hp, n[i].name) /\ n[i].name \in NameSet
      /\ ~IsPrefix(old, TrashPath) /\ name \in NameSet /\ hp \in PathSet /\ TrashPath \in PathSet
      /\ new = Append(TrashPath, name)
  BY TreePaths, EmptyPath DEF MayMove, TreeOK
<1>4. /\ ~IsPrefix(old, hp) /\ \A p \in PathSet : IsPrefix(p, old) <=> p = old \/ IsPrefix(p, hp)
      /\ IsPrefix(TrashPath, new) /\ IsPrefix(old, old)
  <2> HIDE DEF old, new, hp
  <2>1. ~IsPrefix(old, hp) /\ \A p \in PathSet : IsPrefix(p, old) <=> p = old \/ IsPrefix(p, hp)
    <3> DEFINE a == n[i].name
    <3>1. hp \in PathSet /\ a \in NameSet /\ old = Append(hp, a)
      BY <1>3
    <3> HIDE DEF a
    <3> QED BY <3>1, AppendedPath, Zenon
  <2>2. IsPrefix(TrashPath, new)
    BY <1>3, AppendedPath
  <2> QED BY <1>1, <2>1, <2>2, PathOrder
<1> HIDE DEF old, new, h, hp
<1>5. Sourced(m, T)
  <2>1. ASSUME NEW j \in DOMAIN n, ~IsPrefix(TrashPath, m[j].path), NEW u \in n[j].shared PROVE Source(m[j].path, u, T)
    <3>1. ~IsPrefix(old, n[j].path)
      <4>1. ~IsPrefix(new, m[j].path)
        BY <1>1, <1>3, <1>4, <2>1, PathOrder
      <4> QED BY <1>1, <4>1
    <3>2. m[j].path = n[j].path
      BY <1>1, <3>1
    <3>3. Source(n[j].path, u, S)
      BY <2>1, <3>2 DEF Sourced
    <3>4. T = S \ {g \in S : IsPrefix(old, g.path)}
      BY DEF old
    <3> QED BY <1>1, <3>1, <3>2, <3>3, <3>4, SourceElsewhere
  <2> QED BY <1>1, <1>2, <2>1 DEF Sourced
<1>6. ASSUME ~IsPrefix(TrashPath, hp), NEW j \in DOMAIN n, IsPrefix(new, m[j].path), NEW u \in n[j].shared
      PROVE  Source(hp, u, T) \/ SetAside(n[j].path, old, u, G)
  <2>1. IsPrefix(old, n[j].path)
    BY <1>1, <1>6
  <2>2. ~IsPrefix(TrashPath, old)
    BY <1>3, <1>4, <1>6
  <2>3. ~IsPrefix(TrashPath, n[j].path)
    BY <1>1, <1>3, <2>1, <2>2, PathOrder
  <2>4. PICK g \in S : g.user = u /\ IsPrefix(g.path, n[j].path)
    BY <1>6, <2>3 DEF Sourced, Source
  <2>5. g.path \in PathSet
    BY DEF GrantSet
  <2>6. CASE IsPrefix(old, g.path)
    <3>1. g \in G
      BY <2>6 DEF old
    <3> QED BY <2>4, <2>6, <3>1 DEF SetAside
  <2>7. CASE ~IsPrefix(old, g.path)
    <3>1. g \in T
      BY <2>7 DEF old
    <3>2. IsPrefix(g.path, old)
      BY <1>1, <2>1, <2>4, <2>5, <2>7, PathOrder
    <3>3. IsPrefix(g.path, hp)
      BY <1>4, <2>5, <2>7, <3>2
    <3> QED BY <2>4, <3>1, <3>3 DEF Source
  <2> QED BY <2>6, <2>7
<1>7. m[h].path = hp
  BY <1>1, <1>3, <1>4 DEF hp
<1>8. Awaits(m, i, e, T)
  <2>1. \A j \in DOMAIN n : IsPrefix(new, m[j].path) => n[j].path = Rebase(m[j].path, new, old)
    BY <1>1
  <2>2. e.parent = h /\ e.path = old /\ e.shares = G
    BY DEF h, old
  <2> SUFFICES ASSUME ~IsPrefix(TrashPath, hp), NEW j \in DOMAIN n, IsPrefix(new, m[j].path), NEW u \in n[j].shared
               PROVE  Source(hp, u, T) \/ SetAside(Rebase(m[j].path, new, old), old, u, G)
    <3>1. m[e.parent].path = hp /\ m[i].path = new /\ DOMAIN m = DOMAIN n /\ \A j \in DOMAIN m : m[j].shared = n[j].shared
      BY <1>1, <1>2, <1>7, <2>2
    <3> QED BY <2>2, <3>1, Zenon DEF Awaits
  <2> QED BY <1>6, <2>1
<1> QED BY <1>1, <1>3, <1>5, <1>8 DEF h

\* What is restored has the sources of the directory it comes to, and the shares
\* that were set aside, which move with it.
LEMMA RestoreAccess ==
    ASSUME NEW n, TreeOK(n), NEW i, NEW d, NEW name, MayMove(n, i, d, name), NEW m, Moved(n, m, i, d, name),
           NEW S, S \subseteq GrantSet, Sourced(n, S),
           NEW e, e.parent = d, e.path \in PathSet, e.shares \subseteq GrantSet, Awaits(n, i, e, S),
           NEW R, \A g \in e.shares : Grant(Rebase(g.path, e.path, Append(n[d].path, name)), g.user) \in R
    PROVE  Sourced(m, S \cup R)
<1> DEFINE old == n[i].path
           dp == n[d].path
           new == Append(dp, name)
<1>1. /\ old \in PathSet /\ new \in PathSet /\ DOMAIN m = DOMAIN n
      /\ \A j \in DOMAIN n : n[j].path \in PathSet /\ m[j].path \in PathSet
      /\ \A j \in DOMAIN n : ~IsPrefix(old, n[j].path) => m[j].path = n[j].path
      /\ \A j \in DOMAIN n : IsPrefix(old, n[j].path) => m[j].path = Rebase(n[j].path, old, new) /\ IsPrefix(new, m[j].path)
  BY MovedFacts
<1>2. \A j \in DOMAIN n : m[j].shared = n[j].shared
  BY DEF Moved
<1>3. dp \in PathSet /\ name \in NameSet /\ TrashPath \in PathSet
  BY TreePaths, EmptyPath DEF MayMove
<1>4. new = Append(dp, name)
  OBVIOUS
<1>5. \A g \in e.shares : Grant(Rebase(g.path, e.path, new), g.user) \in R
  OBVIOUS
<1> HIDE DEF old, dp, new
<1>6. IsPrefix(dp, new)
  BY <1>3, <1>4, AppendedPath, Zenon
<1>7. ASSUME NEW j \in DOMAIN n, ~IsPrefix(old, n[j].path), ~IsPrefix(TrashPath, m[j].path), NEW u \in n[j].shared
      PROVE  Source(m[j].path, u, S \cup R)
  <2>1. m[j].path = n[j].path
    BY <1>1, <1>7
  <2>2. Source(n[j].path, u, S)
    BY <1>7, <2>1 DEF Sourced
  <2> QED BY <2>1, <2>2 DEF Source
<1>8. ASSUME NEW j \in DOMAIN n, IsPrefix(old, n[j].path), ~IsPrefix(TrashPath, m[j].path), NEW u \in n[j].shared
      PROVE  Source(m[j].path, u, S \cup R)
  <2> DEFINE p == n[j].path
             q == m[j].path
             b == Rebase(p, old, e.path)
  <2>1. p \in PathSet /\ q \in PathSet /\ q = Rebase(p, old, new) /\ IsPrefix(new, q)
    BY <1>1, <1>8
  <2>2. ~IsPrefix(TrashPath, dp)
    BY <1>1, <1>3, <1>6, <1>8, <2>1, PathOrder
  <2>3. Source(dp, u, S) \/ SetAside(b, e.path, u, e.shares)
    BY <1>8, <2>2 DEF Awaits, old, dp
  <2>4. IsPrefix(old, p)
    BY <1>8
  <2> HIDE DEF p, q, b
  <2>5. b \in PathSet /\ IsPrefix(e.path, b) /\ Rebase(b, e.path, new) = q
    BY <1>1, <2>1, <2>4, PathMoves DEF b
  <2>6. CASE Source(dp, u, S)
    <3>1. Source(q, u, S)
      BY <1>1, <1>3, <1>6, <2>1, <2>6, PathOrder, SourceBelow
    <3> QED BY <3>1 DEF Source, q
  <2>7. CASE SetAside(b, e.path, u, e.shares)
    <3>1. PICK g \in e.shares : g.user = u /\ IsPrefix(e.path, g.path) /\ IsPrefix(g.path, b)
      BY <2>7 DEF SetAside
    <3>2. g.path \in PathSet
      BY DEF GrantSet
    <3> DEFINE x == Rebase(g.path, e.path, new)
               h == Grant(x, g.user)
    <3>3. IsPrefix(x, q)
      BY <1>1, <2>5, <3>1, <3>2, PathMoves
    <3>4. h \in S \cup R
      BY <1>5
    <3> HIDE DEF x
    <3>5. h.user = u /\ h.path = x
      BY <3>1 DEF Grant
    <3> QED BY <3>3, <3>4, <3>5 DEF Source, q
  <2> QED BY <2>3, <2>6, <2>7
<1> QED BY <1>1, <1>2, <1>7, <1>8 DEF Sourced

\* The access lists of a directory and of all below it, for one user.
Reopened(n, m, k, u, opens) ==
    /\ DOMAIN m = DOMAIN n
    /\ \A j \in DOMAIN n :
          /\ m[j].path = n[j].path
          /\ m[j].shared = IF ~IsPrefix(n[k].path, n[j].path) THEN n[j].shared
                           ELSE IF opens THEN n[j].shared \cup {u} ELSE n[j].shared \ {u}
\* The users a share lets in have it as their source.
LEMMA ShareAccess ==
    ASSUME NEW n, NEW k, NEW u, NEW m, Reopened(n, m, k, u, TRUE), NEW S, Sourced(n, S)
    PROVE  Sourced(m, S \cup {Grant(n[k].path, u)})
<1> DEFINE h == Grant(n[k].path, u)
           T == S \cup {h}
<1>1. h.path = n[k].path /\ h.user = u /\ h \in T
  BY DEF Grant
<1> HIDE DEF h
<1>2. ASSUME NEW j \in DOMAIN n, ~IsPrefix(TrashPath, n[j].path), NEW v \in m[j].shared PROVE Source(n[j].path, v, T)
  <2>1. CASE v \in n[j].shared
    <3>1. Source(n[j].path, v, S)
      BY <1>2, <2>1 DEF Sourced
    <3> QED BY <3>1 DEF Source
  <2>2. CASE v \notin n[j].shared
    <3>1. v = u /\ IsPrefix(n[k].path, n[j].path)
      BY <1>2, <2>2 DEF Reopened
    <3> QED BY <1>1, <3>1 DEF Source
  <2> QED BY <2>1, <2>2
<1>3. Sourced(m, T)
  BY <1>2 DEF Sourced, Reopened
<1> QED BY <1>3 DEF h

\* Whoever keeps access after a withdrawal has it from another share.
LEMMA UnshareAccess ==
    ASSUME NEW n, NEW k, NEW u, NEW m, Reopened(n, m, k, u, FALSE), NEW S, Sourced(n, S)
    PROVE  Sourced(m, S \ {Grant(n[k].path, u)})
<1> DEFINE h == Grant(n[k].path, u)
           T == S \ {h}
<1>1. h.path = n[k].path /\ h.user = u
  BY DEF Grant
<1> HIDE DEF h
<1>2. ASSUME NEW j \in DOMAIN n, ~IsPrefix(TrashPath, n[j].path), NEW v \in m[j].shared PROVE Source(n[j].path, v, T)
  <2>1. v \in n[j].shared /\ ~(v = u /\ IsPrefix(n[k].path, n[j].path))
    BY <1>2 DEF Reopened
  <2>2. PICK g \in S : g.user = v /\ IsPrefix(g.path, n[j].path)
    BY <1>2, <2>1 DEF Sourced, Source
  <2>3. g # h
    BY <1>1, <2>1, <2>2
  <2> QED BY <2>2, <2>3 DEF Source
<1>3. Sourced(m, T)
  BY <1>2 DEF Sourced, Reopened
<1> QED BY <1>3 DEF h

\* Fewer users on the same paths.
LEMMA LessAccess ==
    ASSUME NEW n, NEW m, DOMAIN m = DOMAIN n, \A j \in DOMAIN n : m[j].path = n[j].path /\ m[j].shared \subseteq n[j].shared,
           NEW S, Sourced(n, S)
    PROVE  Sourced(m, S)
  BY DEF Sourced

\* An empty trash holds nobody's access.
LEMMA NothingWaits ==
    ASSUME NEW n, NEW meta, DOMAIN meta = {}, NEW S
    PROVE  Waiting(n, meta, S)
  BY DEF Waiting

\* The same of the next state, with the paths of this one.
NextAccess == AccessOK(inodes', trashMeta', shares', disk'.files)
\* CreateFile gives access only to those of its directory.
LEMMA CreateOpens ==
    ASSUME CoreInv, NEW c \in Callers, CreateFile(c), ~replaced', AccessOK(inodes, trashMeta, shares, disk.files)
    PROVE  NextAccess
<1> DEFINE r == req[c]
           f == disk.files
           g == CreatedFiles(r)
           p == NewPath(r)
           i == NewId(r)
<1>1. /\ CanCreate(r) /\ index' = NewIndex(r) /\ inodes' = CreatedTree(r) /\ disk' = Last(CreateSteps(r))
      /\ shares' = shares /\ trashMeta' = trashMeta /\ r.name # aclFileName
  BY DEF CreateFile, NewIndex, CreatedTree, NewId
<1>2. RequestOK(inodes, "create", r)
  BY MyRequest DEF CreateFile
<1>3. disk'.files = g /\ TreeAdded(inodes, inodes', i, r.dir, r.name, p, r.type)
  BY <1>1, <1>2, CreateStep
<1>4. /\ DOMAIN g = DOMAIN f \cup {p} /\ (\A q \in DOMAIN f : g[q] = f[q])
      /\ g[p].type = r.type /\ g[p].acl = IF r.type = "dir" THEN inodes[r.dir].shared ELSE {}
  BY <1>1, <1>2, CreateDisk
<1>5. /\ p = Append(inodes[r.dir].path, r.name) /\ (\A k \in DOMAIN inodes : inodes[k].path # p)
      /\ r.dir \in DOMAIN inodes /\ r.name \in NameSet /\ i \notin DOMAIN inodes
  BY <1>1, <1>2, CreateTarget DEF Live, Path
<1> HIDE DEF g, p, i, f, r
<1>6. Bare(g)
  BY <1>4 DEF Bare, AccessOK, f
<1>7. Sourced(inodes', shares) /\ Waiting(inodes', trashMeta, shares)
  BY <1>3, <1>5, CoreFacts, CreateAccess DEF AccessOK
<1> QED BY <1>1, <1>3, <1>6, <1>7 DEF NextAccess, AccessOK

\* A write gives nobody access.
LEMMA WriteOpens ==
    ASSUME CoreInv, NEW i, NEW e, Wrote(i, e), shares' = shares, trashMeta' = trashMeta,
           AccessOK(inodes, trashMeta, shares, disk.files)
    PROVE  NextAccess
<1> DEFINE f == disk.files
           g == disk'.files
<1>1. i \in Live /\ e \in Nat /\ Written(inodes, inodes', i, e) /\ g = GrownFiles(f, Path(i), e)
  BY DEF Wrote
<1>2. FilesOK(f) /\ Path(i) \in DOMAIN f
  BY <1>1, CoreFacts
<1> HIDE DEF f, g
<1>3. DOMAIN g = DOMAIN f /\ \A q \in DOMAIN f : g[q].type = f[q].type /\ g[q].acl = f[q].acl
  BY <1>1, <1>2, GrownIs
<1>4. DOMAIN inodes' = DOMAIN inodes /\ \A j \in DOMAIN inodes : inodes'[j].path = inodes[j].path /\ inodes'[j].shared = inodes[j].shared
  BY <1>1 DEF Written
<1>5. DOMAIN trashMeta \subseteq DOMAIN inodes
  BY CoreFacts DEF MetaOK
<1>6. Sourced(inodes', shares) /\ Waiting(inodes', trashMeta, shares)
  BY <1>4, <1>5, SameAccess DEF AccessOK
<1>7. Bare(g)
  BY <1>3 DEF Bare, AccessOK, f
<1> QED BY <1>6, <1>7 DEF NextAccess, AccessOK, g

\* The shares a deletion withdraws were the sources of what it deletes only.
LEMMA DeleteOpens ==
    ASSUME CoreInv, NEW i, Deleted(i), ~stirred', AccessOK(inodes, trashMeta, shares, disk.files)
    PROVE  NextAccess
<1> DEFINE f == disk.files
           g == disk'.files
<1>1. /\ i \in Live \ {Root, Trash} /\ Removed(inodes, inodes', i, Subtree(i)) /\ g = RemovedFiles(i)
      /\ shares' = shares \ SharesBelow(Path(i)) /\ trashMeta' = Without(trashMeta, Subtree(i)) /\ Stir
  BY DEF Deleted, Delete
<1>2. DOMAIN trashMeta' = {}
  BY <1>1 DEF Stir, Without
<1>3. Subtree(i) = {j \in DOMAIN inodes : IsPrefix(inodes[i].path, inodes[j].path)} /\ i \in DOMAIN inodes
  BY <1>1, SubtreePaths DEF Live, Path
<1>4. shares' = shares \ {h \in shares : IsPrefix(inodes[i].path, h.path)}
  BY <1>1 DEF SharesBelow, Path
<1>5. Sourced(inodes', shares')
  BY <1>1, <1>3, <1>4, CoreFacts, DeleteAccess DEF AccessOK
<1>6. DOMAIN g \subseteq DOMAIN f /\ \A q \in DOMAIN g : g[q] = f[q]
  BY <1>1, DeleteDisk
<1>7. Bare(g)
  BY <1>6 DEF Bare, AccessOK
<1> QED BY <1>2, <1>5, <1>7, NothingWaits DEF NextAccess, AccessOK

\* A move gives no file an ACL.
LEMMA MovedBare ==
    ASSUME CoreInv, NEW i, NEW d, NEW name, MayMove(inodes, i, d, name), Moved(inodes, inodes', i, d, name),
           disk'.files = MovedFiles(i, Append(Path(d), name)), Bare(disk.files)
    PROVE  Bare(disk'.files)
<1> DEFINE f == disk.files
           g == disk'.files
<1>1. FilesMoved(inodes, inodes', f, g)
  BY CoreFacts, MoveFiles DEF MovedFiles, Path
<1> HIDE DEF f, g
<1>2. \A q \in DOMAIN g : \E p \in DOMAIN f : g[q] = f[p]
  BY <1>1 DEF FilesMoved
<1>3. Bare(g)
  BY <1>2 DEF Bare, f
<1> QED BY <1>3 DEF g

\* The sources of what TrashFile moves are set aside with it.
LEMMA TrashOpens ==
    ASSUME CoreInv, NEW c \in Callers, TrashFile(c), ~replaced', ~stirred', AccessOK(inodes, trashMeta, shares, disk.files)
    PROVE  NextAccess
<1> DEFINE i == req[c].fid
           G == SharesBelow(Path(i))
           e == [parent |-> inodes[i].parent, name |-> inodes[i].name, path |-> Path(i), shares |-> G]
<1>1. Trashed(i) /\ trashMeta' = With(trashMeta, i, e) /\ Stir /\ shares' = shares \ G
  BY TrashCore DEF TrashFile
<1>2. e.parent = inodes[i].parent /\ e.path = inodes[i].path /\ e.shares = G
  BY DEF Path
<1>3. G = {g \in shares : IsPrefix(inodes[i].path, g.path)}
  BY DEF SharesBelow, Path
<1> HIDE DEF i, G, e
<1>4. /\ MayMove(inodes, i, Trash, TrashedAs(i)) /\ Moved(inodes, inodes', i, Trash, TrashedAs(i)) /\ i # Trash
      /\ disk'.files = MovedFiles(i, Append(Path(Trash), TrashedAs(i)))
  BY <1>1 DEF Trashed, TrashNew
<1>5. DOMAIN trashMeta' = {i} /\ trashMeta'[i] = e
  BY <1>1 DEF Stir, With
<1>6. inodes[Trash].path = TrashPath
  BY CoreFacts, TrashIs DEF Path
<1>7. Sourced(inodes', shares') /\ e.parent \in DOMAIN inodes' /\ Awaits(inodes', i, e, shares')
  <2>1. TreeOK(inodes) /\ shares \subseteq GrantSet /\ Sourced(inodes, shares)
    BY CoreFacts DEF AccessOK
  <2> QED BY <1>1, <1>2, <1>3, <1>4, <1>6, <2>1, TrashAccess
<1>8. Waiting(inodes', trashMeta', shares')
  BY <1>5, <1>7 DEF Waiting
<1>9. Bare(disk'.files)
  BY <1>4, MovedBare DEF AccessOK
<1> QED BY <1>7, <1>8, <1>9 DEF NextAccess, AccessOK

\* RestoreFile brings the sources back with what it restores.
LEMMA RestoreOpens ==
    ASSUME CoreInv, NEW c \in Callers, RestoreFile(c), ~replaced', AccessOK(inodes, trashMeta, shares, disk.files)
    PROVE  NextAccess
<1> DEFINE i == req[c].fid
           d == RestoreTo(i)
           name == RestoredAs(i)
           e == trashMeta[i]
           R == Reattached(i)
<1>1. Restored(i) /\ trashMeta' = Without(trashMeta, {i}) /\ shares' = shares \cup R
  BY RestoreCore DEF RestoreFile
<1>2. /\ i \in DOMAIN trashMeta /\ disk'.files = MovedFiles(i, Append(Path(d), name))
      /\ MayMove(inodes, i, d, name) /\ Moved(inodes, inodes', i, d, name)
  BY <1>1 DEF Restored, RestoredPath
<1>3. DOMAIN trashMeta = {i} /\ e.parent \in DOMAIN inodes /\ Awaits(inodes, i, e, shares)
  BY <1>2 DEF AccessOK, Waiting
<1>4. e.path \in PathSet /\ e.shares \subseteq GrantSet
  BY <1>2, CoreFacts, MetaFields
<1>5. e.parent = d
  BY <1>3 DEF RestoreTo, Live
<1>6. \A g \in e.shares : Grant(Rebase(g.path, e.path, Append(inodes[d].path, name)), g.user) \in R
  BY DEF Reattached, RestoredPath, Path
<1> HIDE DEF i, d, name, e, R
<1>7. Sourced(inodes', shares \cup R)
  <2>1. TreeOK(inodes) /\ shares \subseteq GrantSet /\ Sourced(inodes, shares)
    BY CoreFacts DEF AccessOK
  <2> QED BY <1>2, <1>3, <1>4, <1>5, <1>6, <2>1, RestoreAccess, Zenon
<1>8. DOMAIN trashMeta' = {}
  BY <1>1, <1>3 DEF Without
<1>9. Bare(disk'.files)
  BY <1>2, MovedBare DEF AccessOK
<1> QED BY <1>1, <1>7, <1>8, <1>9, NothingWaits DEF NextAccess, AccessOK

\* Share and Unshare change access exactly as they change the shares.
LEMMA ShareOpens ==
    ASSUME CoreInv, NEW c \in Callers, Share(c) \/ Unshare(c), ~stirred', ~late',
           AccessOK(inodes, trashMeta, shares, disk.files)
    PROVE  NextAccess
<1> DEFINE r == req[c]
           k == r.fid
           u == r.user
           f == disk.files
           g == SharedFiles(r)
<1>1. Opened(inodes, inodes', r) /\ disk'.files = g /\ pc[c] \in {"share", "unshare"} /\ r.op = pc[c]
  BY ShareCore
<1>2. RequestOK(inodes, pc[c], r)
  BY MyRequest
<1>3. DOMAIN g = DOMAIN f /\ \A p \in DOMAIN f : g[p].type = f[p].type /\ (f[p].type # "dir" => g[p].acl = f[p].acl)
  BY <1>1, <1>2, ShareDisk
<1>4. Stir /\ BeLate(r) /\ trashMeta' = trashMeta
  BY Zenon DEF Share, Unshare
<1>5. DOMAIN trashMeta' = {} /\ k \in Live
  BY <1>4 DEF Stir, BeLate
<1>6. Covered(r) = {j \in DOMAIN inodes : IsPrefix(inodes[k].path, inodes[j].path)} /\ Target(r) = inodes[k]
  BY <1>5, CoreFacts, SubtreeIs DEF Covered, Target, Live, Path
<1>7. \/ pc[c] = "share" /\ shares' = shares \cup {Grant(inodes[k].path, u)}
      \/ pc[c] = "unshare" /\ shares' = shares \ {Grant(inodes[k].path, u)}
  BY <1>6 DEF Share, Unshare
<1> HIDE DEF g, f
<1>8. Reopened(inodes, inodes', k, u, pc[c] = "share")
  <2>1. DOMAIN inodes' = DOMAIN inodes
    BY <1>1 DEF Opened
  <2>2. \A A : Changed(r, A) = IF pc[c] = "share" THEN A \cup {u} ELSE A \ {u}
    BY <1>1 DEF Changed
  <2>3. ASSUME NEW j \in DOMAIN inodes
        PROVE  /\ inodes'[j].path = inodes[j].path
               /\ inodes'[j].shared = IF ~IsPrefix(inodes[k].path, inodes[j].path) THEN inodes[j].shared
                                      ELSE Changed(r, inodes[j].shared)
    BY <1>1, <1>6 DEF Opened
  <2> QED BY <2>1, <2>2, <2>3 DEF Reopened
<1>9. Sourced(inodes', shares')
  <2>1. Sourced(inodes, shares)
    BY DEF AccessOK
  <2>2. CASE pc[c] = "share"
    <3>1. shares' = shares \cup {Grant(inodes[k].path, u)} /\ Reopened(inodes, inodes', k, u, TRUE)
      BY <1>7, <1>8, <2>2 DEF Reopened
    <3> QED BY <2>1, <3>1, ShareAccess
  <2>3. CASE pc[c] = "unshare"
    <3>1. shares' = shares \ {Grant(inodes[k].path, u)} /\ Reopened(inodes, inodes', k, u, FALSE)
      BY <1>7, <1>8, <2>3 DEF Reopened
    <3> QED BY <2>1, <3>1, UnshareAccess
  <2> QED BY <1>1, <2>2, <2>3
<1>10. Bare(g)
  BY <1>3 DEF Bare, AccessOK, f
<1> QED BY <1>1, <1>5, <1>9, <1>10, NothingWaits DEF NextAccess, AccessOK

\* A restart reads the access that was in force.
LEMMA CrashOpens ==
    ASSUME CoreInv, Crash, AclsOK(inodes, disk.files), AccessOK(inodes, trashMeta, shares, disk.files)
    PROVE  NextAccess
<1> DEFINE f == disk.files
           g == disk'.files
<1>1. RestartedFrom(disk) /\ Reread
  BY CrashCore, RestartSame
<1>2. trashMeta' = <<>> /\ shares' = shares
  <2>1. trashMeta' = <<>> /\ shares' = disk.shares
    BY DEF Crash, Restart, RestartFrom
  <2> QED BY <2>1, CoreFacts
<1>3. \A p \in DOMAIN f : g[p] = IF f[p].fid = None THEN [f[p] EXCEPT !.fid = index'.ids[p]] ELSE f[p]
  BY <1>1 DEF RestartedFrom
<1>4. DOMAIN g = DOMAIN f /\ (\A p \in DOMAIN f : f[p] \in Entry) /\ \A j \in Live : Path(j) \in DOMAIN f /\ f[Path(j)].type = inodes[j].type
  BY <1>1, CoreFacts DEF RestartedFrom, FilesOK, Match, Live, Path
<1> HIDE DEF f, g
<1>5. Bare(g)
  <2>1. ASSUME NEW p \in DOMAIN f PROVE g[p].type = f[p].type /\ g[p].acl = f[p].acl
    <3> DEFINE x == f[p]
               y == g[p]
               z == index'.ids[p]
    <3>1. x \in Entry /\ y = IF x.fid = None THEN [x EXCEPT !.fid = z] ELSE x
      BY <1>3, <1>4
    <3> HIDE DEF x, y, z
    <3>2. y.acl = x.acl /\ y.type = x.type
      BY <3>1 DEF Entry
    <3> QED BY <3>2 DEF x, y
  <2> QED BY <1>4, <2>1 DEF Bare, AccessOK, f
<1>6. DOMAIN inodes' = DOMAIN inodes /\ \A j \in DOMAIN inodes : inodes'[j].path = inodes[j].path /\ inodes'[j].shared \subseteq inodes[j].shared
  <2>1. ASSUME NEW j \in DOMAIN inodes PROVE inodes'[j].path = inodes[j].path /\ inodes'[j].shared \subseteq inodes[j].shared
    <3>1. inodes'[j].path = inodes[j].path /\ inodes'[j].shared = f[inodes[j].path].acl
      BY <1>1 DEF Reread, f
    <3>2. CASE inodes[j].type = "dir"
      BY <3>1, <3>2 DEF AclsOK, f
    <3>3. CASE inodes[j].type = "file"
      <4>1. inodes[j].path \in DOMAIN f /\ f[inodes[j].path].type = "file"
        BY <1>4, <3>3 DEF Live, Path
      <4> QED BY <3>1, <4>1 DEF Bare, AccessOK, f
    <3>4. inodes[j].type \in {"file", "dir"}
      BY CoreFacts DEF TreeOK, InodeSet
    <3> QED BY <3>1, <3>2, <3>3, <3>4
  <2> QED BY <1>1, <2>1 DEF Reread
<1>7. Sourced(inodes', shares)
  BY <1>6, LessAccess DEF AccessOK
<1> QED BY <1>2, <1>5, <1>7, NothingWaits DEF NextAccess, AccessOK, g

\* What happened beside a full trash is not forgotten.
LEMMA StirredStays ==
    ASSUME Next, ~stirred'
    PROVE  ~stirred
<1>1. CASE \E c \in Callers : Send(c)
  BY <1>1, SendKeeps DEF history
<1>2. ASSUME NEW c \in Callers,
             WriteFile(c) \/ UploadChunk(c) \/ UploadFails(c) \/ UploadDone(c) \/ ScrapLookup(c)
               \/ Tell(c) \/ Refuse(c)
      PROVE  ~stirred
  <2>1. UNCHANGED history
    BY <1>2, Zenon DEF WriteFile, UploadChunk, UploadFails, UploadDone, ScrapLookup, Tell, Refuse
  <2> QED BY <2>1 DEF history
<1>3. ASSUME NEW c \in Callers, DeleteFile(c) \/ ScrapDelete(c) \/ Share(c) \/ Unshare(c) \/ TrashFile(c) PROVE ~stirred
  <2>1. Stir
    BY <1>3, Zenon DEF DeleteFile, ScrapDelete, Delete, Share, Unshare, TrashFile
  <2> QED BY <2>1 DEF Stir
<1>4. ASSUME NEW c \in Callers, RestoreFile(c) PROVE ~stirred
  BY <1>4, Zenon DEF RestoreFile
<1>5. ASSUME NEW c \in Callers, CrashInside(c) PROVE ~stirred
  BY <1>5 DEF CrashInside
<1>6. CASE Crash
  BY <1>6 DEF Crash, history
<1>7. CASE SetQuota
  BY <1>7 DEF SetQuota, SetUserQuota, history
<1>8. CASE HeartbeatFails \/ SendRegistration \/ Register \/ RegistrationFails
  BY <1>8, Zenon DEF HeartbeatFails, SendRegistration, Register, RegistrationFails, history
<1>10. ASSUME NEW c \in Callers, CreateFile(c) PROVE ~stirred
  BY <1>10 DEF CreateFile
<1> QED
  BY <1>10, <1>1, <1>2, <1>3, <1>4, <1>5, <1>6, <1>7, <1>8, NextServes

\* Until the trash is stirred, every access outside it has a source, and at most
\* one thing is in it that can be restored, which waits for its own.
AccessInv ==
    ~stirred /\ ~late /\ ~torn /\ ~replaced => AccessOK(inodes, trashMeta, shares, disk.files)
\* AccessInv holds at first.
LEMMA AccessInit ==
    ASSUME Init
    PROVE  AccessInv
<1>1. DOMAIN inodes = {Root, 1} /\ inodes[Root].shared = {} /\ inodes[1].shared = {}
  <2>1. Root # 1
    BY DEF Root
  <2> QED BY <2>1, InitTree DEF Live
<1>2. disk.files = RootAndTrash(NewEntry("dir", Root), NewEntry("dir", 1)) /\ trashMeta = <<>>
  BY DEF Init
<1>3. DOMAIN disk.files = {<<>>, TrashPath} /\ disk.files[<<>>].acl = {} /\ disk.files[TrashPath].acl = {}
  <2>1. DOMAIN disk.files = {<<>>, TrashPath} /\ disk.files[<<>>] = NewEntry("dir", Root) /\ disk.files[TrashPath] = NewEntry("dir", 1)
    BY <1>2, EmptyPath DEF RootAndTrash
  <2> QED BY <2>1 DEF NewEntry
<1>4. Sourced(inodes, shares)
  BY <1>1 DEF Sourced
<1>5. Bare(disk.files)
  BY <1>3 DEF Bare
<1> QED
  BY <1>2, <1>4, <1>5, NothingWaits DEF AccessInv, AccessOK

\* Every method keeps access to its sources.
LEMMA ServeOpens ==
    ASSUME CoreInv, workload \in Workloads, NEW c \in Callers, Serve(c), ~replaced', ~stirred', ~late',
           AccessOK(inodes, trashMeta, shares, disk.files)
    PROVE  NextAccess
<1>1. CASE CreateFile(c)
  BY <1>1, CreateOpens
<1>2. CASE TrashFile(c)
  BY <1>2, TrashOpens
<1>3. CASE RestoreFile(c)
  BY <1>3, RestoreOpens
<1>4. CASE WriteFile(c) \/ UploadChunk(c)
  <2>1. PICK end \in Nat : CanWrite(req[c], end) /\ WriteTo(req[c], end)
    <3>1. CASE WriteFile(c)
      BY <3>1, MyRequest DEF WriteFile, RequestOK
    <3>2. CASE UploadChunk(c)
      BY <3>2, QuotaNat DEF UploadChunk, CoreInv
    <3> QED BY <1>4, <3>1, <3>2
  <2>2. index' = index /\ shares' = shares /\ trashMeta' = trashMeta
    BY <1>4 DEF WriteFile, UploadChunk
  <2>3. \E i, e : Wrote(i, e)
    BY <2>1, <2>2, WriteStep
  <2> QED BY <2>2, <2>3, WriteOpens
<1>5. CASE DeleteFile(c) \/ ScrapDelete(c)
  BY <1>5, DeletesCore, DeleteOpens
<1>6. CASE Share(c) \/ Unshare(c)
  BY <1>6, ShareOpens
<1>7. CASE UploadFails(c) \/ UploadDone(c) \/ ScrapLookup(c) \/ Tell(c) \/ Refuse(c)
  <2>1. inodes' = inodes /\ disk' = disk /\ shares' = shares /\ trashMeta' = trashMeta
    BY <1>7, QuietServe DEF Quiet, memory
  <2> QED BY <2>1 DEF NextAccess
<1> QED
  BY <1>1, <1>2, <1>3, <1>4, <1>5, <1>6, <1>7 DEF Serve

\* Every step keeps AccessInv.
LEMMA AccessNext ==
    ASSUME FileServerInv, MemoInv, AccessInv, [Next]_vars
    PROVE  AccessInv'
<1> SUFFICES ASSUME ~stirred', ~late', ~torn', ~replaced' PROVE NextAccess
  BY DEF AccessInv, NextAccess, AccessOK, Sourced, Waiting, Bare, Awaits, TrashPath
<1>1. CASE Next
  <2>1. ~replaced /\ ~stirred /\ ~late /\ ~torn
    BY <1>1, NextKeeps, StirredStays, LateStays, TornStays
  <2>2. CoreInv /\ workload \in Workloads /\ AclsOK(inodes, disk.files) /\ AccessOK(inodes, trashMeta, shares, disk.files)
    BY <2>1 DEF FileServerInv, MemoInv, AccessInv
  <2>3. CASE inodes' = inodes /\ disk'.files = disk.files /\ shares' = shares /\ trashMeta' = trashMeta
    BY <2>2, <2>3 DEF NextAccess
  <2>4. ASSUME NEW c \in Callers, CrashInside(c) PROVE FALSE
    BY <2>2, <2>4, CrashInsideCore
  <2>5. ASSUME NEW c \in Callers, Send(c) PROVE NextAccess
    BY <2>3, <2>5, SendKeeps DEF memory
  <2>6. ASSUME NEW c \in Callers, Serve(c) PROVE NextAccess
    BY <2>2, <2>6, ServeOpens
  <2>7. CASE SetQuota
    BY <2>2, <2>3, <2>7, SetQuotaCore DEF memory
  <2>8. CASE HeartbeatFails \/ SendRegistration \/ Register \/ RegistrationFails
    BY <2>2, <2>3, <2>8, QuietSync DEF Quiet, memory
  <2>9. CASE Crash
    BY <2>2, <2>9, CrashOpens
  <2> QED
    BY <1>1, <2>4, <2>5, <2>6, <2>7, <2>8, <2>9 DEF Next
<1>2. CASE UNCHANGED vars
  <2>1. /\ inodes' = inodes /\ disk' = disk /\ shares' = shares /\ trashMeta' = trashMeta
        /\ stirred' = stirred /\ torn' = torn /\ replaced' = replaced /\ late' = late
    BY <1>2 DEF vars, memory, history
  <2> QED BY <2>1 DEF AccessInv, NextAccess
<1> QED
  BY <1>1, <1>2

\* An inode is under the trash if its path is.
LEMMA UnderTrashIs ==
    ASSUME CoreInv, NEW i \in Live
    PROVE  isUnderTrash(i) <=> IsPrefix(TrashPath, Path(i))
<1>1. TreeOK(inodes)
  BY CoreFacts
<1>2. Trash \in Live /\ Path(Trash) = TrashPath
  BY <1>1, TrashIs
<1>3. Chain(i) = {j \in Live : IsPrefix(Path(j), Path(i))}
  BY <1>1, ChainIs
<1> QED
  BY <1>2, <1>3 DEF isUnderTrash

\* Whoever may use something outside the trash does so by a share of it or of a
\* directory above it: CreateFile inherits the list of the directory, Share and
\* Unshare change the lists of exactly what is below the share that comes or
\* goes, TrashFile sets aside the shares that RestoreFile moves back, and a
\* restart reads the lists the .acl files hold, as long as no client has written one
\* of them.
THEOREM FileServerAccessHasASource == Spec => []AccessHasASource
<1>1. Init => AccessInv
  BY AccessInit
<1>2. FileServerInv /\ MemoInv /\ AccessInv /\ [Next]_vars => AccessInv'
  BY AccessNext
<1>3. FileServerInv /\ AccessInv => AccessHasASource
  <2> SUFFICES ASSUME FileServerInv, AccessInv, ~stirred, ~late, ~torn, ~replaced, NEW i \in Live, ~isUnderTrash(i),
                      NEW user \in inodes[i].shared
               PROVE  \E p \in Prefixes(Path(i)) : Grant(p, user) \in shares
    BY DEF AccessHasASource
  <2>1. CoreInv /\ Sourced(inodes, shares)
    BY DEF FileServerInv, AccessInv, AccessOK
  <2>2. shares \subseteq GrantSet /\ Path(i) \in PathSet
    BY <2>1, CoreFacts, TreePaths DEF Live, Path
  <2>3. PICK g \in shares : g.user = user /\ IsPrefix(g.path, Path(i))
    BY <2>1, UnderTrashIs DEF Sourced, Source, Live, Path
  <2>4. g.path \in PathSet /\ g = Grant(g.path, user)
    BY <2>2, <2>3 DEF GrantSet, Grant
  <2>5. g.path \in Prefixes(Path(i))
    BY <2>2, <2>3, <2>4, PrefixesAre DEF PathSet
  <2> QED BY <2>4, <2>5
<1> QED
  BY <1>1, <1>2, <1>3, FileServerInvariant, MemoInvariant, PTL DEF Spec
=============================================================================
