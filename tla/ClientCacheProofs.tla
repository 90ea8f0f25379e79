------------------------- MODULE ClientCacheProofs -------------------------
(***************************************************************************)
(* The clients' caches and the callbacks, for any clients, users and       *)
(* directories: the types, that a callback session follows its client, and *)
(* that a cached copy is stale only for a reason.                          *)
(***************************************************************************)
EXTENDS ClientCache, TLAPS

Labels == {"connecting", "entering", "reading", "created", "closing", "deleting", "registered",
           "off", "idle", "downloaded"}

\* What a command has at hand at each of its steps.
HasAtHand(label, r) ==
    /\ label \in {"off", "connecting", "idle", "registered"} => r = None
    /\ label = "entering" => r \in [dir : Dirs] \cup {None}
    /\ label = "reading" => r \in [name : Names, file : {None}]
    /\ label \in {"downloaded", "created", "closing", "deleting"} => r \in [name : Names, file : Files]
RequestInv == \A c \in Clients : HasAtHand(pc[c], req[c])

\* A client that has not connected yet is at its root and knows nothing.
StartInv ==
    \A c \in Clients : pc[c] \in {"off", "connecting"} =>
        curr[c] = RootOf[c] /\ \A d \in Dirs, n \in Names : cache[c][d][n] = None

TypeInv ==
    /\ tree \in [Dirs -> [Names -> Files \cup {None}]] /\ clock \in 0 .. MaxClock
    /\ sessions \in [Users -> Sessions \cup {None}]
    /\ IsABag(calls) /\ DOMAIN calls \subseteq Callbacks
    /\ cache \in [Clients -> [Dirs -> [Names -> CNodes \cup {None}]]]
    /\ curr \in [Clients -> Dirs] /\ pc \in [Clients -> Labels] /\ req \in [Clients -> Requests]
    /\ excused \subseteq Clients \X (1 .. MaxClock) /\ strayed \subseteq Clients
    /\ faults \in 0 .. MaxFaults
    /\ \A m \in DOMAIN calls : m.to # None => pc[m.to] # "off"

\* A session nobody has moved is where its client is heading.
FollowInv ==
    \A c \in Clients :
        LET s == sessions[UserOf[c]] IN
        s # None /\ s.addr = c =>
            /\ s.root = RootOf[c]
            /\ pc[c] \notin {"off", "registered"} /\ c \notin strayed => s.dir = Heading(c)

\* FIDs are given out once.
FidInv ==
    /\ \A d \in Dirs, n \in Names : tree[d][n] # None =>
         /\ tree[d][n].fid <= clock
         /\ \A e \in Dirs, k \in Names :
              tree[e][k] # None /\ tree[e][k].fid = tree[d][n].fid => e = d /\ k = n
    /\ \A c \in Clients, d \in Dirs, n \in Names : cache[c][d][n] # None => cache[c][d][n].of <= clock
    /\ \A c \in Clients : pc[c] = "downloaded" => req[c].file.fid <= clock

\* Why client c may have an old copy of the file at d, n.
Accounted(c, d, n) ==
    \/ <<c, tree[d][n].fid>> \in excused
    \/ \E m \in DOMAIN calls : m.to = c /\ m.fid = tree[d][n].fid
    \/ \E w \in Clients : pc[w] = "closing" /\ curr[w] = d /\ req[w].name = n

\* A node with contents of the file that is there now.
CopyOK(c, d, n) ==
    LET node == cache[c][d][n]  file == tree[d][n] IN
    node # None /\ file # None /\ node.contentCached /\ node.of = file.fid =>
        /\ node.fid # file.fid => <<c, file.fid>> \in excused
        /\ node.contentUID /\ node.data # file.data => Accounted(c, d, n)
\* A node whose contents are being written to the local file.
ReadOK(c) ==
    LET d == curr[c]  n == req[c].name  node == cache[c][d][n]  file == req[c].file IN
    /\ pc[c] \in {"reading", "downloaded"} => node \in CNodes /\ ~node.contentCached
    /\ pc[c] = "downloaded" =>
         /\ node.fid # file.fid => <<c, file.fid>> \in excused
         /\ tree[d][n] # None /\ tree[d][n].fid = file.fid /\ node.contentUID
              /\ file.data # tree[d][n].data
            => Accounted(c, d, n)

CopyInv ==
    /\ \A c \in Clients, d \in Dirs, n \in Names : CopyOK(c, d, n)
    /\ \A c \in Clients : ReadOK(c)

CacheInv == TypeInv /\ RequestInv /\ StartInv /\ FollowInv /\ FidInv /\ CopyInv
-----------------------------------------------------------------------------
(* Bags of callbacks. *)

LEMMA Sending ==
    ASSUME NEW B, IsABag(B), NEW S
    PROVE  IsABag(B (+) SetToBag(S)) /\ DOMAIN (B (+) SetToBag(S)) = DOMAIN B \cup S
BY DEF IsABag, SetToBag, (+)

LEMMA Receiving ==
    ASSUME NEW B, IsABag(B), NEW m \in DOMAIN B
    PROVE  /\ IsABag(B (-) SetToBag({m})) /\ DOMAIN (B (-) SetToBag({m})) \subseteq DOMAIN B
           /\ \A x \in DOMAIN B : x # m => x \in DOMAIN (B (-) SetToBag({m}))
BY DEF IsABag, SetToBag, (-)

LEMMA Orphaning ==
    ASSUME TypeInv, NEW c \in Clients
    PROVE  /\ IsABag(Orphaned(c)) /\ DOMAIN Orphaned(c) \subseteq Callbacks
           /\ \A m \in DOMAIN Orphaned(c) : m.to # None => m \in DOMAIN calls /\ m.to # c
           /\ \A m \in DOMAIN calls : m.to # c => m \in DOMAIN Orphaned(c)
<1>1. IsABag(calls) /\ DOMAIN calls \subseteq Callbacks
  BY DEF TypeInv
<1>2. PICK mine : mine = {m \in DOMAIN calls : m.to = c}
  OBVIOUS
<1>3. PICK gone : gone = {[x EXCEPT !.to = None] : x \in mine}
  OBVIOUS
<1>4. PICK B1, B2 : /\ B1 = calls (-) [m \in mine |-> calls[m]]
                    /\ B2 = [m \in gone |-> calls[[m EXCEPT !.to = c]]]
  OBVIOUS
<1>5. Orphaned(c) = B1 (+) B2
  BY <1>2, <1>3, <1>4 DEF Orphaned, BagToSet
<1>6. IsABag(B1) /\ DOMAIN B1 = DOMAIN calls \ mine
  BY <1>1, <1>2, <1>4 DEF IsABag, (-)
<1>7. ASSUME NEW g \in gone
      PROVE  g \in Callbacks /\ g.to = None /\ [g EXCEPT !.to = c] \in DOMAIN calls
  <2>1. PICK x \in mine : g = [x EXCEPT !.to = None]
    BY <1>3
  <2>2. x \in Callbacks /\ x.to = c /\ x \in DOMAIN calls
    BY <1>1, <1>2
  <2>3. [g EXCEPT !.to = c] = x
    BY <2>1, <2>2 DEF Callbacks
  <2> QED BY <2>1, <2>2, <2>3 DEF Callbacks
<1>8. IsABag(B2) /\ DOMAIN B2 = gone
  BY <1>1, <1>4, <1>7 DEF IsABag
<1>9. IsABag(B1 (+) B2) /\ DOMAIN (B1 (+) B2) = DOMAIN B1 \cup DOMAIN B2
  BY <1>6, <1>8 DEF IsABag, (+)
<1> QED BY <1>1, <1>2, <1>5, <1>6, <1>7, <1>8, <1>9
-----------------------------------------------------------------------------
(* Frames. *)

LEMMA Constants ==
    /\ UserOf \in [Clients -> Users] /\ RootOf \in [Clients -> Dirs] /\ maxCallbackFailures \in Nat \ {0}
    /\ MaxClock \in Nat /\ MaxFaults \in Nat /\ None \notin Clients /\ None \notin Nat
    /\ None \notin [dir : Dirs] /\ None \notin CNodes /\ \A d \in Dirs : NamesIn[d] \subseteq Names
<1>1. CNodes \subseteq [fid : Nat, contentCached : BOOLEAN, contentUID : BOOLEAN, of : Nat, data : Nat]
  BY ClientCacheAssumption DEF CNodes
<1> QED BY <1>1, ClientCacheAssumption

LEMMA Typed1 ==
    ASSUME TypeInv, NEW c \in Clients, NEW d \in Dirs, NEW n \in Names
    PROVE  /\ tree[d][n] \in Files \cup {None} /\ cache[c][d][n] \in CNodes \cup {None}
           /\ curr[c] \in Dirs /\ pc[c] \in Labels /\ UserOf[c] \in Users
BY Constants DEF TypeInv

\* A client's command goes on.
LEMMA CommandMoves ==
    ASSUME TypeInv, RequestInv, NEW c \in Clients, NEW label \in Labels, NEW r, HasAtHand(label, r),
           pc' = [pc EXCEPT ![c] = label], req' = [req EXCEPT ![c] = r]
    PROVE  /\ pc' \in [Clients -> Labels] /\ req' \in [Clients -> Requests] /\ RequestInv'
           /\ \A x \in Clients : /\ pc'[x] = IF x = c THEN label ELSE pc[x]
                                 /\ req'[x] = IF x = c THEN r ELSE req[x]
<1>1. /\ pc' \in [Clients -> Labels]
      /\ \A x \in Clients : /\ pc'[x] = IF x = c THEN label ELSE pc[x]
                            /\ req'[x] = IF x = c THEN r ELSE req[x]
  BY DEF TypeInv
<1>2. r \in Requests
  BY DEF HasAtHand, Requests, Labels
<1> QED BY <1>1, <1>2 DEF TypeInv, RequestInv, HasAtHand

LEMMA AccountsKept ==
    ASSUME NEW c \in Clients, NEW d \in Dirs, NEW n \in Names, tree'[d][n].fid = tree[d][n].fid,
           <<c, tree[d][n].fid>> \in excused => <<c, tree[d][n].fid>> \in excused',
           \A m \in DOMAIN calls : m.to = c => m \in DOMAIN calls',
           \A w \in Clients : pc[w] = "closing" =>
               pc'[w] = "closing" /\ curr'[w] = curr[w] /\ req'[w] = req[w],
           Accounted(c, d, n)
    PROVE  Accounted(c, d, n)'
BY DEF Accounted

\* Steps that touch neither copies nor files: readers, writers and callbacks
\* go on as they are.
LEMMA CopiesKept ==
    ASSUME CopyInv, UNCHANGED <<cache, tree>>, excused \subseteq excused',
           \A m \in DOMAIN calls : m \in DOMAIN calls',
           \A w \in Clients : pc[w] = "closing" \/ pc'[w] \in {"reading", "downloaded"} =>
               pc'[w] = pc[w] /\ curr'[w] = curr[w] /\ req'[w] = req[w]
    PROVE  CopyInv'
<1>1. ASSUME NEW c \in Clients, NEW d \in Dirs, NEW n \in Names, Accounted(c, d, n)
      PROVE  Accounted(c, d, n)'
  BY <1>1, AccountsKept
<1>2. ASSUME NEW c \in Clients, NEW d \in Dirs, NEW n \in Names
      PROVE  CopyOK(c, d, n)'
  BY <1>1 DEF CopyInv, CopyOK
<1>3. ASSUME NEW c \in Clients
      PROVE  ReadOK(c)'
  <2>1. CASE pc'[c] \notin {"reading", "downloaded"}
    BY <2>1 DEF ReadOK
  <2>2. CASE pc'[c] \in {"reading", "downloaded"}
    <3>1. ReadOK(c) /\ pc'[c] = pc[c] /\ curr'[c] = curr[c] /\ req'[c] = req[c]
      BY <2>2 DEF CopyInv
    <3>2. Accounted(c, curr[c], req[c].name) => Accounted(c, curr[c], req[c].name)'
      BY <3>1 DEF Accounted
    <3> QED BY <3>1, <3>2 DEF ReadOK
  <2> QED BY <2>1, <2>2
<1> QED BY <1>2, <1>3 DEF CopyInv
-----------------------------------------------------------------------------
(* Sessions. *)

\* What a step may do to sessions without anybody noticing where they are.
SameSessions ==
    \A u \in Users : sessions'[u] # None =>
        /\ sessions[u] # None
        /\ sessions'[u].addr = sessions[u].addr /\ sessions'[u].root = sessions[u].root
        /\ sessions'[u].dir = sessions[u].dir

\* Nobody's session is moved, and whoever moves has no session to follow.
LEMMA FollowKept ==
    ASSUME FollowInv, SameSessions, strayed' = strayed,
           \A c \in Clients : pc'[c] \notin {"off", "registered"} =>
               pc[c] \notin {"off", "registered"} /\ Heading(c)' = Heading(c)
    PROVE  FollowInv'
<1> SUFFICES ASSUME NEW c \in Clients, NEW u, u = UserOf[c],
                    sessions'[u] # None, sessions'[u].addr = c
             PROVE  /\ sessions'[u].root = RootOf[c]
                    /\ pc'[c] \notin {"off", "registered"} /\ c \notin strayed'
                       => sessions'[u].dir = Heading(c)'
  BY DEF FollowInv
<1>1. /\ sessions[u] # None /\ sessions[u].addr = c /\ sessions'[u].root = sessions[u].root
      /\ sessions'[u].dir = sessions[u].dir
  BY Constants DEF SameSessions
<1>2. /\ sessions[u].root = RootOf[c]
      /\ pc[c] \notin {"off", "registered"} /\ c \notin strayed => sessions[u].dir = Heading(c)
  BY <1>1 DEF FollowInv
<1> QED BY <1>1, <1>2

LEMMA SessionTyped ==
    ASSUME TypeInv, NEW u \in Users
    PROVE  /\ sessions[u] \in Sessions \cup {None}
           /\ Touch(u) \in [Users -> Sessions \cup {None}]
           /\ CallbackFailed(u) \in [Users -> Sessions \cup {None}]
           /\ CallbackSucceeded(u) \in [Users -> Sessions \cup {None}]
           /\ \A S \in {Touch(u), CallbackFailed(u), CallbackSucceeded(u)} :
                sessions' = S => SameSessions
<1>1. sessions \in [Users -> Sessions \cup {None}] /\ sessions[u] \in Sessions \cup {None}
  BY DEF TypeInv
<1>2. CASE sessions[u] = None
  BY <1>1, <1>2 DEF Touch, CallbackFailed, CallbackSucceeded, SameSessions
<1>3. CASE sessions[u] # None
  <2>1. PICK t, s, k : /\ t = [sessions[u] EXCEPT !.fresh = TRUE]
                       /\ s = [sessions[u] EXCEPT !.failures = 0]
                       /\ k = [sessions[u] EXCEPT !.failures = @ + 1]
    OBVIOUS
  <2>2. /\ t \in Sessions /\ s \in Sessions
        /\ sessions[u].failures + 1 < maxCallbackFailures => k \in Sessions
    <3>1. sessions[u] \in Sessions
      BY <1>1, <1>3
    <3>2. PICK f : f = sessions[u].failures
      OBVIOUS
    <3>3. /\ f \in Nat /\ 0 \in 0 .. (maxCallbackFailures - 1)
          /\ f + 1 < maxCallbackFailures => f + 1 \in 0 .. (maxCallbackFailures - 1)
      BY <3>1, <3>2, Constants DEF Sessions
    <3>4. t \in Sessions
      BY <2>1, <3>1 DEF Sessions
    <3>5. s \in Sessions
      BY <2>1, <3>1, <3>3 DEF Sessions
    <3>6. f + 1 < maxCallbackFailures => k \in Sessions
      <4>1. k = [sessions[u] EXCEPT !.failures = f + 1]
        BY <2>1, <3>1, <3>2 DEF Sessions
      <4>2. PICK g : g = f + 1
        OBVIOUS
      <4>3. g \in 0 .. (maxCallbackFailures - 1) => [sessions[u] EXCEPT !.failures = g] \in Sessions
        BY <3>1 DEF Sessions
      <4> QED BY <3>3, <4>1, <4>2, <4>3
    <3> QED BY <3>2, <3>4, <3>5, <3>6
  <2>3. \A x \in {t, s, k} : /\ x.addr = sessions[u].addr /\ x.root = sessions[u].root
                             /\ x.dir = sessions[u].dir
    BY <1>1, <1>3, <2>1 DEF Sessions
  <2>4. Touch(u) = [sessions EXCEPT ![u] = t] /\ CallbackSucceeded(u) = [sessions EXCEPT ![u] = s]
    BY <1>3, <2>1 DEF Touch, CallbackSucceeded
  <2>5. CASE sessions[u].failures + 1 < maxCallbackFailures
    <3>1. CallbackFailed(u) = [sessions EXCEPT ![u] = k]
      <4>1. sessions[u].failures \in Nat
        BY <1>1, <1>3 DEF Sessions
      <4> QED BY <1>3, <2>1, <2>5, <4>1, Constants DEF CallbackFailed
    <3> QED BY <1>1, <1>3, <2>2, <2>3, <2>4, <2>5, <3>1 DEF SameSessions
  <2>6. CASE ~(sessions[u].failures + 1 < maxCallbackFailures)
    <3>1. CallbackFailed(u) = [sessions EXCEPT ![u] = None]
      <4>1. sessions[u].failures \in Nat
        BY <1>1, <1>3 DEF Sessions
      <4> QED BY <1>3, <2>6, <4>1, Constants DEF CallbackFailed
    <3> QED BY <1>1, <1>3, <2>2, <2>3, <2>4, <3>1 DEF SameSessions
  <2> QED BY <2>5, <2>6
<1> QED BY <1>1, <1>2, <1>3

LEMMA Moved ==
    ASSUME TypeInv, NEW root, NEW d \in Dirs, sessions' = MoveSessions(root, d)
    PROVE  /\ sessions' \in [Users -> Sessions \cup {None}]
           /\ \A u \in Users : sessions'[u] # None =>
                /\ sessions[u] # None
                /\ sessions'[u].addr = sessions[u].addr /\ sessions'[u].root = sessions[u].root
                /\ sessions'[u].dir = IF sessions[u].root = root THEN d ELSE sessions[u].dir
<1>1. \A u \in Users : sessions[u] \in Sessions \cup {None}
  BY DEF TypeInv
<1>2. ASSUME NEW u \in Users, sessions[u] # None, sessions[u].root = root
      PROVE  /\ [sessions[u] EXCEPT !.dir = d, !.fresh = TRUE] \in Sessions
             /\ [sessions[u] EXCEPT !.dir = d, !.fresh = TRUE].addr = sessions[u].addr
             /\ [sessions[u] EXCEPT !.dir = d, !.fresh = TRUE].root = sessions[u].root
             /\ [sessions[u] EXCEPT !.dir = d, !.fresh = TRUE].dir = d
  BY <1>1, <1>2 DEF Sessions
<1> QED BY <1>1, <1>2 DEF MoveSessions

LEMMA ConnectStep ==
    ASSUME CacheInv, NEW c \in Clients, Connect(c)
    PROVE  CacheInv'
<1>1. /\ pc[c] = "off" /\ pc' = [pc EXCEPT ![c] = "connecting"] /\ strayed' = strayed \ {c}
      /\ sessions' = [sessions EXCEPT ![UserOf[c]] = Session(c)]
      /\ excused' = {x \in excused : x[1] # c}
      /\ UNCHANGED <<tree, clock, calls, cache, curr, req, faults>>
  BY DEF Connect, Goto, RegisterClient
<1>2. TypeInv /\ RequestInv /\ StartInv /\ FollowInv /\ FidInv /\ CopyInv
  BY DEF CacheInv
<1>3. req[c] = None /\ curr[c] = RootOf[c] /\ \A d \in Dirs, n \in Names : cache[c][d][n] = None
  BY <1>1, <1>2 DEF RequestInv, HasAtHand, StartInv
<1>4. /\ pc' \in [Clients -> Labels] /\ \A x \in Clients : pc'[x] = IF x = c THEN "connecting" ELSE pc[x]
  BY <1>1, <1>2 DEF TypeInv, Labels
<1>5. Session(c) \in Sessions /\ Session(c).addr = c /\ Session(c).root = RootOf[c]
      /\ Session(c).dir = RootOf[c]
  BY Constants DEF Session, Sessions
<1>6. TypeInv'
  <2>1. sessions' \in [Users -> Sessions \cup {None}]
    BY <1>1, <1>2, <1>5, Constants DEF TypeInv
  <2>2. \A m \in DOMAIN calls : m.to # None => pc'[m.to] # "off"
    <3>1. \A m \in DOMAIN calls : m.to \in Clients \cup {None}
      BY <1>2 DEF TypeInv, Callbacks
    <3> QED BY <1>2, <1>4, <3>1 DEF TypeInv
  <2> QED BY <1>1, <1>2, <1>4, <2>1, <2>2 DEF TypeInv
<1>7. RequestInv' /\ StartInv' /\ FidInv'
  BY <1>1, <1>2, <1>3, <1>4 DEF RequestInv, HasAtHand, StartInv, FidInv
<1>8. FollowInv'
  <2>1. \A u \in Users : sessions'[u] = IF u = UserOf[c] THEN Session(c) ELSE sessions[u]
    BY <1>1, <1>2 DEF TypeInv
  <2>2. \A x \in Clients : UserOf[x] \in Users
    BY Constants
  <2> QED BY <1>1, <1>2, <1>3, <1>4, <1>5, <2>1, <2>2 DEF FollowInv, Heading
<1>9. CopyInv'
  <2>1. ASSUME NEW x \in Clients, x # c, NEW d \in Dirs, NEW n \in Names, Accounted(x, d, n)
        PROVE  Accounted(x, d, n)'
    <3>1. \A w \in Clients : pc[w] = "closing" =>
            pc'[w] = "closing" /\ curr'[w] = curr[w] /\ req'[w] = req[w]
      BY <1>1, <1>4
    <3>2. <<x, tree[d][n].fid>> \in excused => <<x, tree[d][n].fid>> \in excused'
      BY <1>1, <2>1
    <3> QED BY <1>1, <2>1, <3>1, <3>2, AccountsKept
  <2>2. ASSUME NEW x \in Clients, NEW d \in Dirs, NEW n \in Names
        PROVE  CopyOK(x, d, n)'
    <3>1. CASE x = c
      BY <1>1, <1>3, <3>1 DEF CopyOK
    <3>2. CASE x # c
      BY <1>1, <1>2, <2>1, <3>2 DEF CopyInv, CopyOK
    <3> QED BY <3>1, <3>2
  <2>3. ASSUME NEW x \in Clients
        PROVE  ReadOK(x)'
    <3>1. CASE pc'[x] \notin {"reading", "downloaded"}
      BY <3>1 DEF ReadOK
    <3>2. CASE pc'[x] \in {"reading", "downloaded"}
      <4>1. x # c /\ pc'[x] = pc[x] /\ ReadOK(x)
        BY <1>2, <1>4, <3>2 DEF CopyInv
      <4>2. PICK d, n : d = curr[x] /\ n = req[x].name
        OBVIOUS
      <4>3. d \in Dirs /\ n \in Names
        BY <1>2, <3>2, <4>1, <4>2, Typed1 DEF TypeInv, RequestInv, HasAtHand
      <4>4. Accounted(x, d, n) => Accounted(x, d, n)'
        BY <2>1, <4>1, <4>3
      <4>5. Accounted(x, curr[x], req[x].name) => Accounted(x, curr[x], req[x].name)'
        BY <1>1, <4>2, <4>4 DEF Accounted
      <4> QED BY <1>1, <4>1, <4>5 DEF ReadOK
    <3> QED BY <3>1, <3>2
  <2> QED BY <2>2, <2>3 DEF CopyInv
<1> QED BY <1>6, <1>7, <1>8, <1>9 DEF CacheInv

LEMMA Parts ==
    ASSUME CacheInv
    PROVE  TypeInv /\ RequestInv /\ StartInv /\ FollowInv /\ FidInv /\ CopyInv
BY DEF CacheInv

LEMMA StartKept ==
    ASSUME StartInv,
           \A c \in Clients : pc'[c] \in {"off", "connecting"} =>
               /\ pc[c] \in {"off", "connecting"} /\ curr'[c] = curr[c]
               /\ \A d \in Dirs, n \in Names : cache'[c][d][n] = cache[c][d][n]
    PROVE  StartInv'
BY DEF StartInv

\* Nobody goes, and nobody new is called who is not there.
LEMMA ListenersKept ==
    ASSUME TypeInv, \A c \in Clients : pc'[c] = "off" => pc[c] = "off",
           \A m \in DOMAIN calls' : m \in DOMAIN calls \/ m.to = None
    PROVE  \A m \in DOMAIN calls' : m.to # None => pc'[m.to] # "off"
BY DEF TypeInv, Callbacks

LEMMA FidsKept ==
    ASSUME FidInv, UNCHANGED <<tree, clock, cache>>,
           \A c \in Clients : pc'[c] = "downloaded" => pc[c] = "downloaded" /\ req'[c] = req[c]
    PROVE  FidInv'
BY DEF FidInv

\* A command that goes on without touching copies, files or callbacks.
LEMMA CommandStep ==
    ASSUME CacheInv, NEW c \in Clients, NEW label \in {"idle", "entering", "registered", "deleting"},
           NEW r, HasAtHand(label, r), pc[c] # "closing",
           pc' = [pc EXCEPT ![c] = label], req' = [req EXCEPT ![c] = r],
           UNCHANGED <<tree, clock, calls, cache, curr, excused>>,
           sessions' \in [Users -> Sessions \cup {None}], strayed' \subseteq Clients,
           faults' \in 0 .. MaxFaults
    PROVE  /\ TypeInv' /\ RequestInv' /\ StartInv' /\ FidInv' /\ CopyInv'
           /\ \A x \in Clients : /\ pc'[x] = IF x = c THEN label ELSE pc[x]
                                 /\ req'[x] = IF x = c THEN r ELSE req[x]
<1>1. TypeInv /\ RequestInv /\ StartInv /\ FidInv /\ CopyInv
  BY Parts
<1>2. label \in Labels /\ label \notin {"off", "connecting", "reading", "downloaded", "closing"}
  BY DEF Labels
<1>3. /\ pc' \in [Clients -> Labels] /\ req' \in [Clients -> Requests] /\ RequestInv'
      /\ \A x \in Clients : /\ pc'[x] = IF x = c THEN label ELSE pc[x]
                            /\ req'[x] = IF x = c THEN r ELSE req[x]
  BY <1>1, <1>2, CommandMoves
<1>4. TypeInv'
  <2>1. \A m \in DOMAIN calls' : m.to # None => pc'[m.to] # "off"
    BY <1>1, <1>2, <1>3, ListenersKept
  <2> QED BY <1>1, <1>3, <2>1 DEF TypeInv
<1>5. StartInv'
  BY <1>1, <1>2, <1>3, StartKept
<1>6. FidInv'
  BY <1>1, <1>2, <1>3, FidsKept
<1>7. CopyInv'
  BY <1>1, <1>2, <1>3, CopiesKept
<1> QED BY <1>3, <1>4, <1>5, <1>6, <1>7

\* A ChangeDir takes along whoever has selected the same root.
LEMMA FollowMoved ==
    ASSUME CacheInv, NEW c \in Clients, NEW d \in Dirs, sessions' = MoveSessions(RootOf[c], d),
           (strayed \ {c}) \cup Others(c) \subseteq strayed', curr' = curr,
           \A x \in Clients : x # c => pc'[x] = pc[x] /\ req'[x] = req[x],
           c \in strayed' \/ Heading(c)' = d
    PROVE  FollowInv'
<1> SUFFICES ASSUME NEW x \in Clients, NEW u, u = UserOf[x],
                    sessions'[u] # None, sessions'[u].addr = x
             PROVE  /\ sessions'[u].root = RootOf[x]
                    /\ pc'[x] \notin {"off", "registered"} /\ x \notin strayed'
                       => sessions'[u].dir = Heading(x)'
  BY DEF FollowInv
<1>1. /\ sessions[u] # None /\ sessions[u].addr = x /\ sessions'[u].root = sessions[u].root
      /\ sessions'[u].dir = IF sessions[u].root = RootOf[c] THEN d ELSE sessions[u].dir
  BY Parts, Moved, Constants
<1>2. /\ sessions[u].root = RootOf[x]
      /\ pc[x] \notin {"off", "registered"} /\ x \notin strayed => sessions[u].dir = Heading(x)
  BY <1>1, Parts DEF FollowInv
<1>3. CASE x = c
  BY <1>1, <1>2, <1>3
<1>4. CASE x # c /\ sessions[u].root = RootOf[c]
  BY <1>1, <1>2, <1>4 DEF Others
<1>5. CASE x # c /\ sessions[u].root # RootOf[c]
  BY <1>1, <1>2, <1>5 DEF Heading
<1> QED BY <1>3, <1>4, <1>5

LEMMA ChangeDirStep ==
    ASSUME CacheInv, NEW c \in Clients, ChangeDir(c)
    PROVE  CacheInv'
<1>1. PICK d \in Dirs :
         /\ pc[c] = "idle" /\ sessions' = MoveSessions(RootOf[c], d)
         /\ req' = [req EXCEPT ![c] = [dir |-> d]] /\ pc' = [pc EXCEPT ![c] = "entering"]
         /\ strayed' = (strayed \ {c}) \cup Others(c)
         /\ UNCHANGED <<tree, clock, calls, cache, curr, excused, faults>>
  BY DEF ChangeDir, Typed, Goto, Local, Reachable
<1>2. PICK r : r = [dir |-> d]
  OBVIOUS
<1>3. r \in [dir : Dirs] /\ r # None /\ r.dir = d /\ HasAtHand("entering", r)
  BY <1>2, Constants DEF HasAtHand
<1>4. /\ sessions' \in [Users -> Sessions \cup {None}] /\ strayed' \subseteq Clients
      /\ faults' \in 0 .. MaxFaults
  BY <1>1, Moved, Parts DEF TypeInv, Others
<1>5. TypeInv' /\ RequestInv' /\ StartInv' /\ FidInv' /\ CopyInv'
  BY <1>1, <1>2, <1>3, <1>4, CommandStep
<1>at. \A x \in Clients : /\ pc'[x] = IF x = c THEN "entering" ELSE pc[x]
                      /\ req'[x] = IF x = c THEN r ELSE req[x]
  BY <1>1, <1>2, <1>3, <1>4, Parts DEF TypeInv
<1>6. Heading(c)' = d
  BY <1>at, <1>3, <1>5 DEF Heading
<1>7. FollowInv'
  BY <1>at, <1>1, <1>5, <1>6, FollowMoved
<1> QED BY <1>5, <1>7 DEF CacheInv

LEMMA DownloadStep ==
    ASSUME CacheInv, NEW c \in Clients, Download(c)
    PROVE  CacheInv'
<1>1. PICK d \in Dirs :
         /\ pc[c] = "idle" /\ sessions' = MoveSessions(RootOf[c], d)
         /\ strayed' = strayed \cup Others(c) \cup {c}
         /\ UNCHANGED <<tree, clock, calls, cache, curr, pc, req, excused, faults>>
  BY DEF Download, Typed, client
<1>2. req[c] = None /\ HasAtHand("idle", None)
  BY <1>1, Parts DEF RequestInv, HasAtHand
<1>3. pc' = [pc EXCEPT ![c] = "idle"] /\ req' = [req EXCEPT ![c] = None]
  BY <1>1, <1>2, Parts DEF TypeInv
<1>4. /\ sessions' \in [Users -> Sessions \cup {None}] /\ strayed' \subseteq Clients
      /\ faults' \in 0 .. MaxFaults
  BY <1>1, Moved, Parts DEF TypeInv, Others
<1>5. TypeInv' /\ RequestInv' /\ StartInv' /\ FidInv' /\ CopyInv'
  BY <1>1, <1>2, <1>3, <1>4, CommandStep
<1>6. FollowInv'
  BY <1>1, FollowMoved
<1> QED BY <1>5, <1>6 DEF CacheInv

\* A cd that was acted on and not answered: what a download by path does.
LEMMA ChangeDirUnansweredStep ==
    ASSUME CacheInv, NEW c \in Clients, ChangeDirUnanswered(c)
    PROVE  CacheInv'
<1>1. PICK d \in Dirs :
         /\ pc[c] = "idle" /\ sessions' = MoveSessions(RootOf[c], d)
         /\ strayed' = strayed \cup Others(c) \cup {c}
         /\ UNCHANGED <<tree, clock, calls, cache, curr, pc, req, excused>>
  BY DEF ChangeDirUnanswered, Reachable, Typed, client
<1>2. req[c] = None /\ HasAtHand("idle", None)
  BY <1>1, Parts DEF RequestInv, HasAtHand
<1>3. pc' = [pc EXCEPT ![c] = "idle"] /\ req' = [req EXCEPT ![c] = None]
  BY <1>1, <1>2, Parts DEF TypeInv
<1>4. /\ sessions' \in [Users -> Sessions \cup {None}] /\ strayed' \subseteq Clients
      /\ faults' \in 0 .. MaxFaults
  <2>1. faults' \in 0 .. MaxFaults
    BY Parts, Constants DEF ChangeDirUnanswered, Fault, TypeInv
  <2> QED BY <1>1, <2>1, Moved, Parts DEF TypeInv, Others
<1>5. TypeInv' /\ RequestInv' /\ StartInv' /\ FidInv' /\ CopyInv'
  BY <1>1, <1>2, <1>3, <1>4, CommandStep
<1>6. FollowInv'
  BY <1>1, FollowMoved
<1> QED BY <1>5, <1>6 DEF CacheInv

LEMMA FollowClientStep ==
    ASSUME CacheInv, NEW c \in Clients, FollowClient(c)
    PROVE  CacheInv'
<1>1. /\ pc[c] = "registered" /\ sessions' = MoveSessions(RootOf[c], curr[c])
      /\ pc' = [pc EXCEPT ![c] = "entering"]
      /\ strayed' = (strayed \ {c}) \cup Others(c)
      /\ UNCHANGED <<tree, clock, calls, cache, curr, req, excused, faults>>
  BY DEF FollowClient, Goto
<1>2. req[c] = None /\ HasAtHand("entering", None) /\ curr[c] \in Dirs
  BY <1>1, Parts DEF TypeInv, RequestInv, HasAtHand
<1>3. req' = [req EXCEPT ![c] = None]
  BY <1>1, <1>2, Parts DEF TypeInv
<1>4. /\ sessions' \in [Users -> Sessions \cup {None}] /\ strayed' \subseteq Clients
      /\ faults' \in 0 .. MaxFaults
  BY <1>1, <1>2, Moved, Parts DEF TypeInv, Others
<1>5. TypeInv' /\ RequestInv' /\ StartInv' /\ FidInv' /\ CopyInv'
  BY <1>1, <1>2, <1>3, <1>4, CommandStep
<1>at. \A x \in Clients : /\ pc'[x] = IF x = c THEN "entering" ELSE pc[x]
                      /\ req'[x] = IF x = c THEN None ELSE req[x]
  BY <1>1, <1>2, <1>3, <1>4, Parts DEF TypeInv
<1>6. Heading(c)' = curr[c]
  BY <1>at, <1>1, <1>5 DEF Heading
<1>7. FollowInv'
  BY <1>at, <1>1, <1>2, <1>5, <1>6, FollowMoved
<1> QED BY <1>5, <1>7 DEF CacheInv

LEMMA ReRegisterStep ==
    ASSUME CacheInv, NEW c \in Clients, ReRegister(c)
    PROVE  CacheInv'
<1>1. PICK label : label = IF curr[c] = RootOf[c] THEN "entering" ELSE "registered"
  OBVIOUS
<1>2. /\ pc[c] = "idle" /\ pc' = [pc EXCEPT ![c] = label] /\ strayed' = strayed \ {c}
      /\ sessions' = [sessions EXCEPT ![UserOf[c]] = Session(c)]
      /\ UNCHANGED <<tree, clock, calls, cache, curr, req, excused, faults>>
  BY <1>1 DEF ReRegister, Typed, Goto, RegisterClient
<1>3. req[c] = None /\ HasAtHand(label, None) /\ label \in {"entering", "registered"}
  BY <1>1, <1>2, Parts DEF RequestInv, HasAtHand
<1>4. req' = [req EXCEPT ![c] = None]
  BY <1>2, <1>3, Parts DEF TypeInv
<1>5. Session(c) \in Sessions /\ Session(c).addr = c /\ Session(c).root = RootOf[c]
      /\ Session(c).dir = RootOf[c]
  BY Constants DEF Session, Sessions
<1>6. /\ sessions' \in [Users -> Sessions \cup {None}] /\ strayed' \subseteq Clients
      /\ faults' \in 0 .. MaxFaults
  BY <1>2, <1>5, Parts, Constants DEF TypeInv
<1>7. TypeInv' /\ RequestInv' /\ StartInv' /\ FidInv' /\ CopyInv'
  <2>1. label \in {"idle", "entering", "registered", "deleting"} /\ pc[c] # "closing"
    BY <1>2, <1>3
  <2> QED BY <1>2, <1>3, <1>4, <1>6, <2>1, CommandStep
<1>at. \A x \in Clients : /\ pc'[x] = IF x = c THEN label ELSE pc[x]
                      /\ req'[x] = IF x = c THEN None ELSE req[x]
  BY <1>2, <1>3, <1>4, <1>6, Parts DEF TypeInv
<1>8. FollowInv'
  <2>1. \A u \in Users : sessions'[u] = IF u = UserOf[c] THEN Session(c) ELSE sessions[u]
    BY <1>2, Parts DEF TypeInv
  <2>2. \A x \in Clients : UserOf[x] \in Users
    BY Constants
  <2> QED BY <1>at, <1>1, <1>2, <1>5, <1>7, <2>1, <2>2, Parts DEF FollowInv, Heading
<1> QED BY <1>7, <1>8 DEF CacheInv

LEMMA ReRegisterUnansweredStep ==
    ASSUME CacheInv, NEW c \in Clients, ReRegisterUnanswered(c)
    PROVE  CacheInv'
<1>1. /\ pc[c] = "idle" /\ pc' = [pc EXCEPT ![c] = "entering"]
      /\ UNCHANGED <<tree, clock, calls, cache, curr, req, excused>>
  BY DEF ReRegisterUnanswered, Typed, Goto
<1>2. req[c] = None /\ HasAtHand("entering", None)
  BY <1>1, Parts DEF RequestInv, HasAtHand
<1>3. req' = [req EXCEPT ![c] = None]
  BY <1>1, <1>2, Parts DEF TypeInv
<1>4. faults' \in 0 .. MaxFaults
  BY Parts, Constants DEF ReRegisterUnanswered, Fault, TypeInv
<1>5. Session(c) \in Sessions /\ Session(c).addr = c /\ Session(c).root = RootOf[c]
      /\ Session(c).dir = RootOf[c]
  BY Constants DEF Session, Sessions
<1>6. \/ UNCHANGED <<sessions, strayed>>
      \/ /\ sessions' = [sessions EXCEPT ![UserOf[c]] = Session(c)]
         /\ strayed' = IF curr[c] = RootOf[c] THEN strayed \ {c} ELSE strayed \cup {c}
  BY DEF ReRegisterUnanswered
<1>7. sessions' \in [Users -> Sessions \cup {None}] /\ strayed' \subseteq Clients
  BY <1>5, <1>6, Parts, Constants DEF TypeInv
<1>8. /\ TypeInv' /\ RequestInv' /\ StartInv' /\ FidInv' /\ CopyInv'
      /\ \A x \in Clients : /\ pc'[x] = IF x = c THEN "entering" ELSE pc[x]
                            /\ req'[x] = IF x = c THEN None ELSE req[x]
  <2>1. "entering" \in {"idle", "entering", "registered", "deleting"} /\ pc[c] # "closing"
    BY <1>1
  <2> QED BY <1>1, <1>2, <1>3, <1>4, <1>7, <2>1, CommandStep
<1>9. \A x \in Clients : UserOf[x] \in Users /\ Heading(x)' = Heading(x)
  BY <1>1, <1>2, <1>8, Constants DEF Heading
<1>10. FollowInv'
  <2>1. CASE UNCHANGED <<sessions, strayed>>
    BY <1>1, <1>8, <1>9, <2>1, Parts DEF FollowInv
  <2>2. CASE /\ sessions' = [sessions EXCEPT ![UserOf[c]] = Session(c)]
             /\ strayed' = IF curr[c] = RootOf[c] THEN strayed \ {c} ELSE strayed \cup {c}
    <3>1. \A u \in Users : sessions'[u] = IF u = UserOf[c] THEN Session(c) ELSE sessions[u]
      BY <2>2, Parts DEF TypeInv
    <3>2. Heading(c) = curr[c]
      BY <1>2 DEF Heading
    <3> QED BY <1>5, <1>8, <1>9, <2>2, <3>1, <3>2, Parts DEF FollowInv
  <2> QED BY <1>6, <2>1, <2>2
<1> QED BY <1>8, <1>10 DEF CacheInv

LEMMA FallIdleStep ==
    ASSUME CacheInv, NEW u \in Users, FallIdle(u)
    PROVE  CacheInv'
<1>1. /\ faults' \in 0 .. MaxFaults /\ sessions[u] # None
      /\ sessions' = [sessions EXCEPT ![u].fresh = FALSE]
      /\ UNCHANGED <<tree, clock, calls, cache, curr, pc, req, excused, strayed>>
  BY Parts, Constants DEF FallIdle, Fault, TypeInv, client, history
<1>2. PICK s : s = [sessions[u] EXCEPT !.fresh = FALSE]
  OBVIOUS
<1>3. /\ s \in Sessions /\ s.addr = sessions[u].addr /\ s.root = sessions[u].root
      /\ s.dir = sessions[u].dir
  BY <1>1, <1>2, Parts, SessionTyped DEF Sessions
<1>4. sessions' = [sessions EXCEPT ![u] = s]
  BY <1>1, <1>2
<1>5. sessions' \in [Users -> Sessions \cup {None}] /\ SameSessions
  BY <1>1, <1>3, <1>4, Parts DEF TypeInv, SameSessions
<1>6. TypeInv' /\ RequestInv' /\ StartInv' /\ FidInv' /\ CopyInv'
  <2>1. TypeInv'
    BY <1>1, <1>5, Parts DEF TypeInv
  <2>2. RequestInv' /\ StartInv' /\ FidInv'
    BY <1>1, Parts DEF RequestInv, StartInv, FidInv
  <2>3. CopyInv'
    BY <1>1, Parts, CopiesKept
  <2> QED BY <2>1, <2>2, <2>3
<1>7. FollowInv'
  BY <1>1, <1>5, Parts, FollowKept DEF Heading
<1> QED BY <1>6, <1>7 DEF CacheInv

LEMMA FindFileStep ==
    ASSUME CacheInv, NEW c \in Clients, FindFile(c)
    PROVE  CacheInv'
<1>1. PICK n \in Names :
         /\ pc[c] = "idle" /\ tree[curr[c]][n] # None
         /\ req' = [req EXCEPT ![c] = [name |-> n, file |-> tree[curr[c]][n]]]
         /\ pc' = [pc EXCEPT ![c] = "deleting"]
         /\ UNCHANGED <<tree, clock, calls, sessions, cache, curr, excused, strayed, faults>>
  BY DEF FindFile, Typed, Goto, Local, server, history
<1>2. PICK r : r = [name |-> n, file |-> tree[curr[c]][n]]
  OBVIOUS
<1>3. HasAtHand("deleting", r)
  <2>1. curr[c] \in Dirs /\ tree[curr[c]][n] \in Files
    BY <1>1, Parts DEF TypeInv
  <2> QED BY <1>2, <2>1 DEF HasAtHand
<1>4. /\ sessions' \in [Users -> Sessions \cup {None}] /\ strayed' \subseteq Clients
      /\ faults' \in 0 .. MaxFaults
  BY <1>1, Parts DEF TypeInv
<1>5. TypeInv' /\ RequestInv' /\ StartInv' /\ FidInv' /\ CopyInv'
  BY <1>1, <1>2, <1>3, <1>4, CommandStep
<1>at. \A x \in Clients : /\ pc'[x] = IF x = c THEN "deleting" ELSE pc[x]
                      /\ req'[x] = IF x = c THEN r ELSE req[x]
  BY <1>1, <1>2, <1>3, <1>4, Parts DEF TypeInv
<1>6. FollowInv'
  BY <1>at, <1>1, <1>5, Parts, FollowKept DEF Heading, SameSessions
<1> QED BY <1>5, <1>6 DEF CacheInv
-----------------------------------------------------------------------------
(* Copies. *)

\* A node that stays, of a file that stays, goes or is being written to.
LEMMA CopyStays ==
    ASSUME NEW c \in Clients, NEW d \in Dirs, NEW n \in Names, CopyOK(c, d, n),
           cache'[c][d][n] = cache[c][d][n],
           tree'[d][n] # None => /\ tree[d][n] # None /\ tree'[d][n].fid = tree[d][n].fid
                                 /\ tree'[d][n] = tree[d][n] \/ Accounted(c, d, n)',
           <<c, tree[d][n].fid>> \in excused => <<c, tree[d][n].fid>> \in excused',
           tree'[d][n] # None /\ Accounted(c, d, n) => Accounted(c, d, n)'
    PROVE  CopyOK(c, d, n)'
BY DEF CopyOK

LEMMA ReadStays ==
    ASSUME NEW c \in Clients, ReadOK(c), NEW d \in Dirs, NEW n \in Names, d = curr[c], n = req[c].name,
           pc'[c] = pc[c], curr'[c] = curr[c], req'[c] = req[c],
           cache'[c][d][n] = cache[c][d][n],
           tree'[d][n] # None => \/ tree'[d][n] = tree[d][n]
                                 \/ Accounted(c, d, n)'
                                 \/ pc[c] = "downloaded" => tree'[d][n].fid # req[c].file.fid,
           <<c, req[c].file.fid>> \in excused => <<c, req[c].file.fid>> \in excused',
           tree'[d][n] # None /\ tree'[d][n] = tree[d][n] /\ Accounted(c, d, n) => Accounted(c, d, n)'
    PROVE  ReadOK(c)'
<1>1. curr'[c] = d /\ req'[c].name = n
  OBVIOUS
<1>2. /\ pc[c] \in {"reading", "downloaded"} => cache[c][d][n] \in CNodes /\ ~cache[c][d][n].contentCached
      /\ pc[c] = "downloaded" =>
           /\ cache[c][d][n].fid # req[c].file.fid => <<c, req[c].file.fid>> \in excused
           /\ tree[d][n] # None /\ tree[d][n].fid = req[c].file.fid /\ cache[c][d][n].contentUID
                /\ req[c].file.data # tree[d][n].data
              => Accounted(c, d, n)
  BY DEF ReadOK
<1>3. /\ pc'[c] \in {"reading", "downloaded"} => cache'[c][d][n] \in CNodes /\ ~cache'[c][d][n].contentCached
      /\ pc'[c] = "downloaded" =>
           /\ cache'[c][d][n].fid # req'[c].file.fid => <<c, req'[c].file.fid>> \in excused'
           /\ tree'[d][n] # None /\ tree'[d][n].fid = req'[c].file.fid /\ cache'[c][d][n].contentUID
                /\ req'[c].file.data # tree'[d][n].data
              => Accounted(c, d, n)'
  BY <1>2
<1> QED BY <1>1, <1>3 DEF ReadOK, Accounted

LEMMA Reading ==
    ASSUME CacheInv, NEW c \in Clients, pc[c] \in {"reading", "downloaded", "created", "closing", "deleting"}
    PROVE  /\ curr[c] \in Dirs /\ req[c].name \in Names /\ req[c] \in [name : Names, file : Files \cup {None}]
           /\ pc[c] # "reading" => req[c].file \in Files
BY Parts DEF TypeInv, RequestInv, HasAtHand

\* Steps that add reasons and touch copies of nobody but c.
LEMMA OthersKept ==
    ASSUME CacheInv, NEW c \in Clients, tree' = tree, excused \subseteq excused',
           \A m \in DOMAIN calls : m \in DOMAIN calls',
           \A x \in Clients : x # c => /\ pc'[x] = pc[x] /\ req'[x] = req[x] /\ curr'[x] = curr[x]
                                       /\ \A e \in Dirs, k \in Names : cache'[x][e][k] = cache[x][e][k],
           pc[c] # "closing"
    PROVE  /\ \A x \in Clients, e \in Dirs, k \in Names : Accounted(x, e, k) => Accounted(x, e, k)'
           /\ \A x \in Clients : x # c => ReadOK(x)'
           /\ \A x \in Clients, e \in Dirs, k \in Names :
                cache'[x][e][k] = cache[x][e][k] => CopyOK(x, e, k)'
<1>1. ASSUME NEW x \in Clients, NEW e \in Dirs, NEW k \in Names, Accounted(x, e, k)
      PROVE  Accounted(x, e, k)'
  <2>1. \A w \in Clients : pc[w] = "closing" =>
            pc'[w] = "closing" /\ curr'[w] = curr[w] /\ req'[w] = req[w]
    OBVIOUS
  <2> QED BY <1>1, <2>1, AccountsKept
<1>2. ASSUME NEW x \in Clients, x # c
      PROVE  ReadOK(x)'
  <2>1. CASE pc[x] \notin {"reading", "downloaded"}
    BY <1>2, <2>1 DEF ReadOK
  <2>2. CASE pc[x] \in {"reading", "downloaded"}
    <3>1. PICK d, n : d = curr[x] /\ n = req[x].name
      OBVIOUS
    <3>2. d \in Dirs /\ n \in Names
      BY <2>2, <3>1, Reading
    <3>3. ReadOK(x)
      BY Parts DEF CopyInv
    <3>4. Accounted(x, d, n) => Accounted(x, d, n)'
      BY <1>1, <3>2
    <3> QED BY <1>2, <3>1, <3>2, <3>3, <3>4, ReadStays
  <2> QED BY <2>1, <2>2
<1>3. ASSUME NEW x \in Clients, NEW e \in Dirs, NEW k \in Names, cache'[x][e][k] = cache[x][e][k]
      PROVE  CopyOK(x, e, k)'
  <2>1. CopyOK(x, e, k)
    BY Parts DEF CopyInv
  <2>2. Accounted(x, e, k) => Accounted(x, e, k)'
    BY <1>1
  <2> QED BY <1>3, <2>1, <2>2, CopyStays
<1> QED BY <1>1, <1>2, <1>3

LEMMA ListStep ==
    ASSUME CacheInv, NEW c \in Clients, List(c)
    PROVE  CacheInv'
<1>1. PICK d : d = Heading(c)
  OBVIOUS
<1>2. /\ pc[c] \in {"connecting", "entering"} /\ curr' = [curr EXCEPT ![c] = d]
      /\ cache' = [cache EXCEPT ![c][d] = Populate(cache[c][d], tree[d])]
      /\ pc' = [pc EXCEPT ![c] = "idle"] /\ req' = [req EXCEPT ![c] = None]
      /\ UNCHANGED <<tree, clock, sessions, calls, excused, strayed, faults>>
  BY <1>1, Parts DEF List, Done, Goto, Local, server, history, TypeInv
<1>3. d \in Dirs /\ d = Heading(c)
  BY <1>1, <1>2, Parts, Constants DEF TypeInv, RequestInv, HasAtHand, Heading
<1>4. HasAtHand("idle", None) /\ "idle" \in Labels
  BY DEF HasAtHand, Labels
<1>5. /\ pc' \in [Clients -> Labels] /\ req' \in [Clients -> Requests] /\ RequestInv'
  BY <1>2, <1>4, Parts, CommandMoves
<1>at. \A x \in Clients : /\ pc'[x] = IF x = c THEN "idle" ELSE pc[x]
                          /\ req'[x] = IF x = c THEN None ELSE req[x]
                          /\ curr'[x] = IF x = c THEN d ELSE curr[x]
  BY <1>2, Parts DEF TypeInv
<1>6. PICK f : f = Populate(cache[c][d], tree[d])
  OBVIOUS
<1>7. /\ f \in [Names -> CNodes \cup {None}]
      /\ \A n \in Names : f[n] # None =>
           /\ tree[d][n] # None /\ f[n].fid = tree[d][n].fid
           /\ \/ f[n].of = 0 /\ ~f[n].contentCached
              \/ /\ cache[c][d][n] # None /\ f[n].of = cache[c][d][n].of
                 /\ f[n].contentCached = cache[c][d][n].contentCached
                 /\ f[n].contentUID = cache[c][d][n].contentUID /\ f[n].data = cache[c][d][n].data
  <2>1. f = [n \in Names |-> f[n]]
    BY <1>6 DEF Populate
  <2>2. ASSUME NEW n \in Names
        PROVE  /\ f[n] \in CNodes \cup {None}
               /\ f[n] # None =>
                    /\ tree[d][n] # None /\ f[n].fid = tree[d][n].fid
                    /\ \/ f[n].of = 0 /\ ~f[n].contentCached
                       \/ /\ cache[c][d][n] # None /\ f[n].of = cache[c][d][n].of
                          /\ f[n].contentCached = cache[c][d][n].contentCached
                          /\ f[n].contentUID = cache[c][d][n].contentUID
                          /\ f[n].data = cache[c][d][n].data
    <3>1. /\ tree[d][n] \in Files \cup {None} /\ cache[c][d][n] \in CNodes \cup {None}
      BY <1>3, Parts, Typed1
    <3>2. f[n] = IF tree[d][n] = None THEN None
                 ELSE IF cache[c][d][n] # None THEN [cache[c][d][n] EXCEPT !.fid = tree[d][n].fid]
                 ELSE NewNode(tree[d][n].fid)
      BY <1>6 DEF Populate
    <3>3. CASE tree[d][n] = None
      BY <3>2, <3>3
    <3>4. CASE tree[d][n] # None /\ cache[c][d][n] # None
      BY <3>1, <3>2, <3>4 DEF Files, CNodes
    <3>5. CASE tree[d][n] # None /\ cache[c][d][n] = None
      BY <3>1, <3>2, <3>5, Constants DEF Files, CNodes, NewNode
    <3> QED BY <3>3, <3>4, <3>5
  <2> QED BY <2>1, <2>2
<1>8. /\ cache' \in [Clients -> [Dirs -> [Names -> CNodes \cup {None}]]]
      /\ \A x \in Clients, e \in Dirs, k \in Names :
           cache'[x][e][k] = IF x = c /\ e = d THEN f[k] ELSE cache[x][e][k]
  BY <1>2, <1>3, <1>6, <1>7, Parts DEF TypeInv
<1>9. TypeInv'
  <2>1. \A m \in DOMAIN calls' : m.to # None => pc'[m.to] # "off"
    BY <1>2, <1>at, Parts, ListenersKept
  <2>2. curr' \in [Clients -> Dirs]
    BY <1>2, <1>3, Parts DEF TypeInv
  <2> QED BY <1>2, <1>5, <1>8, <2>1, <2>2, Parts DEF TypeInv
<1>10. StartInv'
  BY <1>at, <1>8, Parts, StartKept
<1>11. FidInv'
  <2>1. \A x \in Clients, e \in Dirs, k \in Names : cache'[x][e][k] # None => cache'[x][e][k].of <= clock'
    BY <1>2, <1>3, <1>7, <1>8, Parts DEF FidInv, TypeInv
  <2> QED BY <1>2, <1>at, <2>1, Parts DEF FidInv
<1>12. FollowInv'
  <2>1. \A x \in Clients : pc'[x] \notin {"off", "registered"} =>
          pc[x] \notin {"off", "registered"} /\ Heading(x)' = Heading(x)
    BY <1>2, <1>at, <1>3 DEF Heading
  <2> QED BY <1>2, <2>1, Parts, FollowKept DEF SameSessions
<1>13. CopyInv'
  <2>0. \A x \in Clients : x # c => /\ pc'[x] = pc[x] /\ req'[x] = req[x] /\ curr'[x] = curr[x]
                                   /\ \A e \in Dirs, k \in Names : cache'[x][e][k] = cache[x][e][k]
    BY <1>at, <1>8
  <2>1. /\ \A x \in Clients, e \in Dirs, k \in Names : Accounted(x, e, k) => Accounted(x, e, k)'
        /\ \A x \in Clients : x # c => ReadOK(x)'
        /\ \A x \in Clients, e \in Dirs, k \in Names :
             cache'[x][e][k] = cache[x][e][k] => CopyOK(x, e, k)'
    BY <1>2, <2>0, OthersKept
  <2>2. ReadOK(c)'
    BY <1>at DEF ReadOK
  <2>3. ASSUME NEW k \in Names
        PROVE  CopyOK(c, d, k)'
    <3>1. CopyOK(c, d, k)
      BY <1>3, Parts DEF CopyInv
    <3>2. cache'[c][d][k] = f[k]
      BY <1>3, <1>8
    <3> QED BY <1>2, <1>3, <1>7, <2>1, <3>1, <3>2 DEF CopyOK
  <2> QED BY <1>8, <2>1, <2>2, <2>3 DEF CopyInv
<1> QED BY <1>5, <1>9, <1>10, <1>11, <1>12, <1>13 DEF CacheInv

Working == {"idle", "reading", "downloaded", "created", "closing", "deleting"}

\* A client that stays where it is goes on with its command.
LEMMA WorkGoesOn ==
    ASSUME CacheInv, NEW c \in Clients, NEW label \in Working, pc[c] \in Working,
           NEW r, HasAtHand(label, r),
           pc' = [pc EXCEPT ![c] = label], req' = [req EXCEPT ![c] = r],
           curr' = curr, strayed' = strayed, SameSessions,
           \A x \in Clients : x # c => \A d \in Dirs, n \in Names : cache'[x][d][n] = cache[x][d][n]
    PROVE  /\ pc' \in [Clients -> Labels] /\ req' \in [Clients -> Requests] /\ curr' \in [Clients -> Dirs]
           /\ RequestInv' /\ StartInv' /\ FollowInv'
<1>1. label \in Labels /\ label \notin {"off", "connecting", "registered", "entering"}
  BY DEF Working, Labels
<1>2. pc[c] \notin {"off", "connecting", "registered", "entering"}
  BY DEF Working
<1>3. pc' \in [Clients -> Labels] /\ req' \in [Clients -> Requests] /\ RequestInv'
  BY <1>1, Parts, CommandMoves
<1>4. \A x \in Clients : /\ pc'[x] = IF x = c THEN label ELSE pc[x]
                         /\ req'[x] = IF x = c THEN r ELSE req[x]
  BY Parts DEF TypeInv
<1>5. StartInv'
  BY <1>1, <1>4, Parts, StartKept
<1>6. FollowInv'
  <2>1. \A x \in Clients : pc'[x] \notin {"off", "registered"} =>
          pc[x] \notin {"off", "registered"} /\ Heading(x)' = Heading(x)
    BY <1>1, <1>2, <1>4 DEF Heading
  <2> QED BY <2>1, Parts, FollowKept
<1> QED BY <1>3, <1>5, <1>6, Parts DEF TypeInv

LEMMA WorkTyped ==
    ASSUME CacheInv, NEW c \in Clients, NEW label \in Working, NEW r,
           pc' = [pc EXCEPT ![c] = label], req' = [req EXCEPT ![c] = r]
    PROVE  /\ \A x \in Clients : /\ pc'[x] = IF x = c THEN label ELSE pc[x]
                                 /\ req'[x] = IF x = c THEN r ELSE req[x]
           /\ \A x \in Clients : pc'[x] = "off" => pc[x] = "off"
BY Parts DEF TypeInv, Working

LEMMA ReadFileStep ==
    ASSUME CacheInv, NEW c \in Clients, ReadFile(c)
    PROVE  CacheInv'
<1>1. PICK n \in Names :
         /\ pc[c] = "idle"
         /\ cache[c][curr[c]][n] # None /\ ~cache[c][curr[c]][n].contentCached
         /\ cache' = [cache EXCEPT ![c][curr[c]][n].contentUID = TRUE]
         /\ req' = [req EXCEPT ![c] = [name |-> n, file |-> None]]
         /\ pc' = [pc EXCEPT ![c] = "reading"]
         /\ UNCHANGED <<tree, clock, sessions, calls, curr, excused, strayed, faults>>
  BY DEF ReadFile, Typed, Goto, Local, server, history
<1>2. PICK d, v, r : /\ d = curr[c] /\ v = [cache[c][curr[c]][n] EXCEPT !.contentUID = TRUE]
                     /\ r = [name |-> n, file |-> None]
  OBVIOUS
<1>3. /\ d \in Dirs /\ cache[c][d][n] \in CNodes /\ v \in CNodes /\ ~v.contentCached
      /\ v.of = cache[c][d][n].of
  <2>1. d \in Dirs /\ cache[c][d][n] \in CNodes
    BY <1>1, <1>2, Parts DEF TypeInv
  <2> QED BY <1>1, <1>2, <2>1 DEF CNodes
<1>4. HasAtHand("reading", r) /\ r.name = n
  BY <1>2 DEF HasAtHand
<1>5. cache' = [cache EXCEPT ![c][d][n] = v]
  BY <1>1, <1>2
<1>6. /\ cache' \in [Clients -> [Dirs -> [Names -> CNodes \cup {None}]]]
      /\ \A x \in Clients, e \in Dirs, k \in Names :
           cache'[x][e][k] = IF x = c /\ e = d /\ k = n THEN v ELSE cache[x][e][k]
  <2>1. TypeInv /\ v \in CNodes \cup {None}
    BY <1>3, Parts
  <2> QED BY <1>3, <1>5, <2>1 DEF TypeInv
<1>7. /\ \A x \in Clients : /\ pc'[x] = IF x = c THEN "reading" ELSE pc[x]
                            /\ req'[x] = IF x = c THEN r ELSE req[x]
      /\ \A x \in Clients : pc'[x] = "off" => pc[x] = "off"
  <2>1. req' = [req EXCEPT ![c] = r] /\ "reading" \in Working
    BY <1>1, <1>2 DEF Working
  <2> QED BY <1>1, <2>1, WorkTyped
<1>8. /\ pc' \in [Clients -> Labels] /\ req' \in [Clients -> Requests] /\ curr' \in [Clients -> Dirs]
      /\ RequestInv' /\ StartInv' /\ FollowInv'
  <2>1. SameSessions /\ "reading" \in Working /\ pc[c] \in Working
    BY <1>1 DEF SameSessions, Working
  <2> QED BY <1>1, <1>2, <1>4, <1>6, <2>1, WorkGoesOn
<1>9. TypeInv'
  <2>1. \A m \in DOMAIN calls' : m.to # None => pc'[m.to] # "off"
    BY <1>1, <1>7, Parts, ListenersKept
  <2> QED BY <1>1, <1>6, <1>8, <2>1, Parts DEF TypeInv
<1>10. FidInv'
  BY <1>1, <1>3, <1>6, <1>7, Parts DEF FidInv
<1>11. CopyInv'
  <2>1. \A x \in Clients : x # c => /\ pc'[x] = pc[x] /\ req'[x] = req[x] /\ curr'[x] = curr[x]
                                   /\ \A e \in Dirs, k \in Names : cache'[x][e][k] = cache[x][e][k]
    BY <1>1, <1>6, <1>7
  <2>2. /\ \A x \in Clients : x # c => ReadOK(x)'
        /\ \A x \in Clients, e \in Dirs, k \in Names :
             cache'[x][e][k] = cache[x][e][k] => CopyOK(x, e, k)'
    BY <1>1, <2>1, OthersKept
  <2>3. ReadOK(c)'
    <3>1. pc'[c] = "reading" /\ curr'[c] = d /\ req'[c].name = n /\ cache'[c][d][n] = v
      BY <1>1, <1>2, <1>3, <1>4, <1>6, <1>7
    <3> QED BY <1>3, <3>1 DEF ReadOK
  <2>4. CopyOK(c, d, n)'
    BY <1>3, <1>6 DEF CopyOK
  <2> QED BY <1>6, <2>2, <2>3, <2>4 DEF CopyInv
<1> QED BY <1>8, <1>9, <1>10, <1>11 DEF CacheInv

LEMMA FinishReadStep ==
    ASSUME CacheInv, NEW c \in Clients, FinishRead(c)
    PROVE  CacheInv'
<1>1. PICK d, n, file, v :
        /\ d = curr[c] /\ n = req[c].name /\ file = req[c].file
        /\ v = [cache[c][d][n] EXCEPT !.contentCached = TRUE, !.of = file.fid, !.data = file.data]
  OBVIOUS
<1>2. pc[c] = "downloaded"
  BY DEF FinishRead
<1>3. d \in Dirs /\ n \in Names /\ file \in Files /\ ReadOK(c) /\ file.fid <= clock
  BY <1>1, <1>2, Reading, Parts DEF CopyInv, FidInv
<1>4. /\ cache' = [cache EXCEPT ![c][d][n] = v]
      /\ pc' = [pc EXCEPT ![c] = "idle"] /\ req' = [req EXCEPT ![c] = None]
      /\ UNCHANGED <<tree, clock, sessions, calls, curr, excused, strayed, faults>>
  BY <1>1, <1>3, Parts DEF FinishRead, Done, Goto, Local, server, history, TypeInv
<1>5. cache[c][d][n] \in CNodes
  BY <1>1, <1>2, <1>3 DEF ReadOK
<1>6. /\ v \in CNodes /\ v.fid = cache[c][d][n].fid /\ v.of = file.fid /\ v.data = file.data
      /\ v.contentUID = cache[c][d][n].contentUID
  <2>1. PICK i, k : i = file.fid /\ k = file.data
    OBVIOUS
  <2>2. i \in 0 .. MaxClock /\ k \in 0 .. MaxClock
    BY <1>3, <2>1, Constants DEF Files
  <2>3. v = [cache[c][d][n] EXCEPT !.contentCached = TRUE, !.of = i, !.data = k]
    BY <1>1, <2>1
  <2> QED BY <1>5, <2>1, <2>2, <2>3 DEF CNodes
<1>7. /\ cache' \in [Clients -> [Dirs -> [Names -> CNodes \cup {None}]]]
      /\ \A x \in Clients, e \in Dirs, k \in Names :
           cache'[x][e][k] = IF x = c /\ e = d /\ k = n THEN v ELSE cache[x][e][k]
  <2>1. TypeInv /\ v \in CNodes \cup {None}
    BY <1>6, Parts
  <2> QED BY <1>3, <1>4, <2>1 DEF TypeInv
<1>8. /\ \A x \in Clients : /\ pc'[x] = IF x = c THEN "idle" ELSE pc[x]
                            /\ req'[x] = IF x = c THEN None ELSE req[x]
      /\ \A x \in Clients : pc'[x] = "off" => pc[x] = "off"
  BY <1>4, WorkTyped DEF Working
<1>9. /\ pc' \in [Clients -> Labels] /\ req' \in [Clients -> Requests] /\ curr' \in [Clients -> Dirs]
      /\ RequestInv' /\ StartInv' /\ FollowInv'
  <2>1. SameSessions /\ "idle" \in Working /\ pc[c] \in Working /\ HasAtHand("idle", None)
    BY <1>2, <1>4 DEF SameSessions, Working, HasAtHand
  <2> QED BY <1>4, <1>7, <2>1, WorkGoesOn
<1>10. TypeInv'
  <2>1. \A m \in DOMAIN calls' : m.to # None => pc'[m.to] # "off"
    BY <1>4, <1>8, Parts, ListenersKept
  <2> QED BY <1>4, <1>7, <1>9, <2>1, Parts DEF TypeInv
<1>11. FidInv'
  BY <1>3, <1>4, <1>6, <1>7, <1>8, Parts DEF FidInv
<1>12. CopyInv'
  <2>1. \A x \in Clients : x # c => /\ pc'[x] = pc[x] /\ req'[x] = req[x] /\ curr'[x] = curr[x]
                                   /\ \A e \in Dirs, k \in Names : cache'[x][e][k] = cache[x][e][k]
    BY <1>4, <1>7, <1>8
  <2>2. /\ \A x \in Clients, e \in Dirs, k \in Names : Accounted(x, e, k) => Accounted(x, e, k)'
        /\ \A x \in Clients : x # c => ReadOK(x)'
        /\ \A x \in Clients, e \in Dirs, k \in Names :
             cache'[x][e][k] = cache[x][e][k] => CopyOK(x, e, k)'
    BY <1>2, <1>4, <2>1, OthersKept
  <2>3. ReadOK(c)'
    BY <1>8 DEF ReadOK
  <2>4. CopyOK(c, d, n)'
    <3>1. /\ cache[c][d][n].fid # file.fid => <<c, file.fid>> \in excused
          /\ tree[d][n] # None /\ tree[d][n].fid = file.fid /\ cache[c][d][n].contentUID
               /\ file.data # tree[d][n].data
             => Accounted(c, d, n)
      BY <1>1, <1>2, <1>3 DEF ReadOK
    <3>2. cache'[c][d][n] = v
      BY <1>3, <1>7
    <3> QED BY <1>3, <1>4, <1>6, <2>2, <3>1, <3>2 DEF CopyOK
  <2> QED BY <1>7, <2>2, <2>3, <2>4 DEF CopyInv
<1> QED BY <1>9, <1>10, <1>11, <1>12 DEF CacheInv

LEMMA DownloadFileStep ==
    ASSUME CacheInv, NEW c \in Clients, DownloadFile(c)
    PROVE  CacheInv'
<1>1. PICK d, n, file, node :
        /\ d = curr[c] /\ n = req[c].name /\ file = tree[d][n] /\ node = cache[c][d][n]
  OBVIOUS
<1>2. /\ pc[c] = "reading"
      /\ UNCHANGED <<tree, clock, sessions, calls, cache, curr, strayed, faults>>
  BY DEF DownloadFile, server
<1>3. /\ d \in Dirs /\ n \in Names /\ ReadOK(c) /\ file \in Files \cup {None}
      /\ req[c] \in [name : Names, file : {None}]
  BY <1>1, <1>2, Reading, Parts DEF CopyInv, TypeInv, RequestInv, HasAtHand
<1>4. node \in CNodes /\ ~node.contentCached
  BY <1>1, <1>2, <1>3 DEF ReadOK
<1>5. CASE file = None
  <2>1. /\ pc' = [pc EXCEPT ![c] = "idle"] /\ req' = [req EXCEPT ![c] = None] /\ excused' = excused
    BY <1>1, <1>2, <1>5 DEF DownloadFile, Done, Goto, Local
  <2>2. TypeInv' /\ RequestInv' /\ StartInv' /\ FidInv' /\ CopyInv'
    <3>1. /\ sessions' \in [Users -> Sessions \cup {None}] /\ strayed' \subseteq Clients
          /\ faults' \in 0 .. MaxFaults
      BY <1>2, Parts DEF TypeInv
    <3>2. HasAtHand("idle", None) /\ pc[c] # "closing"
      BY <1>2 DEF HasAtHand
    <3> QED BY <1>2, <2>1, <3>1, <3>2, CommandStep
  <2>3. FollowInv'
    <3>1. SameSessions /\ "idle" \in Working /\ pc[c] \in Working /\ HasAtHand("idle", None)
      BY <1>2 DEF SameSessions, Working, HasAtHand
    <3> QED BY <1>2, <2>1, <3>1, WorkGoesOn
  <2> QED BY <2>2, <2>3 DEF CacheInv
<1>6. CASE file # None
  <2>1. PICK r : r = [req[c] EXCEPT !.file = file]
    OBVIOUS
  <2>2. /\ pc' = [pc EXCEPT ![c] = "downloaded"] /\ req' = [req EXCEPT ![c] = r]
        /\ excused' = IF file.fid = node.fid THEN excused \ {<<c, file.fid>>}
                      ELSE excused \cup {<<c, file.fid>>}
    BY <1>1, <1>2, <1>6, <2>1 DEF DownloadFile, Goto, Local
  <2>3. file \in Files /\ r \in [name : Names, file : Files] /\ r.name = n /\ r.file = file
    BY <1>1, <1>3, <1>6, <2>1
  <2>4. file.fid \in 1 .. MaxClock
    BY <2>3 DEF Files
  <2>5. /\ \A x \in Clients : /\ pc'[x] = IF x = c THEN "downloaded" ELSE pc[x]
                              /\ req'[x] = IF x = c THEN r ELSE req[x]
        /\ \A x \in Clients : pc'[x] = "off" => pc[x] = "off"
    BY <2>2, WorkTyped DEF Working
  <2>6. /\ pc' \in [Clients -> Labels] /\ req' \in [Clients -> Requests] /\ curr' \in [Clients -> Dirs]
        /\ RequestInv' /\ StartInv' /\ FollowInv'
    <3>1. SameSessions /\ "downloaded" \in Working /\ pc[c] \in Working /\ HasAtHand("downloaded", r)
      BY <1>2, <2>3 DEF SameSessions, Working, HasAtHand
    <3> QED BY <1>2, <2>2, <3>1, WorkGoesOn
  <2>7. TypeInv'
    <3>1. \A m \in DOMAIN calls' : m.to # None => pc'[m.to] # "off"
      BY <1>2, <2>5, Parts, ListenersKept
    <3>2. excused' \subseteq Clients \X (1 .. MaxClock)
      BY <2>2, <2>4, Parts DEF TypeInv
    <3> QED BY <1>2, <2>6, <3>1, <3>2, Parts DEF TypeInv
  <2>8. FidInv'
    <3>1. file.fid <= clock
      BY <1>1, <1>3, <1>6, Parts DEF FidInv
    <3> QED BY <1>2, <2>3, <2>5, <3>1, Parts DEF FidInv
  <2>9. ASSUME NEW x \in Clients, NEW e \in Dirs, NEW k \in Names, tree[e][k] # None,
               ~(x = c /\ e = d /\ k = n)
        PROVE  /\ <<x, tree[e][k].fid>> \in excused => <<x, tree[e][k].fid>> \in excused'
               /\ Accounted(x, e, k) => Accounted(x, e, k)'
    <3>1. <<x, tree[e][k].fid>> # <<c, file.fid>>
      BY <1>1, <1>3, <1>6, <2>9, Parts DEF FidInv
    <3>2. <<x, tree[e][k].fid>> \in excused => <<x, tree[e][k].fid>> \in excused'
      BY <2>2, <3>1
    <3>3. \A w \in Clients : pc[w] = "closing" =>
            pc'[w] = "closing" /\ curr'[w] = curr[w] /\ req'[w] = req[w]
      BY <1>2, <2>5
    <3> QED BY <1>2, <3>2, <3>3, AccountsKept
  <2>10. ASSUME NEW x \in Clients, NEW e \in Dirs, NEW k \in Names
         PROVE  CopyOK(x, e, k)'
    <3>1. CASE x = c /\ e = d /\ k = n
      BY <1>1, <1>2, <1>4, <3>1 DEF CopyOK
    <3>2. CASE tree[e][k] = None
      BY <1>2, <3>2 DEF CopyOK
    <3>3. CASE tree[e][k] # None /\ ~(x = c /\ e = d /\ k = n)
      <4>1. CopyOK(x, e, k)
        BY Parts DEF CopyInv
      <4>2. /\ <<x, tree[e][k].fid>> \in excused => <<x, tree[e][k].fid>> \in excused'
            /\ Accounted(x, e, k) => Accounted(x, e, k)'
        BY <2>9, <3>3
      <4> QED BY <1>2, <3>3, <4>1, <4>2, CopyStays
    <3> QED BY <3>1, <3>2, <3>3
  <2>11. ReadOK(c)'
    <3>1. node.fid # file.fid => <<c, file.fid>> \in excused'
      BY <2>2
    <3> QED BY <1>1, <1>2, <1>4, <2>3, <2>5, <3>1 DEF ReadOK
  <2>12. ASSUME NEW x \in Clients, x # c
         PROVE  ReadOK(x)'
    <3>1. CASE pc[x] \notin {"reading", "downloaded"}
      BY <2>5, <2>12, <3>1 DEF ReadOK
    <3>2. CASE pc[x] \in {"reading", "downloaded"}
      <4>1. PICK e, k : e = curr[x] /\ k = req[x].name
        OBVIOUS
      <4>2. e \in Dirs /\ k \in Names /\ ReadOK(x)
        BY <3>2, <4>1, Reading, Parts DEF CopyInv
      <4>3. <<x, req[x].file.fid>> \in excused => <<x, req[x].file.fid>> \in excused'
        BY <2>2, <2>12
      <4>4. CASE tree[e][k] = None
        BY <1>2, <2>5, <2>12, <4>1, <4>2, <4>3, <4>4 DEF ReadOK
      <4>5. CASE tree[e][k] # None
        <5>1. Accounted(x, e, k) => Accounted(x, e, k)'
          BY <2>9, <2>12, <4>2, <4>5
        <5> QED BY <1>2, <2>5, <2>12, <4>1, <4>2, <4>3, <5>1, ReadStays
      <4> QED BY <4>4, <4>5
    <3> QED BY <3>1, <3>2
  <2>13. CopyInv'
    BY <2>10, <2>11, <2>12 DEF CopyInv
  <2> QED BY <2>6, <2>7, <2>8, <2>13 DEF CacheInv
<1> QED BY <1>3, <1>5, <1>6
-----------------------------------------------------------------------------
(* Files. *)

LEMMA Announced ==
    ASSUME CacheInv, NEW d \in Dirs, NEW origin, NEW fid \in (1 .. MaxClock) \cup {None},
           SendInvalidates(d, origin, fid), \A x \in Clients : pc'[x] = "off" => pc[x] = "off"
    PROVE  /\ IsABag(calls') /\ DOMAIN calls' \subseteq Callbacks
           /\ \A m \in DOMAIN calls : m \in DOMAIN calls'
           /\ \A m \in DOMAIN calls' : m.to # None => pc'[m.to] # "off"
           /\ \A u \in NotifyTargets(d, origin) : pc[sessions[u].addr] # "off" =>
                \E m \in DOMAIN calls' : m.to = sessions[u].addr /\ m.fid = fid
<1>1. PICK S : S = {[to |-> IF pc[sessions[u].addr] # "off" THEN sessions[u].addr ELSE None, user |-> u,
                     fid |-> fid] : u \in NotifyTargets(d, origin)}
  OBVIOUS
<1>2. calls' = calls (+) SetToBag(S)
  BY <1>1 DEF SendInvalidates, Up
<1>3. IsABag(calls') /\ DOMAIN calls' = DOMAIN calls \cup S
  BY <1>2, Parts, Sending DEF TypeInv
<1>4. ASSUME NEW u \in NotifyTargets(d, origin)
      PROVE  u \in Users /\ sessions[u] \in Sessions /\ sessions[u].addr \in Clients
  BY Parts DEF NotifyTargets, TypeInv, Sessions
<1>5. ASSUME NEW m \in S
      PROVE  m \in Callbacks /\ (m.to # None => m.to \in Clients /\ pc[m.to] # "off")
  <2>1. PICK u \in NotifyTargets(d, origin) :
          m = [to |-> IF pc[sessions[u].addr] # "off" THEN sessions[u].addr ELSE None, user |-> u,
               fid |-> fid]
    BY <1>1, <1>5
  <2> QED BY <1>4, <2>1, Constants DEF Callbacks
<1>6. \A u \in NotifyTargets(d, origin) : pc[sessions[u].addr] # "off" =>
        \E m \in S : m.to = sessions[u].addr /\ m.fid = fid
  <2> SUFFICES ASSUME NEW u \in NotifyTargets(d, origin), pc[sessions[u].addr] # "off"
               PROVE  \E m \in S : m.to = sessions[u].addr /\ m.fid = fid
    OBVIOUS
  <2>1. PICK m : m = [to |-> IF pc[sessions[u].addr] # "off" THEN sessions[u].addr ELSE None,
                      user |-> u, fid |-> fid]
    OBVIOUS
  <2>2. m \in S /\ m.to = sessions[u].addr /\ m.fid = fid
    BY <1>1, <2>1
  <2> QED BY <2>2
<1>7. \A m \in DOMAIN calls : m \in Callbacks /\ (m.to # None => m.to \in Clients /\ pc[m.to] # "off")
  BY Parts DEF TypeInv, Callbacks
<1> QED BY <1>3, <1>5, <1>6, <1>7

\* Every node but those of the file at d, n is as it was; so is the rest of
\* the tree.
LEMMA OtherFilesKept ==
    ASSUME CacheInv, NEW c \in Clients, NEW d \in Dirs, NEW n \in Names, excused \subseteq excused',
           \A m \in DOMAIN calls : m \in DOMAIN calls',
           curr' = curr, \A x \in Clients : x # c => pc'[x] = pc[x] /\ req'[x] = req[x],
           pc[c] = "closing" => curr[c] = d /\ req[c].name = n,
           pc'[c] \notin {"reading", "downloaded"},
           \A e \in Dirs, k \in Names : ~(e = d /\ k = n) => tree'[e][k] = tree[e][k],
           \A x \in Clients, e \in Dirs, k \in Names :
               ~(x = c /\ e = d /\ k = n) => cache'[x][e][k] = cache[x][e][k]
    PROVE  /\ \A x \in Clients, e \in Dirs, k \in Names :
                ~(e = d /\ k = n) => CopyOK(x, e, k)'
           /\ \A x \in Clients : ~(curr[x] = d /\ req[x].name = n) => ReadOK(x)'
<1>1. ASSUME NEW x \in Clients, NEW e \in Dirs, NEW k \in Names, ~(e = d /\ k = n), Accounted(x, e, k)
      PROVE  Accounted(x, e, k)'
  <2>1. tree'[e][k] = tree[e][k]
    BY <1>1
  <2> QED BY <1>1, <2>1 DEF Accounted
<1>2. ASSUME NEW x \in Clients, NEW e \in Dirs, NEW k \in Names, ~(e = d /\ k = n)
      PROVE  CopyOK(x, e, k)'
  <2>1. CopyOK(x, e, k)
    BY Parts DEF CopyInv
  <2>2. tree'[e][k] = tree[e][k] /\ cache'[x][e][k] = cache[x][e][k]
    BY <1>2
  <2>3. Accounted(x, e, k) => Accounted(x, e, k)'
    BY <1>1, <1>2
  <2> QED BY <2>1, <2>2, <2>3, CopyStays
<1>3. ASSUME NEW x \in Clients, ~(curr[x] = d /\ req[x].name = n)
      PROVE  ReadOK(x)'
  <2>1. CASE pc'[x] \notin {"reading", "downloaded"}
    BY <2>1 DEF ReadOK
  <2>2. CASE pc'[x] \in {"reading", "downloaded"}
    <3>1. x # c /\ pc'[x] = pc[x] /\ req'[x] = req[x] /\ curr'[x] = curr[x]
      BY <2>2
    <3>2. PICK e, k : e = curr[x] /\ k = req[x].name
      OBVIOUS
    <3>3. e \in Dirs /\ k \in Names /\ ReadOK(x)
      BY <2>2, <3>1, <3>2, Reading, Parts DEF CopyInv
    <3>4. tree'[e][k] = tree[e][k] /\ cache'[x][e][k] = cache[x][e][k]
      BY <1>3, <3>2, <3>3
    <3>5. Accounted(x, e, k) => Accounted(x, e, k)'
      BY <1>1, <1>3, <3>2, <3>3
    <3> QED BY <3>1, <3>2, <3>3, <3>4, <3>5, ReadStays
  <2> QED BY <2>1, <2>2
<1> QED BY <1>2, <1>3

LEMMA FilesAfter ==
    ASSUME TypeInv, NEW d \in Dirs, NEW n \in Names, NEW f \in Files \cup {None},
           tree' = [tree EXCEPT ![d][n] = f]
    PROVE  /\ tree' \in [Dirs -> [Names -> Files \cup {None}]]
           /\ \A e \in Dirs, k \in Names : tree'[e][k] = IF e = d /\ k = n THEN f ELSE tree[e][k]
BY DEF TypeInv

LEMMA DeleteFileStep ==
    ASSUME CacheInv, NEW c \in Clients, DeleteFile(c)
    PROVE  CacheInv'
<1>1. PICK d, n : d = curr[c] /\ n = req[c].name
  OBVIOUS
<1>2. /\ pc[c] = "deleting" /\ pc' = [pc EXCEPT ![c] = "idle"] /\ req' = [req EXCEPT ![c] = None]
      /\ UNCHANGED <<clock, sessions, curr, excused, strayed>>
  BY DEF DeleteFile, Done, Goto, Local, history
<1>f. faults' \in 0 .. MaxFaults
  BY Parts, Constants DEF DeleteFile, OnReply, Fault, TypeInv
<1>3. d \in Dirs /\ n \in Names
  BY <1>1, <1>2, Reading
<1>4. SameSessions /\ "idle" \in Working /\ pc[c] \in Working /\ HasAtHand("idle", None)
  BY <1>2 DEF SameSessions, Working, HasAtHand
<1>5. CASE UNCHANGED <<tree, calls, cache>>
  <2>1. TypeInv' /\ RequestInv' /\ StartInv' /\ FidInv' /\ CopyInv'
    <3>1. /\ sessions' \in [Users -> Sessions \cup {None}] /\ strayed' \subseteq Clients
          /\ faults' \in 0 .. MaxFaults /\ pc[c] # "closing"
      BY <1>2, <1>f, Parts DEF TypeInv
    <3> QED BY <1>2, <1>4, <1>5, <3>1, CommandStep
  <2>2. FollowInv'
    BY <1>2, <1>4, <1>5, WorkGoesOn
  <2> QED BY <2>1, <2>2 DEF CacheInv
<1>6. CASE /\ tree' = [tree EXCEPT ![d][n] = None]
           /\ SendInvalidates(d, UserOf[c], None)
           /\ cache' = [cache EXCEPT ![c][d][n] = None] \/ cache' = cache
  <2>v. PICK v : v = IF cache' = cache THEN cache[c][d][n] ELSE None
    OBVIOUS
  <2>1. /\ tree' \in [Dirs -> [Names -> Files \cup {None}]]
        /\ \A e \in Dirs, k \in Names : tree'[e][k] = IF e = d /\ k = n THEN None ELSE tree[e][k]
    BY <1>3, <1>6, Parts DEF TypeInv
  <2>2. /\ cache' \in [Clients -> [Dirs -> [Names -> CNodes \cup {None}]]]
        /\ \A x \in Clients, e \in Dirs, k \in Names :
             cache'[x][e][k] = IF x = c /\ e = d /\ k = n THEN v ELSE cache[x][e][k]
    <3>1. cache \in [Clients -> [Dirs -> [Names -> CNodes \cup {None}]]]
      BY Parts DEF TypeInv
    <3>2. CASE cache' = cache
      BY <1>3, <2>v, <3>1, <3>2
    <3>3. CASE cache' # cache
      <4>1. cache' = [cache EXCEPT ![c][d][n] = None] /\ v = None
        BY <1>6, <2>v, <3>3
      <4> QED BY <1>3, <3>1, <4>1
    <3> QED BY <3>2, <3>3
  <2>3. /\ \A x \in Clients : /\ pc'[x] = IF x = c THEN "idle" ELSE pc[x]
                              /\ req'[x] = IF x = c THEN None ELSE req[x]
        /\ \A x \in Clients : pc'[x] = "off" => pc[x] = "off"
    BY <1>2, <1>4, WorkTyped
  <2>4. /\ IsABag(calls') /\ DOMAIN calls' \subseteq Callbacks
        /\ \A m \in DOMAIN calls : m \in DOMAIN calls'
        /\ \A m \in DOMAIN calls' : m.to # None => pc'[m.to] # "off"
    BY <1>3, <1>6, <2>3, Announced
  <2>5. /\ pc' \in [Clients -> Labels] /\ req' \in [Clients -> Requests] /\ curr' \in [Clients -> Dirs]
        /\ RequestInv' /\ StartInv' /\ FollowInv'
    BY <1>2, <1>4, <2>2, WorkGoesOn
  <2>6. TypeInv'
    BY <1>2, <1>f, <2>1, <2>2, <2>4, <2>5, Parts DEF TypeInv
  <2>7. FidInv'
    <3>1. \A e \in Dirs, k \in Names : tree'[e][k] # None => tree'[e][k] = tree[e][k]
      BY <2>1
    <3>2. \A x \in Clients, e \in Dirs, k \in Names :
            cache'[x][e][k] # None => cache'[x][e][k] = cache[x][e][k]
      BY <2>v, <2>2
    <3>3. \A x \in Clients : pc'[x] = "downloaded" => pc[x] = "downloaded" /\ req'[x] = req[x]
      BY <2>3
    <3> QED BY <1>2, <3>1, <3>2, <3>3, Parts DEF FidInv
  <2>8. /\ \A x \in Clients, e \in Dirs, k \in Names :
             ~(e = d /\ k = n) => CopyOK(x, e, k)'
        /\ \A x \in Clients : ~(curr[x] = d /\ req[x].name = n) => ReadOK(x)'
    <3>1. /\ \A e \in Dirs, k \in Names : ~(e = d /\ k = n) => tree'[e][k] = tree[e][k]
          /\ \A x \in Clients, e \in Dirs, k \in Names :
               ~(x = c /\ e = d /\ k = n) => cache'[x][e][k] = cache[x][e][k]
          /\ \A x \in Clients : x # c => pc'[x] = pc[x] /\ req'[x] = req[x]
          /\ pc'[c] \notin {"reading", "downloaded"} /\ pc[c] # "closing"
      BY <1>2, <2>1, <2>2, <2>3
    <3> QED BY <1>2, <1>3, <2>4, <3>1, OtherFilesKept
  <2>9. \A x \in Clients : CopyOK(x, d, n)'
    BY <1>3, <2>1 DEF CopyOK
  <2>10. ASSUME NEW x \in Clients, curr[x] = d, req[x].name = n
         PROVE  ReadOK(x)'
    <3>1. CASE x = c
      BY <2>3, <3>1 DEF ReadOK
    <3>2. CASE x # c
      <4>1. /\ pc'[x] = pc[x] /\ req'[x] = req[x] /\ curr'[x] = curr[x]
            /\ cache'[x][d][n] = cache[x][d][n] /\ tree'[d][n] = None /\ ReadOK(x)
        BY <1>2, <1>3, <2>1, <2>2, <2>3, <3>2, Parts DEF CopyInv
      <4> QED BY <1>2, <2>10, <4>1 DEF ReadOK
    <3> QED BY <3>1, <3>2
  <2>11. CopyInv'
    BY <2>8, <2>9, <2>10 DEF CopyInv
  <2> QED BY <2>5, <2>6, <2>7, <2>11 DEF CacheInv
<1> QED BY <1>1, <1>5, <1>6 DEF DeleteFile, OnReply

LEMMA WriteChunksStep ==
    ASSUME CacheInv, NEW c \in Clients, WriteChunks(c)
    PROVE  CacheInv'
<1>1. PICK d, n : d = curr[c] /\ n = req[c].name
  OBVIOUS
<1>2. /\ pc[c] = "created" /\ sessions' = Touch(UserOf[c])
      /\ UNCHANGED <<clock, calls, cache, curr, excused, strayed, faults>>
  BY DEF WriteChunks, history
<1>3. d \in Dirs /\ n \in Names /\ req[c] \in [name : Names, file : Files]
  BY <1>1, <1>2, Reading, Parts DEF RequestInv, HasAtHand
<1>4. sessions' \in [Users -> Sessions \cup {None}] /\ SameSessions
  BY <1>2, Parts, SessionTyped, Constants
<1>5. CASE tree[d][n] = None
  <2>1. pc' = [pc EXCEPT ![c] = "idle"] /\ req' = [req EXCEPT ![c] = None] /\ tree' = tree
    BY <1>1, <1>5 DEF WriteChunks, Done, Goto, Local
  <2>2. "idle" \in Working /\ pc[c] \in Working /\ HasAtHand("idle", None)
    BY <1>2 DEF Working, HasAtHand
  <2>3. TypeInv' /\ RequestInv' /\ StartInv' /\ FidInv' /\ CopyInv'
    <3>1. strayed' \subseteq Clients /\ faults' \in 0 .. MaxFaults /\ pc[c] # "closing"
      BY <1>2, Parts DEF TypeInv
    <3> QED BY <1>2, <1>4, <2>1, <2>2, <3>1, CommandStep
  <2>4. FollowInv'
    BY <1>2, <1>4, <2>1, <2>2, WorkGoesOn
  <2> QED BY <2>3, <2>4 DEF CacheInv
<1>6. CASE tree[d][n] # None
  <2>1. PICK f : f = [tree[d][n] EXCEPT !.data = req[c].file.data]
    OBVIOUS
  <2>2. /\ tree' = [tree EXCEPT ![d][n] = f] /\ pc' = [pc EXCEPT ![c] = "closing"] /\ req' = req
    BY <1>1, <1>3, <1>6, <2>1, Parts DEF WriteChunks, Goto, TypeInv
  <2>3. tree[d][n] \in Files /\ f \in Files /\ f.fid = tree[d][n].fid
    <3>1. tree[d][n] \in Files /\ req[c].file.data \in 0 .. MaxClock
      BY <1>3, <1>6, Parts DEF TypeInv, Files
    <3> QED BY <2>1, <3>1 DEF Files
  <2>4. req' = [req EXCEPT ![c] = req[c]]
    BY <2>2, Parts DEF TypeInv
  <2>5. "closing" \in Working /\ pc[c] \in Working /\ HasAtHand("closing", req[c])
    BY <1>2, <1>3 DEF Working, HasAtHand
  <2>6. /\ \A x \in Clients : /\ pc'[x] = IF x = c THEN "closing" ELSE pc[x]
                              /\ req'[x] = req[x]
        /\ \A x \in Clients : pc'[x] = "off" => pc[x] = "off"
    BY <2>2, <2>5, Parts DEF TypeInv
  <2>7. /\ tree' \in [Dirs -> [Names -> Files \cup {None}]]
        /\ \A e \in Dirs, k \in Names : tree'[e][k] = IF e = d /\ k = n THEN f ELSE tree[e][k]
    <3>1. TypeInv /\ f \in Files \cup {None}
      BY <2>3, Parts
    <3> QED BY <1>3, <2>2, <3>1 DEF TypeInv
  <2>8. /\ pc' \in [Clients -> Labels] /\ req' \in [Clients -> Requests] /\ curr' \in [Clients -> Dirs]
        /\ RequestInv' /\ StartInv' /\ FollowInv'
    BY <1>2, <1>4, <2>2, <2>4, <2>5, WorkGoesOn
  <2>9. TypeInv'
    <3>1. \A m \in DOMAIN calls' : m.to # None => pc'[m.to] # "off"
      BY <1>2, <2>6, Parts, ListenersKept
    <3> QED BY <1>2, <1>4, <2>7, <2>8, <3>1, Parts DEF TypeInv
  <2>10. FidInv'
    <3>1. \A e \in Dirs, k \in Names : tree'[e][k] # None =>
            tree[e][k] # None /\ tree'[e][k].fid = tree[e][k].fid
      BY <1>6, <2>3, <2>7
    <3> QED BY <1>2, <2>6, <3>1, Parts DEF FidInv
  <2>11. /\ \A x \in Clients, e \in Dirs, k \in Names :
              ~(e = d /\ k = n) => CopyOK(x, e, k)'
         /\ \A x \in Clients : ~(curr[x] = d /\ req[x].name = n) => ReadOK(x)'
    <3>1. /\ \A e \in Dirs, k \in Names : ~(e = d /\ k = n) => tree'[e][k] = tree[e][k]
          /\ \A x \in Clients : x # c => pc'[x] = pc[x] /\ req'[x] = req[x]
          /\ pc'[c] \notin {"reading", "downloaded"} /\ pc[c] # "closing"
      BY <1>2, <2>6, <2>7
    <3> QED BY <1>2, <1>3, <3>1, OtherFilesKept
  <2>12. \A x \in Clients : Accounted(x, d, n)'
    BY <1>1, <1>2, <2>6 DEF Accounted
  <2>13. ASSUME NEW x \in Clients
         PROVE  CopyOK(x, d, n)'
    <3>1. CopyOK(x, d, n)
      BY <1>3, Parts DEF CopyInv
    <3>2. tree[d][n] # None /\ tree'[d][n].fid = tree[d][n].fid
      BY <1>3, <1>6, <2>3, <2>7
    <3> QED BY <1>2, <1>3, <2>12, <3>1, <3>2, CopyStays
  <2>14. ASSUME NEW x \in Clients, curr[x] = d, req[x].name = n
         PROVE  ReadOK(x)'
    <3>1. CASE x = c
      BY <2>6, <3>1 DEF ReadOK
    <3>2. CASE x # c
      <4>1. ReadOK(x) /\ pc'[x] = pc[x] /\ curr'[x] = curr[x] /\ req'[x] = req[x]
        BY <1>2, <2>6, <3>2, Parts DEF CopyInv
      <4> QED BY <1>2, <1>3, <2>12, <2>14, <4>1, ReadStays
    <3> QED BY <3>1, <3>2
  <2>15. CopyInv'
    BY <2>11, <2>13, <2>14 DEF CopyInv
  <2> QED BY <2>8, <2>9, <2>10, <2>15 DEF CacheInv
<1> QED BY <1>5, <1>6

LEMMA CreateFileStep ==
    ASSUME CacheInv, NEW c \in Clients, CreateFile(c)
    PROVE  CacheInv'
<1>1. PICK d, cmd, n, file :
         /\ d = curr[c] /\ n \in NamesIn[d] /\ pc[c] = "idle" /\ clock < MaxClock /\ clock' = clock + 1
         /\ file = IF tree[d][n] = None THEN NewFile(clock') ELSE tree[d][n]
         /\ tree' = [tree EXCEPT ![d][n] = file]
         /\ SendInvalidates(d, None, None)
         /\ IF cmd = "create" THEN cache' = AddNode(c, n, file.fid) /\ Done(c)
            ELSE /\ Local(c, [name |-> n, file |-> [file EXCEPT !.data = clock']])
                 /\ Goto(c, "created") /\ UNCHANGED cache
         /\ UNCHANGED <<sessions, curr, excused, strayed, faults>>
  BY DEF CreateFile, history
<1>2. d \in Dirs /\ n \in Names
  BY <1>1, Parts, Constants DEF TypeInv
<1>3. /\ clock \in Nat /\ clock' \in 1 .. MaxClock /\ clock' \in 0 .. MaxClock
      /\ \A i \in Nat : i <= clock => i # clock' /\ i <= clock'
  BY <1>1, Parts, Constants DEF TypeInv
<1>4. file \in Files /\ (tree[d][n] = None => file.fid = clock')
  <2>1. CASE tree[d][n] = None
    BY <1>1, <1>3, <2>1, Constants DEF NewFile, Files
  <2>2. CASE tree[d][n] # None
    BY <1>1, <1>2, <2>2, Parts DEF TypeInv
  <2> QED BY <2>1, <2>2
<1>5. PICK v : v = NewNode(file.fid)
  OBVIOUS
<1>6. v \in CNodes /\ ~v.contentCached /\ v.of = 0
  BY <1>4, <1>5, Constants DEF Files, CNodes, NewNode
<1>7. PICK label, r :
        /\ label \in Working /\ label \notin {"reading", "downloaded", "closing"} /\ HasAtHand(label, r)
        /\ pc' = [pc EXCEPT ![c] = label] /\ req' = [req EXCEPT ![c] = r]
        /\ cache' = [cache EXCEPT ![c][d][n] = v] \/ cache' = cache
  <2>1. CASE cmd = "create"
    <3>1. /\ cache' = [cache EXCEPT ![c][d][n] = v]
          /\ pc' = [pc EXCEPT ![c] = "idle"] /\ req' = [req EXCEPT ![c] = None]
      BY <1>1, <1>5, <2>1 DEF AddNode, Done, Goto, Local
    <3>2. "idle" \in Working /\ HasAtHand("idle", None)
      BY DEF Working, HasAtHand
    <3> QED BY <3>1, <3>2
  <2>2. CASE cmd # "create"
    <3>1. PICK r : r = [name |-> n, file |-> [file EXCEPT !.data = clock']]
      OBVIOUS
    <3>2. pc' = [pc EXCEPT ![c] = "created"] /\ req' = [req EXCEPT ![c] = r] /\ cache' = cache
      BY <1>1, <2>2, <3>1 DEF Goto, Local
    <3>3. [file EXCEPT !.data = clock'] \in Files
      BY <1>3, <1>4 DEF Files
    <3>4. "created" \in Working /\ HasAtHand("created", r)
      BY <1>2, <3>1, <3>3 DEF Working, HasAtHand
    <3> QED BY <3>2, <3>4
  <2> QED BY <2>1, <2>2
<1>8. /\ \A x \in Clients : /\ pc'[x] = IF x = c THEN label ELSE pc[x]
                            /\ req'[x] = IF x = c THEN r ELSE req[x]
      /\ \A x \in Clients : pc'[x] = "off" => pc[x] = "off"
  BY <1>7, WorkTyped
<1>9. /\ tree' \in [Dirs -> [Names -> Files \cup {None}]]
      /\ \A e \in Dirs, k \in Names : tree'[e][k] = IF e = d /\ k = n THEN file ELSE tree[e][k]
  BY <1>1, <1>2, <1>4, Parts DEF TypeInv
<1>10. /\ cache' \in [Clients -> [Dirs -> [Names -> CNodes \cup {None}]]]
       /\ \A x \in Clients, e \in Dirs, k \in Names :
            ~(x = c /\ e = d /\ k = n) => cache'[x][e][k] = cache[x][e][k]
       /\ cache'[c][d][n] \in {v, cache[c][d][n]}
  <2>1. CASE cache' = cache
    BY <2>1, Parts DEF TypeInv
  <2>2. CASE cache' = [cache EXCEPT ![c][d][n] = v]
    BY <1>2, <1>6, <2>2, Parts DEF TypeInv
  <2> QED BY <1>7, <2>1, <2>2
<1>11. /\ IsABag(calls') /\ DOMAIN calls' \subseteq Callbacks
       /\ \A m \in DOMAIN calls : m \in DOMAIN calls'
       /\ \A m \in DOMAIN calls' : m.to # None => pc'[m.to] # "off"
  BY <1>1, <1>2, <1>8, Announced
<1>12. /\ pc' \in [Clients -> Labels] /\ req' \in [Clients -> Requests] /\ curr' \in [Clients -> Dirs]
       /\ RequestInv' /\ StartInv' /\ FollowInv'
  <2>1. SameSessions /\ pc[c] \in Working
    BY <1>1 DEF SameSessions, Working
  <2>2. \A x \in Clients : x # c => \A e \in Dirs, k \in Names : cache'[x][e][k] = cache[x][e][k]
    BY <1>10
  <2> QED BY <1>1, <1>7, <2>1, <2>2, WorkGoesOn
<1>13. TypeInv'
  BY <1>1, <1>3, <1>9, <1>10, <1>11, <1>12, Parts DEF TypeInv
<1>14. FidInv'
  <2>1. ASSUME NEW e \in Dirs, NEW k \in Names, tree[e][k] # None
        PROVE  /\ tree[e][k].fid \in Nat /\ tree[e][k].fid <= clock
               /\ \A e2 \in Dirs, k2 \in Names :
                    tree[e2][k2] # None /\ tree[e2][k2].fid = tree[e][k].fid => e2 = e /\ k2 = k
    BY <2>1, Parts DEF FidInv, TypeInv, Files
  <2>2. ASSUME NEW e \in Dirs, NEW k \in Names, tree'[e][k] # None
        PROVE  /\ tree'[e][k].fid <= clock'
               /\ \A e2 \in Dirs, k2 \in Names :
                    tree'[e2][k2] # None /\ tree'[e2][k2].fid = tree'[e][k].fid => e2 = e /\ k2 = k
    <3>1. CASE tree[d][n] = None
      <4>1. tree'[d][n].fid = clock'
        BY <1>2, <1>4, <1>9, <3>1
      <4>2. ASSUME NEW e1 \in Dirs, NEW k1 \in Names, tree'[e1][k1] # None, ~(e1 = d /\ k1 = n)
            PROVE  tree'[e1][k1] = tree[e1][k1] /\ tree[e1][k1].fid # clock' /\ tree[e1][k1].fid <= clock'
        <5>1. tree'[e1][k1] = tree[e1][k1]
          BY <1>9, <4>2
        <5>2. tree[e1][k1].fid \in Nat /\ tree[e1][k1].fid <= clock
          BY <2>1, <4>2, <5>1
        <5> QED BY <1>3, <5>1, <5>2
      <4>3. CASE e = d /\ k = n
        <5>1. clock' <= clock'
          BY <1>3
        <5> QED BY <4>1, <4>2, <4>3, <5>1
      <4>4. CASE ~(e = d /\ k = n)
        <5>1. tree'[e][k] = tree[e][k] /\ tree[e][k].fid # clock' /\ tree[e][k].fid <= clock'
          BY <2>2, <4>2, <4>4
        <5> QED BY <2>1, <2>2, <4>1, <4>2, <5>1
      <4> QED BY <4>3, <4>4
    <3>2. CASE tree[d][n] # None
      BY <1>1, <1>3, <1>9, <2>1, <2>2, <3>2
    <3> QED BY <3>1, <3>2
  <2>3. ASSUME NEW x \in Clients, NEW e \in Dirs, NEW k \in Names, cache'[x][e][k] # None
        PROVE  cache'[x][e][k].of <= clock'
    <3>1. CASE cache'[x][e][k] = v
      BY <1>3, <1>6, <3>1
    <3>2. CASE cache'[x][e][k] = cache[x][e][k]
      <4>1. cache[x][e][k].of <= clock /\ cache[x][e][k] \in CNodes
        BY <2>3, <3>2, Parts DEF FidInv, TypeInv
      <4>2. cache[x][e][k].of \in Nat
        BY <4>1 DEF CNodes
      <4> QED BY <1>3, <3>2, <4>1, <4>2
    <3> QED BY <1>10, <3>1, <3>2
  <2>4. ASSUME NEW x \in Clients, pc'[x] = "downloaded"
        PROVE  req'[x].file.fid <= clock'
    <3>1. x # c /\ pc[x] = "downloaded" /\ req'[x] = req[x]
      BY <1>7, <1>8, <2>4
    <3>2. req[x].file \in Files /\ req[x].file.fid <= clock
      BY <3>1, Reading, Parts DEF FidInv
    <3>3. req[x].file.fid \in Nat
      BY <3>2 DEF Files
    <3> QED BY <1>3, <3>1, <3>2, <3>3
  <2> QED BY <2>2, <2>3, <2>4 DEF FidInv
<1>15. /\ \A x \in Clients, e \in Dirs, k \in Names : ~(e = d /\ k = n) => CopyOK(x, e, k)'
       /\ \A x \in Clients : ~(curr[x] = d /\ req[x].name = n) => ReadOK(x)'
  <2>1. /\ \A e \in Dirs, k \in Names : ~(e = d /\ k = n) => tree'[e][k] = tree[e][k]
        /\ \A x \in Clients : x # c => pc'[x] = pc[x] /\ req'[x] = req[x]
        /\ pc'[c] \notin {"reading", "downloaded"} /\ pc[c] # "closing"
    BY <1>1, <1>7, <1>8, <1>9
  <2> QED BY <1>1, <1>2, <1>10, <1>11, <2>1, OtherFilesKept
<1>16. ASSUME NEW x \in Clients, tree[d][n] # None, Accounted(x, d, n)
       PROVE  Accounted(x, d, n)'
  <2>1. tree'[d][n] = tree[d][n]
    BY <1>1, <1>2, <1>9, <1>16
  <2>2. \A w \in Clients : pc[w] = "closing" =>
            pc'[w] = "closing" /\ curr'[w] = curr[w] /\ req'[w] = req[w]
    BY <1>1, <1>8
  <2> QED BY <1>1, <1>2, <1>11, <1>16, <2>1, <2>2, AccountsKept
<1>17. ASSUME NEW x \in Clients
       PROVE  CopyOK(x, d, n)'
  <2>1. CASE cache'[x][d][n] = v
    BY <1>6, <2>1 DEF CopyOK
  <2>2. CASE cache'[x][d][n] = cache[x][d][n] /\ tree[d][n] = None
    <3>1. cache[x][d][n] # None => cache[x][d][n].of # clock'
      <4>1. cache[x][d][n] # None => cache[x][d][n].of <= clock /\ cache[x][d][n] \in CNodes
        BY <1>2, Parts DEF FidInv, TypeInv
      <4>2. cache[x][d][n] # None => cache[x][d][n].of \in Nat
        BY <4>1 DEF CNodes
      <4> QED BY <1>3, <4>1, <4>2
    <3>2. tree'[d][n].fid = clock'
      BY <1>2, <1>4, <1>9, <2>2
    <3> QED BY <2>2, <3>1, <3>2 DEF CopyOK
  <2>3. CASE cache'[x][d][n] = cache[x][d][n] /\ tree[d][n] # None
    <3>1. tree'[d][n] = tree[d][n] /\ CopyOK(x, d, n)
      BY <1>1, <1>2, <1>9, <2>3, Parts DEF CopyInv
    <3>2. Accounted(x, d, n) => Accounted(x, d, n)'
      BY <1>16, <2>3
    <3> QED BY <1>1, <1>2, <2>3, <3>1, <3>2, CopyStays
  <2> QED BY <1>2, <1>10, <2>1, <2>2, <2>3
<1>18. ASSUME NEW x \in Clients, curr[x] = d, req[x].name = n
       PROVE  ReadOK(x)'
  <2>1. CASE pc'[x] \notin {"reading", "downloaded"}
    BY <2>1 DEF ReadOK
  <2>2. CASE pc'[x] \in {"reading", "downloaded"}
    <3>1. /\ x # c /\ pc'[x] = pc[x] /\ req'[x] = req[x] /\ curr'[x] = curr[x] /\ ReadOK(x)
          /\ cache'[x][d][n] = cache[x][d][n]
      BY <1>1, <1>2, <1>7, <1>8, <1>10, <2>2, Parts DEF CopyInv
    <3>2. CASE tree[d][n] = None
      <4>1. pc[x] = "downloaded" => tree'[d][n].fid # req[x].file.fid
        <5>1. tree'[d][n].fid = clock'
          BY <1>2, <1>4, <1>9, <3>2
        <5>2. pc[x] = "downloaded" => req[x].file \in Files /\ req[x].file.fid <= clock
          BY Reading, Parts DEF FidInv
        <5>3. pc[x] = "downloaded" => req[x].file.fid \in Nat
          BY <5>2 DEF Files
        <5> QED BY <1>3, <5>1, <5>2, <5>3
      <4>2. curr'[x] = d /\ req'[x].name = n
        BY <1>18, <3>1
      <4>3. /\ pc[x] \in {"reading", "downloaded"} => cache[x][d][n] \in CNodes /\ ~cache[x][d][n].contentCached
            /\ pc[x] = "downloaded" =>
                 (cache[x][d][n].fid # req[x].file.fid => <<x, req[x].file.fid>> \in excused)
        BY <1>18, <3>1 DEF ReadOK
      <4> QED BY <1>1, <3>1, <4>1, <4>2, <4>3 DEF ReadOK
    <3>3. CASE tree[d][n] # None
      <4>1. tree'[d][n] = tree[d][n]
        BY <1>1, <1>2, <1>9, <3>3
      <4>2. Accounted(x, d, n) => Accounted(x, d, n)'
        BY <1>16, <3>3
      <4> QED BY <1>1, <1>2, <1>18, <3>1, <4>1, <4>2, ReadStays
    <3> QED BY <3>2, <3>3
  <2> QED BY <2>1, <2>2
<1>19. CopyInv'
  BY <1>15, <1>17, <1>18 DEF CopyInv
<1> QED BY <1>12, <1>13, <1>14, <1>19 DEF CacheInv

\* Whoever has a claim to the callback of an upload is sent it.
LEMMA ToldOfUpload ==
    ASSUME CacheInv, NEW c \in Clients, NEW d \in Dirs, NEW fid \in (1 .. MaxClock) \cup {None},
           SendInvalidates(d, UserOf[c], fid), \A y \in Clients : pc'[y] = "off" => pc[y] = "off",
           NEW x \in Clients, pc[x] # "off", ~Excuse(x, d, UserOf[c])
    PROVE  \E m \in DOMAIN calls' : m.to = x /\ m.fid = fid
<1>1. PICK u : u = UserOf[x]
  OBVIOUS
<1>2. /\ u \in Users /\ u # UserOf[c] /\ curr[x] = d /\ ~(pc[x] = "entering" /\ req[x] # None)
      /\ pc[x] # "registered" /\ x \notin strayed
      /\ sessions[u] # None /\ sessions[u].addr = x /\ sessions[u].fresh
  BY <1>1, Constants DEF Excuse
<1>3. sessions[u].dir = d
  <2>1. sessions[u].dir = Heading(x)
    BY <1>1, <1>2, Parts DEF FollowInv
  <2> QED BY <1>2, <2>1 DEF Heading
<1>4. u \in NotifyTargets(d, UserOf[c])
  BY <1>2, <1>3 DEF NotifyTargets
<1>5. pc[sessions[u].addr] # "off"
  BY <1>2
<1>6. \A w \in NotifyTargets(d, UserOf[c]) : pc[sessions[w].addr] # "off" =>
                \E m \in DOMAIN calls' : m.to = sessions[w].addr /\ m.fid = fid
  BY Announced
<1> QED BY <1>2, <1>4, <1>5, <1>6

LEMMA CloseUploadStep ==
    ASSUME CacheInv, NEW c \in Clients, CloseUpload(c)
    PROVE  CacheInv'
<1>1. PICK d, n, file, v :
        d = curr[c] /\ n = req[c].name /\ file = tree[d][n] /\ v = NewNode(req[c].file.fid)
  OBVIOUS
<1>2. /\ pc[c] = "closing" /\ pc' = [pc EXCEPT ![c] = "idle"] /\ req' = [req EXCEPT ![c] = None]
      /\ UNCHANGED <<tree, clock, sessions, curr, strayed>>
  BY DEF CloseUpload, Done, Goto, Local
<1>f. faults' \in 0 .. MaxFaults
  BY Parts, Constants DEF CloseUpload, OnReply, Fault, TypeInv
<1>3. d \in Dirs /\ n \in Names /\ req[c].file \in Files /\ file \in Files \cup {None}
  BY <1>1, <1>2, Reading, Parts DEF TypeInv
<1>4. v \in CNodes /\ ~v.contentCached /\ v.of = 0
  BY <1>1, <1>3, Constants DEF Files, CNodes, NewNode
<1>5. "idle" \in Working /\ HasAtHand("idle", None) /\ SameSessions /\ pc[c] \in Working
  BY <1>2 DEF Working, HasAtHand, SameSessions
<1>6. /\ \A x \in Clients : /\ pc'[x] = IF x = c THEN "idle" ELSE pc[x]
                            /\ req'[x] = IF x = c THEN None ELSE req[x]
      /\ \A x \in Clients : pc'[x] = "off" => pc[x] = "off"
  BY <1>2, <1>5, WorkTyped
<1>7. CASE file = None
  <2>1. UNCHANGED <<calls, cache, excused>>
    BY <1>1, <1>7 DEF CloseUpload
  <2>2. /\ pc' \in [Clients -> Labels] /\ req' \in [Clients -> Requests] /\ curr' \in [Clients -> Dirs]
        /\ RequestInv' /\ StartInv' /\ FollowInv'
    BY <1>2, <1>5, <2>1, WorkGoesOn
  <2>3. TypeInv'
    <3>1. \A m \in DOMAIN calls' : m.to # None => pc'[m.to] # "off"
      BY <1>6, <2>1, Parts, ListenersKept
    <3> QED BY <1>2, <1>f, <2>1, <2>2, <3>1, Parts DEF TypeInv
  <2>4. FidInv'
    BY <1>2, <1>6, <2>1, Parts, FidsKept
  <2>5. /\ \A x \in Clients, e \in Dirs, k \in Names : ~(e = d /\ k = n) => CopyOK(x, e, k)'
        /\ \A x \in Clients : ~(curr[x] = d /\ req[x].name = n) => ReadOK(x)'
    <3>1. /\ \A x \in Clients : x # c => pc'[x] = pc[x] /\ req'[x] = req[x]
          /\ pc'[c] \notin {"reading", "downloaded"} /\ curr[c] = d /\ req[c].name = n
      BY <1>1, <1>6
    <3> QED BY <1>2, <1>3, <2>1, <3>1, OtherFilesKept
  <2>6. \A x \in Clients : CopyOK(x, d, n)'
    BY <1>1, <1>2, <1>7 DEF CopyOK
  <2>7. ASSUME NEW x \in Clients, curr[x] = d, req[x].name = n
        PROVE  ReadOK(x)'
    <3>1. CASE x = c
      BY <1>6, <3>1 DEF ReadOK
    <3>2. CASE x # c
      <4>1. /\ pc'[x] = pc[x] /\ req'[x] = req[x] /\ curr'[x] = curr[x] /\ ReadOK(x)
            /\ cache'[x][d][n] = cache[x][d][n] /\ tree'[d][n] = None
        BY <1>1, <1>2, <1>6, <1>7, <2>1, <3>2, Parts DEF CopyInv
      <4> QED BY <2>1, <2>7, <4>1 DEF ReadOK
    <3> QED BY <3>1, <3>2
  <2>8. CopyInv'
    BY <2>5, <2>6, <2>7 DEF CopyInv
  <2> QED BY <2>2, <2>3, <2>4, <2>8 DEF CacheInv
<1>8. CASE file # None
  <2>1. /\ SendInvalidates(d, UserOf[c], file.fid)
        /\ excused' = excused \cup {<<x, file.fid>> :
                             x \in {x \in Clients : Excuse(x, d, UserOf[c])}}
        /\ cache' = [cache EXCEPT ![c][d][n] = v] \/ cache' = cache
    BY <1>1, <1>8 DEF CloseUpload, OnReply, AddNode
  <2>w. PICK w : w = IF cache' = cache THEN cache[c][d][n] ELSE v
    OBVIOUS
  <2>2. file \in Files /\ file.fid \in 1 .. MaxClock
    BY <1>3, <1>8 DEF Files
  <2>3. /\ cache' \in [Clients -> [Dirs -> [Names -> CNodes \cup {None}]]]
        /\ \A x \in Clients, e \in Dirs, k \in Names :
             cache'[x][e][k] = IF x = c /\ e = d /\ k = n THEN w ELSE cache[x][e][k]
    <3>1. cache \in [Clients -> [Dirs -> [Names -> CNodes \cup {None}]]]
      BY Parts DEF TypeInv
    <3>2. CASE cache' = cache
      BY <1>3, <2>w, <3>1, <3>2
    <3>3. CASE cache' # cache
      <4>1. cache' = [cache EXCEPT ![c][d][n] = v] /\ w = v
        BY <2>1, <2>w, <3>3
      <4> QED BY <1>3, <1>4, <3>1, <4>1
    <3> QED BY <3>2, <3>3
  <2>4. /\ IsABag(calls') /\ DOMAIN calls' \subseteq Callbacks
        /\ \A m \in DOMAIN calls : m \in DOMAIN calls'
        /\ \A m \in DOMAIN calls' : m.to # None => pc'[m.to] # "off"
    BY <1>3, <1>6, <2>1, <2>2, Announced
  <2>5. /\ excused \subseteq excused' /\ excused' \subseteq Clients \X (1 .. MaxClock)
        /\ \A x \in Clients : Excuse(x, d, UserOf[c]) => <<x, file.fid>> \in excused'
    BY <2>1, <2>2, Parts DEF TypeInv
  <2>6. /\ pc' \in [Clients -> Labels] /\ req' \in [Clients -> Requests] /\ curr' \in [Clients -> Dirs]
        /\ RequestInv' /\ StartInv' /\ FollowInv'
    <3>1. \A x \in Clients : x # c => \A e \in Dirs, k \in Names : cache'[x][e][k] = cache[x][e][k]
      BY <2>3
    <3> QED BY <1>2, <1>5, <3>1, WorkGoesOn
  <2>7. TypeInv'
    BY <1>2, <1>f, <2>3, <2>4, <2>5, <2>6, Parts DEF TypeInv
  <2>8. FidInv'
    <3>1. ASSUME NEW x \in Clients, NEW e \in Dirs, NEW k \in Names, cache'[x][e][k] # None
          PROVE  cache'[x][e][k].of <= clock'
      <4>1. CASE x = c /\ e = d /\ k = n /\ w = v
        <5>1. clock \in Nat
          BY Parts, Constants DEF TypeInv
        <5> QED BY <1>2, <1>4, <2>3, <4>1, <5>1
      <4>2. CASE ~(x = c /\ e = d /\ k = n) \/ w # v
        <5>1. cache'[x][e][k] = cache[x][e][k]
          BY <2>3, <2>w, <4>2
        <5>2. cache[x][e][k].of <= clock
          BY <3>1, <5>1, Parts DEF FidInv
        <5> QED BY <1>2, <5>1, <5>2
      <4> QED BY <4>1, <4>2
    <3> QED BY <1>2, <1>6, <3>1, Parts DEF FidInv
  <2>9. /\ \A x \in Clients, e \in Dirs, k \in Names : ~(e = d /\ k = n) => CopyOK(x, e, k)'
        /\ \A x \in Clients : ~(curr[x] = d /\ req[x].name = n) => ReadOK(x)'
    <3>1. /\ \A x \in Clients : x # c => pc'[x] = pc[x] /\ req'[x] = req[x]
          /\ pc'[c] \notin {"reading", "downloaded"} /\ curr[c] = d /\ req[c].name = n
          /\ \A x \in Clients, e \in Dirs, k \in Names :
               ~(x = c /\ e = d /\ k = n) => cache'[x][e][k] = cache[x][e][k]
      BY <1>1, <1>6, <2>3
    <3> QED BY <1>2, <1>3, <2>4, <2>5, <3>1, OtherFilesKept
  <2>10. ASSUME NEW x \in Clients, pc[x] # "off"
         PROVE  Accounted(x, d, n)'
    <3>1. tree'[d][n].fid = file.fid
      BY <1>1, <1>2
    <3>2. CASE Excuse(x, d, UserOf[c])
      BY <2>5, <3>1, <3>2 DEF Accounted
    <3>3. CASE ~Excuse(x, d, UserOf[c])
      <4>1. \E m \in DOMAIN calls' : m.to = x /\ m.fid = file.fid
        BY <1>3, <1>6, <2>1, <2>2, <2>10, <3>3, ToldOfUpload
      <4> QED BY <3>1, <4>1 DEF Accounted
    <3> QED BY <3>2, <3>3
  <2>11. ASSUME NEW x \in Clients
         PROVE  CopyOK(x, d, n)'
    <3>1. CASE x = c /\ w = v
      BY <1>3, <1>4, <2>3, <3>1 DEF CopyOK
    <3>2. CASE pc[x] = "off" /\ x # c
      <4>1. cache'[x][d][n] = None
        BY <1>3, <2>3, <3>2, Parts DEF StartInv
      <4> QED BY <4>1 DEF CopyOK
    <3>3. CASE pc[x] # "off" /\ (x # c \/ w # v)
      <4>1. CopyOK(x, d, n) /\ Accounted(x, d, n)' /\ cache'[x][d][n] = cache[x][d][n]
        BY <1>3, <2>3, <2>w, <2>10, <3>3, Parts DEF CopyInv
      <4> QED BY <1>2, <1>3, <2>5, <4>1, CopyStays
    <3> QED BY <1>2, <3>1, <3>2, <3>3
  <2>12. ASSUME NEW x \in Clients, curr[x] = d, req[x].name = n
         PROVE  ReadOK(x)'
    <3>1. CASE pc'[x] \notin {"reading", "downloaded"}
      BY <3>1 DEF ReadOK
    <3>2. CASE pc'[x] \in {"reading", "downloaded"}
      <4>1. /\ x # c /\ pc'[x] = pc[x] /\ req'[x] = req[x] /\ curr'[x] = curr[x] /\ ReadOK(x)
            /\ cache'[x][d][n] = cache[x][d][n] /\ Accounted(x, d, n)'
        BY <1>2, <1>3, <1>6, <2>3, <2>10, <3>2, Parts DEF CopyInv
      <4> QED BY <1>2, <1>3, <2>5, <2>12, <4>1, ReadStays
    <3> QED BY <3>1, <3>2
  <2>13. CopyInv'
    BY <2>9, <2>11, <2>12 DEF CopyInv
  <2> QED BY <2>6, <2>7, <2>8, <2>13 DEF CacheInv
<1> QED BY <1>7, <1>8
-----------------------------------------------------------------------------
(* Callbacks that arrive or are lost, clients that go, and the server's *)
(* crash.                                                               *)

\* Files and copies stay; a reason goes only if there is another.
LEMMA ReasonsKept ==
    ASSUME CacheInv, UNCHANGED <<cache, tree>>, excused \subseteq excused',
           \A x \in Clients, e \in Dirs, k \in Names :
               tree[e][k] # None /\ Accounted(x, e, k) => Accounted(x, e, k)',
           \A w \in Clients : pc'[w] \in {"reading", "downloaded"} =>
               pc'[w] = pc[w] /\ curr'[w] = curr[w] /\ req'[w] = req[w]
    PROVE  CopyInv'
<1>1. ASSUME NEW x \in Clients, NEW e \in Dirs, NEW k \in Names
      PROVE  CopyOK(x, e, k)'
  <2>1. CopyOK(x, e, k)
    BY Parts DEF CopyInv
  <2>2. tree'[e][k] # None /\ Accounted(x, e, k) => Accounted(x, e, k)'
    OBVIOUS
  <2> QED BY <2>1, <2>2, CopyStays
<1>2. ASSUME NEW x \in Clients
      PROVE  ReadOK(x)'
  <2>1. CASE pc'[x] \notin {"reading", "downloaded"}
    BY <2>1 DEF ReadOK
  <2>2. CASE pc'[x] \in {"reading", "downloaded"}
    <3>1. pc'[x] = pc[x] /\ curr'[x] = curr[x] /\ req'[x] = req[x] /\ ReadOK(x)
      BY <2>2, Parts DEF CopyInv
    <3>2. PICK e, k : e = curr[x] /\ k = req[x].name
      OBVIOUS
    <3>3. e \in Dirs /\ k \in Names
      BY <2>2, <3>1, <3>2, Reading
    <3>4. tree'[e][k] # None /\ Accounted(x, e, k) => Accounted(x, e, k)'
      BY <3>3
    <3> QED BY <3>1, <3>2, <3>3, <3>4, ReadStays
  <2> QED BY <2>1, <2>2
<1> QED BY <1>1, <1>2 DEF CopyInv

\* A callback that is over, and what that does to sessions.
LEMMA CallbackOver ==
    ASSUME CacheInv, NEW m \in DOMAIN calls, calls' = calls (-) SetToBag({m}),
           sessions' \in {CallbackFailed(m.user), CallbackSucceeded(m.user)},
           UNCHANGED <<tree, clock, curr, pc, req, strayed>>, faults' \in 0 .. MaxFaults,
           excused' \subseteq Clients \X (1 .. MaxClock),
           cache' \in [Clients -> [Dirs -> [Names -> CNodes \cup {None}]]],
           \A x \in Clients, e \in Dirs, k \in Names :
               /\ cache[x][e][k] = None => cache'[x][e][k] = None
               /\ cache[x][e][k] # None => cache'[x][e][k].of = cache[x][e][k].of
    PROVE  TypeInv' /\ RequestInv' /\ StartInv' /\ FollowInv' /\ FidInv'
<1>1. m \in Callbacks /\ m.user \in Users
  BY Parts DEF TypeInv, Callbacks
<1>2. sessions' \in [Users -> Sessions \cup {None}] /\ SameSessions
  BY <1>1, Parts, SessionTyped
<1>3. IsABag(calls') /\ DOMAIN calls' \subseteq DOMAIN calls
  BY Parts, Receiving DEF TypeInv
<1>4. TypeInv'
  BY <1>2, <1>3, Parts DEF TypeInv
<1>5. RequestInv'
  BY Parts DEF RequestInv
<1>6. StartInv'
  BY Parts DEF StartInv
<1>7. FollowInv'
  BY <1>2, Parts, FollowKept DEF Heading
<1>8. FidInv'
  <2>1. \A x \in Clients, e \in Dirs, k \in Names : cache'[x][e][k] # None => cache'[x][e][k].of <= clock
    BY Parts DEF FidInv
  <2> QED BY <2>1, Parts DEF FidInv
<1> QED BY <1>4, <1>5, <1>6, <1>7, <1>8

\* The callback reaches nobody, or the history tells that it was lost.
LEMMA CallbackLost ==
    ASSUME CacheInv, NEW m \in DOMAIN calls, calls' = calls (-) SetToBag({m}),
           UNCHANGED <<tree, cache, curr, pc, req>>, excused \subseteq excused',
           m.to # None /\ m.fid # None => <<m.to, m.fid>> \in excused'
    PROVE  CopyInv'
<1>1. \A x \in DOMAIN calls : x # m => x \in DOMAIN calls'
  BY Parts, Receiving DEF TypeInv
<1>2. ASSUME NEW x \in Clients, NEW e \in Dirs, NEW k \in Names, tree[e][k] # None, Accounted(x, e, k)
      PROVE  Accounted(x, e, k)'
  <2>1. x # None /\ tree[e][k].fid # None
    BY <1>2, Parts, Constants DEF TypeInv, Files
  <2>2. CASE m.to = x /\ m.fid = tree[e][k].fid
    BY <2>1, <2>2 DEF Accounted
  <2>3. CASE ~(m.to = x /\ m.fid = tree[e][k].fid)
    BY <1>1, <1>2, <2>3 DEF Accounted
  <2> QED BY <2>2, <2>3
<1> QED BY <1>2, ReasonsKept

\* The callback has been acted on.
LEMMA CallbackActedOn ==
    ASSUME CacheInv, NEW m \in DOMAIN calls, m.to # None, calls' = calls (-) SetToBag({m}),
           cache' = [cache EXCEPT ![m.to] = Invalidate(cache[m.to], m.fid)],
           UNCHANGED <<tree, curr, pc, req, excused>>
    PROVE  /\ CopyInv' /\ cache' \in [Clients -> [Dirs -> [Names -> CNodes \cup {None}]]]
           /\ \A x \in Clients, e \in Dirs, k \in Names :
               /\ cache[x][e][k] = None => cache'[x][e][k] = None
               /\ cache[x][e][k] # None => cache'[x][e][k].of = cache[x][e][k].of
<1>1. PICK c, i : c = m.to /\ i = m.fid
  OBVIOUS
<1>2. c \in Clients /\ i \in (1 .. MaxClock) \cup {None}
  BY <1>1, Parts DEF TypeInv, Callbacks
<1>3. PICK f : f = Invalidate(cache[c], i)
  OBVIOUS
<1>4. ASSUME NEW e \in Dirs, NEW k \in Names
      PROVE  /\ f[e][k] \in CNodes \cup {None}
             /\ cache[c][e][k] = None => f[e][k] = None
             /\ cache[c][e][k] # None =>
                  /\ f[e][k].of = cache[c][e][k].of
                  /\ f[e][k] = cache[c][e][k]
                     \/ (~f[e][k].contentCached /\ ~f[e][k].contentUID /\ f[e][k].fid = cache[c][e][k].fid
                           /\ f[e][k] \in CNodes)
                  /\ cache[c][e][k].fid = i => ~f[e][k].contentCached /\ ~f[e][k].contentUID
  <2>1. cache[c][e][k] \in CNodes \cup {None}
    BY <1>2, Parts, Typed1
  <2>2. f[e][k] = IF cache[c][e][k] # None /\ cache[c][e][k].fid = i
                  THEN [cache[c][e][k] EXCEPT !.contentCached = FALSE, !.contentUID = FALSE]
                  ELSE cache[c][e][k]
    BY <1>3 DEF Invalidate
  <2> QED BY <2>1, <2>2 DEF CNodes
<1>5. /\ cache' \in [Clients -> [Dirs -> [Names -> CNodes \cup {None}]]]
      /\ \A x \in Clients, e \in Dirs, k \in Names :
           cache'[x][e][k] = IF x = c THEN f[e][k] ELSE cache[x][e][k]
  <2>1. f \in [Dirs -> [Names -> CNodes \cup {None}]]
    <3>1. f = [e \in Dirs |-> [k \in Names |-> f[e][k]]]
      BY <1>3 DEF Invalidate
    <3> QED BY <1>4, <3>1
  <2>2. cache' = [cache EXCEPT ![c] = f]
    BY <1>1, <1>3
  <2>3. cache \in [Clients -> [Dirs -> [Names -> CNodes \cup {None}]]]
    BY Parts DEF TypeInv
  <2>4. cache' \in [Clients -> [Dirs -> [Names -> CNodes \cup {None}]]]
    BY <1>2, <2>1, <2>2, <2>3
  <2>5. \A x \in Clients : cache'[x] = IF x = c THEN f ELSE cache[x]
    BY <1>2, <2>2, <2>3
  <2> QED BY <2>4, <2>5
<1>6. \A x \in DOMAIN calls : x # m => x \in DOMAIN calls'
  BY Parts, Receiving DEF TypeInv
<1>7. ASSUME NEW x \in Clients, NEW e \in Dirs, NEW k \in Names, Accounted(x, e, k),
             ~(x = c /\ tree[e][k].fid = i)
      PROVE  Accounted(x, e, k)'
  BY <1>1, <1>6, <1>7 DEF Accounted
<1>8. ASSUME NEW x \in Clients, NEW e \in Dirs, NEW k \in Names, <<x, tree[e][k].fid>> \in excused
      PROVE  Accounted(x, e, k)'
  BY <1>8 DEF Accounted
<1>9. ASSUME NEW x \in Clients, NEW e \in Dirs, NEW k \in Names
      PROVE  CopyOK(x, e, k)'
  <2>1. CopyOK(x, e, k)
    BY Parts DEF CopyInv
  <2>2. CASE x # c
    <3>1. cache'[x][e][k] = cache[x][e][k] /\ (Accounted(x, e, k) => Accounted(x, e, k)')
      BY <1>5, <1>7, <2>2
    <3> QED BY <2>1, <3>1, CopyStays
  <2>3. CASE x = c
    <3>1. cache'[x][e][k] = f[e][k]
      BY <1>5, <2>3
    <3>2. CASE f[e][k] # cache[c][e][k] \/ cache[c][e][k] = None
      BY <1>4, <3>1, <3>2 DEF CopyOK
    <3>3. CASE f[e][k] = cache[c][e][k] /\ cache[c][e][k] # None /\ cache[c][e][k].contentCached
      <4>1. cache[c][e][k].fid # i
        BY <1>4, <3>3
      <4> QED BY <1>7, <1>8, <2>1, <2>3, <3>1, <3>3, <4>1 DEF CopyOK
    <3>4. CASE f[e][k] = cache[c][e][k] /\ ~cache[c][e][k].contentCached
      BY <3>1, <3>4 DEF CopyOK
    <3> QED BY <3>2, <3>3, <3>4
  <2> QED BY <2>2, <2>3
<1>10. ASSUME NEW x \in Clients
       PROVE  ReadOK(x)'
  <2>1. CASE pc[x] \notin {"reading", "downloaded"}
    BY <2>1 DEF ReadOK
  <2>2. CASE pc[x] \in {"reading", "downloaded"}
    <3>1. PICK e, k, file : e = curr[x] /\ k = req[x].name /\ file = req[x].file
      OBVIOUS
    <3>2. e \in Dirs /\ k \in Names /\ ReadOK(x)
      BY <2>2, <3>1, Reading, Parts DEF CopyInv
    <3>3. /\ cache[x][e][k] \in CNodes /\ ~cache[x][e][k].contentCached
          /\ pc[x] = "downloaded" =>
               /\ cache[x][e][k].fid # file.fid => <<x, file.fid>> \in excused
               /\ tree[e][k] # None /\ tree[e][k].fid = file.fid /\ cache[x][e][k].contentUID
                    /\ file.data # tree[e][k].data
                  => Accounted(x, e, k)
      BY <2>2, <3>1, <3>2 DEF ReadOK
    <3>4. CASE x # c
      <4>1. cache'[x][e][k] = cache[x][e][k] /\ (Accounted(x, e, k) => Accounted(x, e, k)')
        BY <1>5, <1>7, <3>2, <3>4
      <4> QED BY <3>1, <3>2, <4>1, ReadStays
    <3>5. CASE x = c
      <4>1. cache'[x][e][k] = f[e][k]
        BY <1>5, <3>2, <3>5
      <4>2. /\ f[e][k] \in CNodes /\ ~f[e][k].contentCached /\ f[e][k].fid = cache[x][e][k].fid
            /\ f[e][k].contentUID => cache[x][e][k].contentUID /\ cache[x][e][k].fid # i
        <5>1. cache[x][e][k] # None
          BY <3>3, Constants
        <5> QED BY <1>4, <3>2, <3>3, <3>5, <5>1
      <4>3. pc[x] = "downloaded" =>
              /\ f[e][k].fid # file.fid => <<x, file.fid>> \in excused
              /\ tree[e][k] # None /\ tree[e][k].fid = file.fid /\ f[e][k].contentUID
                   /\ file.data # tree[e][k].data
                 => Accounted(x, e, k)'
        BY <1>7, <1>8, <3>2, <3>3, <3>5, <4>2
      <4> QED BY <3>1, <4>1, <4>2, <4>3 DEF ReadOK
    <3> QED BY <3>4, <3>5
  <2> QED BY <2>1, <2>2
<1>11. CopyInv'
  BY <1>9, <1>10 DEF CopyInv
<1> QED BY <1>4, <1>5, <1>11

LEMMA DeliverStep ==
    ASSUME CacheInv, NEW m \in DOMAIN calls, Deliver(m)
    PROVE  CacheInv'
<1>1. /\ m.to # None /\ cache' = [cache EXCEPT ![m.to] = Invalidate(cache[m.to], m.fid)]
      /\ sessions' = CallbackSucceeded(m.user) /\ calls' = calls (-) SetToBag({m})
      /\ UNCHANGED <<tree, clock, curr, pc, req, excused, strayed, faults>>
  BY DEF Deliver, history
<1>2. /\ CopyInv' /\ cache' \in [Clients -> [Dirs -> [Names -> CNodes \cup {None}]]]
      /\ \A x \in Clients, e \in Dirs, k \in Names :
           /\ cache[x][e][k] = None => cache'[x][e][k] = None
           /\ cache[x][e][k] # None => cache'[x][e][k].of = cache[x][e][k].of
  BY <1>1, CallbackActedOn
<1>3. faults' \in 0 .. MaxFaults /\ excused' \subseteq Clients \X (1 .. MaxClock)
  BY <1>1, Parts DEF TypeInv
<1>4. TypeInv' /\ RequestInv' /\ StartInv' /\ FollowInv' /\ FidInv'
  BY <1>1, <1>2, <1>3, CallbackOver
<1> QED BY <1>2, <1>4 DEF CacheInv

LEMMA FailStep ==
    ASSUME CacheInv, NEW m \in DOMAIN calls, Fail(m)
    PROVE  CacheInv'
<1>1. /\ sessions' = CallbackFailed(m.user) /\ calls' = calls (-) SetToBag({m})
      /\ UNCHANGED <<tree, clock, curr, pc, req, strayed>>
  BY DEF Fail
<1>2. faults' \in 0 .. MaxFaults
  BY Parts, Constants DEF Fail, Fault, TypeInv
<1>3. m \in Callbacks
  BY Parts DEF TypeInv
<1>4. CASE /\ cache' = cache
           /\ \/ m.to = None /\ excused' = excused
              \/ m.to # None /\ excused' = excused \cup Unsent({m})
  <2>1. /\ excused \subseteq excused' /\ excused' \subseteq Clients \X (1 .. MaxClock)
        /\ m.to # None /\ m.fid # None => <<m.to, m.fid>> \in excused'
    BY <1>3, <1>4, Parts DEF Unsent, TypeInv, Callbacks
  <2>2. CopyInv'
    BY <1>1, <1>4, <2>1, CallbackLost
  <2>3. TypeInv' /\ RequestInv' /\ StartInv' /\ FollowInv' /\ FidInv'
    <3>1. cache' \in [Clients -> [Dirs -> [Names -> CNodes \cup {None}]]]
      BY <1>4, Parts DEF TypeInv
    <3> QED BY <1>1, <1>2, <1>4, <2>1, <3>1, CallbackOver
  <2> QED BY <2>2, <2>3 DEF CacheInv
<1>5. CASE /\ m.to # None /\ cache' = [cache EXCEPT ![m.to] = Invalidate(cache[m.to], m.fid)]
           /\ excused' = excused
  <2>1. /\ CopyInv' /\ cache' \in [Clients -> [Dirs -> [Names -> CNodes \cup {None}]]]
        /\ \A x \in Clients, e \in Dirs, k \in Names :
             /\ cache[x][e][k] = None => cache'[x][e][k] = None
             /\ cache[x][e][k] # None => cache'[x][e][k].of = cache[x][e][k].of
    BY <1>1, <1>5, CallbackActedOn
  <2>2. excused' \subseteq Clients \X (1 .. MaxClock)
    BY <1>5, Parts DEF TypeInv
  <2>3. TypeInv' /\ RequestInv' /\ StartInv' /\ FollowInv' /\ FidInv'
    BY <1>1, <1>2, <2>1, <2>2, CallbackOver
  <2> QED BY <2>1, <2>3 DEF CacheInv
<1> QED BY <1>4, <1>5 DEF Fail

\* A client goes; its upload, if it was in one, is known to have broken off.
LEMMA GoneKept ==
    ASSUME CacheInv, NEW c \in Clients, Gone(c), UNCHANGED <<clock, strayed>>,
           faults' \in 0 .. MaxFaults,
           sessions' \in [Users -> Sessions \cup {None}], SameSessions,
           tree' \in [Dirs -> [Names -> Files \cup {None}]],
           \A e \in Dirs, k \in Names : tree'[e][k] # None => tree'[e][k] = tree[e][k],
           excused \subseteq excused', excused' \subseteq Clients \X (1 .. MaxClock),
           pc[c] = "closing" /\ tree'[curr[c]][req[c].name] # None =>
               \A x \in Clients : <<x, tree[curr[c]][req[c].name].fid>> \in excused'
    PROVE  CacheInv'
<1>1. /\ pc' = [pc EXCEPT ![c] = "off"] /\ req' = [req EXCEPT ![c] = None]
      /\ cache' = [cache EXCEPT ![c] = Unseen] /\ curr' = [curr EXCEPT ![c] = RootOf[c]]
      /\ calls' = Orphaned(c)
  BY DEF Gone
<1>2. "off" \in Labels /\ HasAtHand("off", None)
  BY DEF Labels, HasAtHand
<1>3. pc' \in [Clients -> Labels] /\ req' \in [Clients -> Requests] /\ RequestInv'
  BY <1>1, <1>2, Parts, CommandMoves
<1>4. /\ cache' \in [Clients -> [Dirs -> [Names -> CNodes \cup {None}]]]
      /\ curr' \in [Clients -> Dirs]
      /\ \A x \in Clients : /\ pc'[x] = IF x = c THEN "off" ELSE pc[x]
                            /\ req'[x] = IF x = c THEN None ELSE req[x]
                            /\ cache'[x] = IF x = c THEN Unseen ELSE cache[x]
                            /\ curr'[x] = IF x = c THEN RootOf[c] ELSE curr[x]
      /\ \A e \in Dirs, k \in Names : cache'[c][e][k] = None
  <2>1. Unseen \in [Dirs -> [Names -> CNodes \cup {None}]] /\ \A e \in Dirs, k \in Names : Unseen[e][k] = None
    BY DEF Unseen
  <2>2. RootOf[c] \in Dirs
    BY Constants
  <2> QED BY <1>1, <2>1, <2>2, Parts DEF TypeInv
<1>5. /\ IsABag(calls') /\ DOMAIN calls' \subseteq Callbacks
      /\ \A m \in DOMAIN calls' : m.to # None => m \in DOMAIN calls /\ m.to # c
      /\ \A m \in DOMAIN calls : m.to # c => m \in DOMAIN calls'
  BY <1>1, Parts, Orphaning
<1>6. TypeInv'
  <2>1. \A m \in DOMAIN calls' : m.to # None => pc'[m.to] # "off"
    <3>1. \A m \in DOMAIN calls' : m.to \in Clients \cup {None}
      BY <1>5 DEF Callbacks
    <3> QED BY <1>4, <1>5, <3>1, Parts DEF TypeInv
  <2> QED BY <1>3, <1>4, <1>5, <2>1, Parts DEF TypeInv
<1>7. StartInv'
  <2>1. ASSUME NEW x \in Clients, pc'[x] \in {"off", "connecting"}
        PROVE  curr'[x] = RootOf[x] /\ \A e \in Dirs, k \in Names : cache'[x][e][k] = None
    <3>1. CASE x = c
      BY <1>4, <3>1
    <3>2. CASE x # c
      <4>1. pc[x] \in {"off", "connecting"} /\ curr'[x] = curr[x] /\ cache'[x] = cache[x]
        BY <1>4, <2>1, <3>2
      <4> QED BY <4>1, Parts DEF StartInv
    <3> QED BY <3>1, <3>2
  <2> QED BY <2>1 DEF StartInv
<1>8. FollowInv'
  <2>1. \A x \in Clients : pc'[x] \notin {"off", "registered"} =>
          pc[x] \notin {"off", "registered"} /\ Heading(x)' = Heading(x)
    BY <1>4 DEF Heading
  <2> QED BY <2>1, Parts, FollowKept
<1>9. FidInv'
  <2>1. \A e \in Dirs, k \in Names : tree'[e][k] # None => tree'[e][k] = tree[e][k]
    OBVIOUS
  <2>2. \A x \in Clients, e \in Dirs, k \in Names :
          cache'[x][e][k] # None => cache'[x][e][k] = cache[x][e][k]
    <3>1. \A x \in Clients : x # c => cache'[x] = cache[x]
      BY <1>4
    <3>2. \A e \in Dirs, k \in Names : cache'[c][e][k] = None
      BY <1>4
    <3> QED BY <3>1, <3>2
  <2>3. \A x \in Clients : pc'[x] = "downloaded" => pc[x] = "downloaded" /\ req'[x] = req[x]
    BY <1>4
  <2> QED BY <2>1, <2>2, <2>3, Parts DEF FidInv
<1>10. ASSUME NEW x \in Clients, x # c, NEW e \in Dirs, NEW k \in Names,
              tree'[e][k] # None, Accounted(x, e, k)
       PROVE  Accounted(x, e, k)'
  <2>1. tree'[e][k] = tree[e][k]
    BY <1>10
  <2>2. CASE pc[c] = "closing" /\ curr[c] = e /\ req[c].name = k
    BY <1>10, <2>1, <2>2 DEF Accounted
  <2>3. CASE ~(pc[c] = "closing" /\ curr[c] = e /\ req[c].name = k)
    BY <1>4, <1>5, <1>10, <2>1, <2>3 DEF Accounted
  <2> QED BY <2>2, <2>3
<1>11. ASSUME NEW x \in Clients, NEW e \in Dirs, NEW k \in Names
       PROVE  CopyOK(x, e, k)'
  <2>1. CASE x = c \/ tree'[e][k] = None
    BY <1>4, <2>1 DEF CopyOK
  <2>2. CASE x # c /\ tree'[e][k] # None
    <3>1. /\ CopyOK(x, e, k) /\ cache'[x][e][k] = cache[x][e][k] /\ tree'[e][k] = tree[e][k]
          /\ Accounted(x, e, k) => Accounted(x, e, k)'
      BY <1>4, <1>10, <2>2, Parts DEF CopyInv
    <3> QED BY <2>2, <3>1, CopyStays
  <2> QED BY <2>1, <2>2
<1>12. ASSUME NEW x \in Clients
       PROVE  ReadOK(x)'
  <2>1. CASE pc'[x] \notin {"reading", "downloaded"}
    BY <2>1 DEF ReadOK
  <2>2. CASE pc'[x] \in {"reading", "downloaded"}
    <3>1. /\ x # c /\ pc'[x] = pc[x] /\ curr'[x] = curr[x] /\ req'[x] = req[x] /\ ReadOK(x)
          /\ cache'[x] = cache[x]
      BY <1>4, <2>2, Parts DEF CopyInv
    <3>2. PICK e, k : e = curr[x] /\ k = req[x].name
      OBVIOUS
    <3>3. e \in Dirs /\ k \in Names
      BY <2>2, <3>1, <3>2, Reading
    <3>4. /\ tree'[e][k] # None => tree'[e][k] = tree[e][k]
          /\ tree'[e][k] # None /\ Accounted(x, e, k) => Accounted(x, e, k)'
      BY <1>10, <3>1, <3>3
    <3> QED BY <3>1, <3>2, <3>3, <3>4, ReadStays
  <2> QED BY <2>1, <2>2
<1>13. CopyInv'
  BY <1>11, <1>12 DEF CopyInv
<1> QED BY <1>3, <1>6, <1>7, <1>8, <1>9, <1>13 DEF CacheInv

LEMMA DisconnectStep ==
    ASSUME CacheInv, NEW c \in Clients, Disconnect(c)
    PROVE  CacheInv'
<1>1. /\ pc[c] = "idle" /\ Gone(c) /\ sessions' = [sessions EXCEPT ![UserOf[c]] = None]
      /\ UNCHANGED <<tree, clock, excused, strayed>>
  BY DEF Disconnect, history
<1>2. faults' \in 0 .. MaxFaults
  BY Parts, Constants DEF Disconnect, Fault, TypeInv
<1>3. sessions' \in [Users -> Sessions \cup {None}] /\ SameSessions
  BY <1>1, Parts, Constants DEF TypeInv, SameSessions
<1>4. tree' \in [Dirs -> [Names -> Files \cup {None}]] /\ excused' \subseteq Clients \X (1 .. MaxClock)
  BY <1>1, Parts DEF TypeInv
<1> QED BY <1>1, <1>2, <1>3, <1>4, GoneKept

\* Nobody has been told of an upload that breaks off.
LEMMA Broken ==
    ASSUME CacheInv, NEW w \in Clients, pc[w] = "closing", tree[curr[w]][req[w].name] # None,
           NEW files, BrokenUpload(w) \subseteq files
    PROVE  \A x \in Clients : <<x, tree[curr[w]][req[w].name].fid>> \in Untold(files)
<1>1. tree[curr[w]][req[w].name] \in files
  BY DEF BrokenUpload
<1> QED BY <1>1 DEF Untold

LEMMA BrokenTyped ==
    ASSUME CacheInv, NEW w \in Clients
    PROVE  \A f \in BrokenUpload(w) : f \in Files
<1>1. CASE pc[w] = "closing"
  BY <1>1, Reading, Parts DEF BrokenUpload, TypeInv
<1>2. CASE pc[w] # "closing"
  BY <1>2 DEF BrokenUpload
<1> QED BY <1>1, <1>2

LEMMA KillStep ==
    ASSUME CacheInv, NEW c \in Clients, Kill(c)
    PROVE  CacheInv'
<1>1. /\ Gone(c) /\ excused' = excused \cup Untold(BrokenUpload(c))
      /\ UNCHANGED <<clock, sessions, strayed>>
      /\ tree' = IF pc[c] = "closing" /\ UserOf[c] = Owner
                 THEN [tree EXCEPT ![curr[c]][req[c].name] = None] ELSE tree
  BY DEF Kill, Scrapped
<1>2. faults' \in 0 .. MaxFaults
  BY Parts, Constants DEF Kill, Fault, TypeInv
<1>3. sessions' \in [Users -> Sessions \cup {None}] /\ SameSessions
  BY <1>1, Parts DEF TypeInv, SameSessions
<1>4. /\ tree' \in [Dirs -> [Names -> Files \cup {None}]]
      /\ \A e \in Dirs, k \in Names : tree'[e][k] # None => tree'[e][k] = tree[e][k]
  <2>1. CASE pc[c] = "closing" /\ UserOf[c] = Owner
    <3>1. PICK d, n : d = curr[c] /\ n = req[c].name
      OBVIOUS
    <3>2. d \in Dirs /\ n \in Names /\ tree' = [tree EXCEPT ![d][n] = None]
      BY <1>1, <2>1, <3>1, Reading
    <3> QED BY <3>2, Parts DEF TypeInv
  <2>2. CASE ~(pc[c] = "closing" /\ UserOf[c] = Owner)
    BY <1>1, <2>2, Parts DEF TypeInv
  <2> QED BY <2>1, <2>2
<1>5. excused \subseteq excused' /\ excused' \subseteq Clients \X (1 .. MaxClock)
  <2>1. \A f \in BrokenUpload(c) : f.fid \in 1 .. MaxClock
    BY BrokenTyped DEF Files
  <2> QED BY <1>1, <2>1, Parts DEF Untold, TypeInv
<1>6. pc[c] = "closing" /\ tree'[curr[c]][req[c].name] # None =>
        \A x \in Clients : <<x, tree[curr[c]][req[c].name].fid>> \in excused'
  <2> SUFFICES ASSUME pc[c] = "closing", tree'[curr[c]][req[c].name] # None
               PROVE  \A x \in Clients : <<x, tree[curr[c]][req[c].name].fid>> \in excused'
    OBVIOUS
  <2>1. tree[curr[c]][req[c].name] # None
    BY <1>4, Reading
  <2> QED BY <1>1, <2>1, Broken
<1> QED BY <1>1, <1>2, <1>3, <1>4, <1>5, <1>6, GoneKept

\* The chunks that were written stay, or the file goes; either way the end of
\* the stream tells nobody.
LEMMA BreakUploadStep ==
    ASSUME CacheInv, NEW c \in Clients, BreakUpload(c)
    PROVE  CacheInv'
<1>1. PICK d, n, f :
        d = curr[c] /\ n = req[c].name /\ f = IF UserOf[c] = Owner THEN None ELSE tree[d][n]
  OBVIOUS
<1>2. /\ pc[c] \in {"created", "closing"} /\ pc' = [pc EXCEPT ![c] = "idle"]
      /\ req' = [req EXCEPT ![c] = None] /\ tree' = Scrapped(c)
      /\ excused' = excused \cup Untold(BrokenUpload(c))
      /\ UNCHANGED <<clock, calls, cache, curr, strayed>>
  BY DEF BreakUpload, Done, Goto, Local
<1>3. faults' \in 0 .. MaxFaults
  BY Parts, Constants DEF BreakUpload, Fault, TypeInv
<1>4. d \in Dirs /\ n \in Names /\ f \in Files \cup {None}
  BY <1>1, <1>2, Reading, Parts DEF TypeInv
<1>5. sessions' \in [Users -> Sessions \cup {None}] /\ SameSessions
  <2>1. CASE UNCHANGED sessions
    BY <2>1, Parts DEF TypeInv, SameSessions
  <2>2. CASE sessions' = Touch(UserOf[c])
    BY <2>2, Parts, Constants, SessionTyped
  <2> QED BY <2>1, <2>2 DEF BreakUpload
<1>6. /\ tree' \in [Dirs -> [Names -> Files \cup {None}]]
      /\ \A e \in Dirs, k \in Names : tree'[e][k] = IF e = d /\ k = n THEN f ELSE tree[e][k]
  BY <1>1, <1>2, <1>4, Parts DEF Scrapped, TypeInv
<1>7. excused \subseteq excused' /\ excused' \subseteq Clients \X (1 .. MaxClock)
  <2>1. \A g \in BrokenUpload(c) : g.fid \in 1 .. MaxClock
    BY BrokenTyped DEF Files
  <2> QED BY <1>2, <2>1, Parts DEF Untold, TypeInv
<1>8. pc[c] = "closing" /\ tree'[d][n] # None =>
        \A x \in Clients : <<x, tree[d][n].fid>> \in excused'
  <2> SUFFICES ASSUME pc[c] = "closing", tree'[d][n] # None
               PROVE  \A x \in Clients : <<x, tree[d][n].fid>> \in excused'
    OBVIOUS
  <2>1. tree[d][n] # None
    BY <1>1, <1>4, <1>6
  <2> QED BY <1>1, <1>2, <2>1, Broken
<1>9. "idle" \in Working /\ HasAtHand("idle", None) /\ pc[c] \in Working
  BY <1>2 DEF Working, HasAtHand
<1>10. /\ \A x \in Clients : /\ pc'[x] = IF x = c THEN "idle" ELSE pc[x]
                             /\ req'[x] = IF x = c THEN None ELSE req[x]
       /\ \A x \in Clients : pc'[x] = "off" => pc[x] = "off"
  BY <1>2, <1>9, WorkTyped
<1>11. /\ pc' \in [Clients -> Labels] /\ req' \in [Clients -> Requests] /\ curr' \in [Clients -> Dirs]
       /\ RequestInv' /\ StartInv' /\ FollowInv'
  BY <1>2, <1>5, <1>9, WorkGoesOn
<1>12. TypeInv'
  <2>1. \A m \in DOMAIN calls' : m.to # None => pc'[m.to] # "off"
    BY <1>2, <1>10, Parts, ListenersKept
  <2> QED BY <1>2, <1>3, <1>5, <1>6, <1>7, <1>11, <2>1, Parts DEF TypeInv
<1>13. FidInv'
  <2>1. \A e \in Dirs, k \in Names : tree'[e][k] # None => tree'[e][k] = tree[e][k]
    BY <1>1, <1>4, <1>6
  <2>2. \A x \in Clients : pc'[x] = "downloaded" => pc[x] = "downloaded" /\ req'[x] = req[x]
    BY <1>10
  <2> QED BY <1>2, <2>1, <2>2, Parts DEF FidInv
<1>14. /\ \A x \in Clients, e \in Dirs, k \in Names : ~(e = d /\ k = n) => CopyOK(x, e, k)'
       /\ \A x \in Clients : ~(curr[x] = d /\ req[x].name = n) => ReadOK(x)'
  <2>1. /\ \A x \in Clients : x # c => pc'[x] = pc[x] /\ req'[x] = req[x]
        /\ pc'[c] \notin {"reading", "downloaded"} /\ curr[c] = d /\ req[c].name = n
        /\ \A e \in Dirs, k \in Names : ~(e = d /\ k = n) => tree'[e][k] = tree[e][k]
    BY <1>1, <1>6, <1>10
  <2> QED BY <1>2, <1>4, <1>7, <2>1, OtherFilesKept
<1>15. ASSUME NEW x \in Clients, tree'[d][n] # None, Accounted(x, d, n)
       PROVE  Accounted(x, d, n)' /\ tree'[d][n] = tree[d][n]
  <2>1. tree'[d][n] = tree[d][n]
    BY <1>1, <1>4, <1>6, <1>15
  <2>2. CASE <<x, tree[d][n].fid>> \in excused \/ \E m \in DOMAIN calls : m.to = x /\ m.fid = tree[d][n].fid
    BY <1>2, <1>7, <2>1, <2>2 DEF Accounted
  <2>3. CASE \E w \in Clients : pc[w] = "closing" /\ curr[w] = d /\ req[w].name = n
    <3>1. PICK w \in Clients : pc[w] = "closing" /\ curr[w] = d /\ req[w].name = n
      BY <2>3
    <3>2. CASE w = c
      BY <1>8, <1>15, <2>1, <3>1, <3>2 DEF Accounted
    <3>3. CASE w # c
      <4>1. pc'[w] = "closing" /\ curr'[w] = d /\ req'[w].name = n
        BY <1>2, <1>10, <3>1, <3>3
      <4> QED BY <2>1, <4>1 DEF Accounted
    <3> QED BY <3>2, <3>3
  <2> QED BY <1>15, <2>1, <2>2, <2>3 DEF Accounted
<1>16. ASSUME NEW x \in Clients
       PROVE  CopyOK(x, d, n)'
  <2>1. CASE tree'[d][n] = None
    BY <2>1 DEF CopyOK
  <2>2. CASE tree'[d][n] # None
    <3>1. CopyOK(x, d, n) /\ tree'[d][n] = tree[d][n]
      BY <1>1, <1>4, <1>6, <2>2, Parts DEF CopyInv
    <3> QED BY <1>2, <1>7, <1>15, <2>2, <3>1 DEF CopyOK
  <2> QED BY <2>1, <2>2
<1>17. ASSUME NEW x \in Clients, curr[x] = d, req[x].name = n
       PROVE  ReadOK(x)'
  <2>1. CASE pc'[x] \notin {"reading", "downloaded"}
    BY <2>1 DEF ReadOK
  <2>2. CASE pc'[x] \in {"reading", "downloaded"}
    <3>1. /\ x # c /\ pc'[x] = pc[x] /\ req'[x] = req[x] /\ curr'[x] = curr[x] /\ ReadOK(x)
      BY <1>2, <1>10, <2>2, Parts DEF CopyInv
    <3>2. CASE tree'[d][n] = None
      BY <1>2, <1>7, <1>17, <3>1, <3>2 DEF ReadOK
    <3>3. CASE tree'[d][n] # None
      <4>1. tree'[d][n] = tree[d][n]
        BY <1>1, <1>4, <1>6, <3>3
      <4> QED BY <1>2, <1>7, <1>15, <1>17, <3>1, <3>3, <4>1 DEF ReadOK
    <3> QED BY <3>2, <3>3
  <2> QED BY <2>1, <2>2
<1>18. CopyInv'
  BY <1>14, <1>16, <1>17 DEF CopyInv
<1> QED BY <1>11, <1>12, <1>13, <1>18 DEF CacheInv

\* The command ends, or goes on, without having touched a file or a copy.
LEMMA CallFailsStep ==
    ASSUME CacheInv, NEW c \in Clients, CallFails(c)
    PROVE  CacheInv'
<1>1. PICK label : label = AfterFailure[pc[c]]
  OBVIOUS
<1>2. /\ pc[c] \in {"entering", "reading", "created", "deleting", "registered"}
      /\ pc' = [pc EXCEPT ![c] = label] /\ req' = [req EXCEPT ![c] = None]
      /\ curr' = [curr EXCEPT ![c] = Heading(c)]
      /\ strayed' = IF pc[c] = "registered" THEN strayed \cup {c} ELSE strayed
      /\ UNCHANGED <<tree, clock, sessions, calls, cache, excused>>
  BY <1>1 DEF CallFails, AfterFailure, Goto, Local, server
<1>3. label = IF pc[c] = "registered" THEN "entering" ELSE "idle"
  BY <1>1, <1>2 DEF AfterFailure
<1>4. faults' \in 0 .. MaxFaults
  BY Parts, Constants DEF CallFails, Fault, TypeInv
<1>5. label \in Labels /\ HasAtHand(label, None) /\ Heading(c) \in Dirs
  BY <1>2, <1>3, Parts DEF Labels, HasAtHand, Heading, TypeInv, RequestInv
<1>6. /\ pc' \in [Clients -> Labels] /\ req' \in [Clients -> Requests] /\ RequestInv'
      /\ \A x \in Clients : /\ pc'[x] = IF x = c THEN label ELSE pc[x]
                            /\ req'[x] = IF x = c THEN None ELSE req[x]
  BY <1>2, <1>5, Parts, CommandMoves
<1>7. /\ curr' \in [Clients -> Dirs]
      /\ \A x \in Clients : curr'[x] = IF x = c THEN Heading(c) ELSE curr[x]
  BY <1>2, <1>5, Parts DEF TypeInv
<1>8. TypeInv'
  <2>1. \A m \in DOMAIN calls' : m.to # None => pc'[m.to] # "off"
    BY <1>2, <1>3, <1>6, Parts, ListenersKept
  <2> QED BY <1>2, <1>4, <1>6, <1>7, <2>1, Parts DEF TypeInv
<1>9. StartInv'
  <2>1. \A x \in Clients : pc'[x] \in {"off", "connecting"} =>
          pc[x] \in {"off", "connecting"} /\ curr'[x] = curr[x]
    BY <1>2, <1>3, <1>6, <1>7
  <2> QED BY <1>2, <2>1, Parts, StartKept
<1>10. FollowInv'
  <2>1. \A x \in Clients : Heading(x)' = Heading(x)
    BY <1>6, <1>7 DEF Heading
  <2> QED BY <1>2, <1>3, <1>6, <2>1, Parts DEF FollowInv
<1>11. FidInv'
  BY <1>2, <1>3, <1>6, Parts, FidsKept
<1>12. CopyInv'
  <2>1. \A w \in Clients : pc[w] = "closing" \/ pc'[w] \in {"reading", "downloaded"} =>
          pc'[w] = pc[w] /\ curr'[w] = curr[w] /\ req'[w] = req[w]
    BY <1>2, <1>3, <1>6, <1>7
  <2> QED BY <1>2, <2>1, Parts, CopiesKept
<1> QED BY <1>6, <1>8, <1>9, <1>10, <1>11, <1>12 DEF CacheInv

LEMMA CrashServerStep ==
    ASSUME CacheInv, CrashServer
    PROVE  CacheInv'
<1>1. PICK hit :
        /\ hit \subseteq Clients /\ \A c \in hit : pc[c] \in DOMAIN AfterFailure
        /\ \A c \in Clients : pc[c] = "closing" => c \in hit
        /\ pc' = [c \in Clients |-> IF c \in hit THEN AfterFailure[pc[c]] ELSE pc[c]]
        /\ req' = [c \in Clients |-> IF c \in hit THEN None ELSE req[c]]
        /\ curr' = [c \in Clients |-> IF c \in hit THEN Heading(c) ELSE curr[c]]
  BY DEF CrashServer
<1>2. /\ sessions' = [u \in Users |-> None] /\ calls' = EmptyBag
      /\ excused' = excused \cup Untold(UNION {BrokenUpload(c) : c \in Clients})
                    \cup Unsent(BagToSet(calls))
      /\ UNCHANGED <<tree, clock, cache, strayed>>
  BY DEF CrashServer
<1>3. faults' \in 0 .. MaxFaults
  BY Parts, Constants DEF CrashServer, Fault, TypeInv
<1>4. ASSUME NEW c \in hit
      PROVE  /\ AfterFailure[pc[c]] \in {"off", "entering", "idle"}
             /\ AfterFailure[pc[c]] = "off" => pc[c] = "connecting"
  <2>1. pc[c] \in {"connecting", "entering", "reading", "created", "closing", "deleting", "registered"}
    BY <1>1, <1>4 DEF AfterFailure
  <2> QED BY <2>1 DEF AfterFailure
<1>5. /\ pc' \in [Clients -> Labels] /\ req' \in [Clients -> Requests] /\ RequestInv'
  <2>1. pc' \in [Clients -> Labels]
    BY <1>1, <1>4, Parts DEF TypeInv, Labels
  <2>2. req' \in [Clients -> Requests]
    BY <1>1, Parts DEF TypeInv, Requests
  <2>3. RequestInv'
    BY <1>1, <1>4, Parts DEF RequestInv, HasAtHand
  <2> QED BY <2>1, <2>2, <2>3
<1>6. curr' \in [Clients -> Dirs]
  <2>1. ASSUME NEW c \in Clients
        PROVE  Heading(c) \in Dirs /\ curr[c] \in Dirs
    BY Parts DEF Heading, TypeInv, RequestInv, HasAtHand
  <2> QED BY <1>1, <2>1
<1>7. DOMAIN calls' = {} /\ IsABag(calls')
  BY <1>2 DEF EmptyBag, IsABag, SetToBag
<1>8. /\ excused \subseteq excused' /\ excused' \subseteq Clients \X (1 .. MaxClock)
      /\ \A m \in DOMAIN calls : m.to # None /\ m.fid # None => <<m.to, m.fid>> \in excused'
  <2>1. \A f \in UNION {BrokenUpload(c) : c \in Clients} : f.fid \in 1 .. MaxClock
    BY BrokenTyped DEF Files
  <2>2. Untold(UNION {BrokenUpload(c) : c \in Clients}) \subseteq Clients \X (1 .. MaxClock)
    BY <2>1 DEF Untold
  <2>3. /\ Unsent(BagToSet(calls)) \subseteq Clients \X (1 .. MaxClock)
        /\ \A m \in DOMAIN calls : m.to # None /\ m.fid # None => <<m.to, m.fid>> \in Unsent(BagToSet(calls))
    BY Parts DEF Unsent, BagToSet, TypeInv, Callbacks
  <2> QED BY <1>2, <2>2, <2>3, Parts DEF TypeInv
<1>9. TypeInv'
  BY <1>2, <1>3, <1>5, <1>6, <1>7, <1>8, Parts DEF TypeInv
<1>10. StartInv'
  <2>1. \A c \in Clients : pc'[c] \in {"off", "connecting"} =>
          pc[c] \in {"off", "connecting"} /\ curr'[c] = curr[c]
    BY <1>1, <1>4 DEF Heading
  <2> QED BY <1>2, <2>1, Parts, StartKept
<1>11. FollowInv'
  BY <1>2, Constants DEF FollowInv
<1>12. FidInv'
  BY <1>1, <1>2, <1>4, Parts, FidsKept
<1>13. CopyInv'
  <2>1. ASSUME NEW x \in Clients, NEW e \in Dirs, NEW k \in Names, tree[e][k] # None, Accounted(x, e, k)
        PROVE  Accounted(x, e, k)'
    <3>1. x # None /\ tree[e][k].fid # None
      BY <2>1, Parts, Constants DEF TypeInv, Files
    <3>2. CASE <<x, tree[e][k].fid>> \in excused
      BY <1>2, <1>8, <3>2 DEF Accounted
    <3>3. CASE \E m \in DOMAIN calls : m.to = x /\ m.fid = tree[e][k].fid
      BY <1>2, <1>8, <3>1, <3>3 DEF Accounted
    <3>4. CASE \E w \in Clients : pc[w] = "closing" /\ curr[w] = e /\ req[w].name = k
      <4>1. PICK w \in Clients : pc[w] = "closing" /\ curr[w] = e /\ req[w].name = k
        BY <3>4
      <4>2. PICK files : files = UNION {BrokenUpload(c) : c \in Clients}
        OBVIOUS
      <4>3. BrokenUpload(w) \subseteq files
        BY <4>2
      <4>4. <<x, tree[e][k].fid>> \in Untold(files)
        BY <2>1, <4>1, <4>3, Broken
      <4> QED BY <1>2, <4>2, <4>4 DEF Accounted
    <3> QED BY <2>1, <3>2, <3>3, <3>4 DEF Accounted
  <2>2. \A w \in Clients : pc'[w] \in {"reading", "downloaded"} =>
          pc'[w] = pc[w] /\ curr'[w] = curr[w] /\ req'[w] = req[w]
    BY <1>1, <1>4
  <2> QED BY <1>2, <1>8, <2>1, <2>2, ReasonsKept
<1> QED BY <1>5, <1>9, <1>10, <1>11, <1>12, <1>13 DEF CacheInv
-----------------------------------------------------------------------------
(* The theorems. *)

LEMMA CacheStarts ==
    ASSUME Init
    PROVE  CacheInv
<1>1. TypeInv
  <2>1. IsABag(EmptyBag) /\ DOMAIN EmptyBag = {}
    BY DEF EmptyBag, IsABag, SetToBag
  <2>2. /\ Unseen \in [Dirs -> [Names -> Files \cup {None}]]
        /\ Unseen \in [Dirs -> [Names -> CNodes \cup {None}]]
    BY DEF Unseen
  <2>3. /\ pc \in [Clients -> Labels] /\ req \in [Clients -> Requests]
    BY DEF Init, Labels, Requests
  <2>4. /\ clock \in 0 .. MaxClock /\ faults \in 0 .. MaxFaults /\ curr \in [Clients -> Dirs]
    BY Constants DEF Init
  <2> QED BY <2>1, <2>2, <2>3, <2>4 DEF Init, TypeInv
<1>2. RequestInv
  BY DEF Init, RequestInv, HasAtHand
<1>3. StartInv
  BY DEF Init, StartInv, Unseen
<1>4. FollowInv
  BY Constants DEF Init, FollowInv
<1>5. FidInv
  BY DEF Init, FidInv, Unseen
<1>6. CopyInv
  BY DEF Init, CopyInv, CopyOK, ReadOK, Unseen
<1> QED BY <1>1, <1>2, <1>3, <1>4, <1>5, <1>6 DEF CacheInv

LEMMA CacheStays ==
    ASSUME CacheInv, [Next]_vars
    PROVE  CacheInv'
<1>1. CASE Next
  <2>1. ASSUME NEW c \in Clients,
               \/ Connect(c) \/ Disconnect(c) \/ List(c)
               \/ ReadFile(c) \/ DownloadFile(c) \/ FinishRead(c)
               \/ CreateFile(c) \/ WriteChunks(c) \/ CloseUpload(c)
        PROVE  CacheInv'
    BY <2>1, ConnectStep, DisconnectStep, ListStep, ReadFileStep, DownloadFileStep, FinishReadStep,
       CreateFileStep, WriteChunksStep, CloseUploadStep
  <2>2. ASSUME NEW c \in Clients,
               \/ FindFile(c) \/ DeleteFile(c)
               \/ ChangeDir(c) \/ Download(c) \/ ReRegister(c) \/ FollowClient(c)
               \/ ChangeDirUnanswered(c) \/ ReRegisterUnanswered(c)
               \/ CallFails(c) \/ BreakUpload(c) \/ Kill(c)
        PROVE  CacheInv'
    BY <2>2, FindFileStep, DeleteFileStep, ChangeDirStep, DownloadStep, ReRegisterStep,
       FollowClientStep, ChangeDirUnansweredStep, ReRegisterUnansweredStep, CallFailsStep,
       BreakUploadStep, KillStep
  <2>3. ASSUME NEW m \in BagToSet(calls), Deliver(m) \/ Fail(m)
        PROVE  CacheInv'
    <3>1. m \in DOMAIN calls
      BY DEF BagToSet
    <3> QED BY <2>3, <3>1, DeliverStep, FailStep
  <2>4. ASSUME NEW u \in Users, FallIdle(u)
        PROVE  CacheInv'
    BY <2>4, FallIdleStep
  <2>5. CASE CrashServer
    BY <2>5, CrashServerStep
  <2> QED BY <1>1, <2>1, <2>2, <2>3, <2>4, <2>5 DEF Next
<1>2. CASE UNCHANGED vars
  <2>1. UNCHANGED <<tree, clock, sessions, calls, cache, curr, pc, req, excused, strayed, faults>>
    BY <1>2 DEF vars, server, client, history
  <2>2. TypeInv' /\ RequestInv' /\ StartInv'
    BY <2>1, Parts DEF TypeInv, RequestInv, StartInv
  <2>3. FollowInv' /\ FidInv'
    BY <2>1, Parts DEF FollowInv, FidInv, Heading
  <2>4. CopyInv'
    BY <2>1, Parts, CopiesKept
  <2> QED BY <2>2, <2>3, <2>4 DEF CacheInv
<1> QED BY <1>1, <1>2

\* The types, for any clients and directories: among them, that a session is
\* pruned at its maxCallbackFailures-th failure (recordCallbackResult) and
\* that a callback in flight is to a client that runs, or to nobody.
THEOREM CacheTyped == Spec => []TypeOK
<1>1. ASSUME CacheInv
      PROVE  TypeOK
  <2>1. DOMAIN AfterFailure \cup {"off", "idle", "downloaded"} = Labels
    BY DEF AfterFailure, Labels
  <2>2. BagToSet(calls) = DOMAIN calls
    BY DEF BagToSet
  <2>3. TypeInv
    BY <1>1, Parts
  <2>4. pc \in [Clients -> DOMAIN AfterFailure \cup {"off", "idle", "downloaded"}]
    BY <2>1, <2>3 DEF TypeInv
  <2> QED BY <2>2, <2>3, <2>4 DEF TypeInv, TypeOK, Up
<1> QED BY <1>1, CacheStarts, CacheStays, PTL DEF Spec

\* A session that its client still owns is where the client waits (ChangeDir,
\* ReRegister and the `ChangeDirectory(".")' that follows it), whatever calls,
\* callbacks, clients and servers fail, until somebody else or a download
\* moves it, a cd or refresh of the client's is acted on and not answered, or
\* the ChangeDirectory of a refresh fails, which the code does not look at.
THEOREM SessionsFollow == Spec => []SessionFollowsClient
<1>1. ASSUME CacheInv
      PROVE  SessionFollowsClient
  <2> SUFFICES ASSUME NEW c \in Clients, pc[c] = "idle", c \notin strayed,
                      sessions[UserOf[c]] # None, sessions[UserOf[c]].addr = c
               PROVE  sessions[UserOf[c]].dir = curr[c]
    BY DEF SessionFollowsClient
  <2>1. sessions[UserOf[c]].dir = Heading(c)
    BY <1>1, Parts DEF FollowInv
  <2> QED BY <2>1 DEF Heading
<1> QED BY <1>1, CacheStarts, CacheStays, PTL DEF Spec

\* A copy a client would serve from its cache differs from the server's file
\* only while the upload runs, while its callback is on its way, or after an
\* upload the client had no claim to hear of (NotifyFileUpdated,
\* InvalidateFileByFID and the cached read).
THEOREM CopiesAreCurrent == Spec => []CachedCopiesAreCurrent
<1>1. ASSUME CacheInv
      PROVE  CachedCopiesAreCurrent
  <2> SUFFICES ASSUME NEW c \in Clients, NEW d \in Dirs, NEW n \in Names,
                      cache[c][d][n] # None, tree[d][n] # None,
                      cache[c][d][n].contentCached, cache[c][d][n].contentUID,
                      cache[c][d][n].of = tree[d][n].fid, cache[c][d][n].data # tree[d][n].data
               PROVE  Accounted(c, d, n)
    BY DEF CachedCopiesAreCurrent, Accounted, BagToSet
  <2>1. CopyOK(c, d, n)
    BY <1>1, Parts DEF CopyInv
  <2> QED BY <2>1 DEF CopyOK
<1> QED BY <1>1, CacheStarts, CacheStays, PTL DEF Spec
=============================================================================
