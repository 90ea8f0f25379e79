---------------------------- MODULE SessionStore ----------------------------
(***************************************************************************)
(* The server session tokens of a fileserver (internal/fileserver/         *)
(* session/store.go), the interceptors that ask for them (auth_google.go)  *)
(* and the client's side of the protocol (client.go).                      *)
(*                                                                         *)
(* A token stands for its hash and is numbered in the order in which       *)
(* CreateSession stores it, so the slice userSessions[u], oldest first, is *)
(* a set whose oldest element is its least.  Times are kept as ages: what  *)
(* the code compares is always a distance from time.Now().                 *)
(*                                                                         *)
(* Each critical section of Store.mu is one step.  A client has one call   *)
(* under way at a time, and may be interrupted in it: up[c] is the state   *)
(* of the process, pc[c] and req[c] that of its call.                      *)
(***************************************************************************)
EXTENDS Naturals, FiniteSets

CONSTANTS
    Clients, Users, UserOf, \* a client id holds the name of its user
    Addrs,                  \* addresses calls come from
    perUserLimit, globalLimit,
    idleTTL,                \* how long a session lasts without a call
    absoluteTTL,            \* and how long it lasts at most
    Builds,                 \* "google": built with use_google_auth; or "default"
    MaxTokens,              \* bound on sessions created
    MaxLost,                \* bound on clients that miss a reply
    None                    \* "no token"

ASSUME SessionStoreAssumption ==
    /\ UserOf \in [Clients -> Users]
    /\ {perUserLimit, globalLimit} \subseteq Nat \ {0}
    /\ {idleTTL, absoluteTTL, MaxTokens, MaxLost} \subseteq Nat
    /\ Builds \subseteq {"google", "default"}
    /\ None \notin Nat

VARIABLES
    store,      \* the maps of Store: sessions, userSessions, clientIndex
    minted,     \* the number of sessions created
    revoking,   \* tokens that a goroutine is about to revoke
    up,         \* per client: "new" (not connected), "up" or "gone"
    token,      \* per client: sessionToken, or None when it is empty
    pc, req,    \* per client: its call and the call's locals
    build,      \* which build the fileserver is
    fate,       \* history: why a token is not in the store any more
    unheard     \* history: clients that missed the reply to a registration

history == <<fate, unheard>>
vars == <<store, minted, revoking, up, token, pc, req, build, history>>

Without(f, S) == [x \in DOMAIN f \ S |-> f[x]]
Oldest(T) == CHOOSE t \in T : \A s \in T : t <= s
Cap(n, max) == IF n < max THEN n + 1 ELSE max + 1
-----------------------------------------------------------------------------
(* The store. *)

Store(ss, us, ci) == [sessions |-> ss, userSessions |-> us, clientIndex |-> ci]
NewStore == Store(<<>>, [u \in Users |-> {}], <<>>)

IsExpired(s) == s.age > absoluteTTL \/ s.idle > idleTTL
\* Mutant: a session is dropped when its time is up, not after it.
ExpiredEarly(st) == {t \in DOMAIN st.sessions : st.sessions[t].idle >= idleTTL}
Expired(st) == {t \in DOMAIN st.sessions : IsExpired(st.sessions[t])}

\* Mutant: the sessions go but the index of clients still names them.
RemoveUnindexed(st, T) ==
    Store(Without(st.sessions, T),
          [u \in Users |-> st.userSessions[u] \ {t \in T : st.sessions[t].user = u}],
          st.clientIndex)
\* What purgeExpiredLocked and RevokeSession do to the sessions they remove.
Remove(st, T) ==
    Store(Without(st.sessions, T),
          [u \in Users |-> st.userSessions[u] \ {t \in T : st.sessions[t].user = u}],
          Without(st.clientIndex, {st.sessions[t].client : t \in T}))

purgeExpired(st) == Remove(st, Expired(st))
RevokeSession(st, t) == Remove(st, {t} \cap DOMAIN st.sessions)

RevokeByClientID(st, c) ==
    IF c \notin DOMAIN st.clientIndex THEN st
    ELSE LET t == st.clientIndex[c] IN
         Store(Without(st.sessions, {t}),
               IF t \notin DOMAIN st.sessions THEN st.userSessions
               ELSE [st.userSessions EXCEPT ![st.sessions[t].user] = @ \ {t}],
               Without(st.clientIndex, {c}))

\* CreateSession, step by step: room in the table, room for the user, the
\* client's previous session, the new one.
MakeRoom(st) == IF Cardinality(DOMAIN st.sessions) >= globalLimit THEN purgeExpired(st) ELSE st
HasRoom(st) == Cardinality(DOMAIN st.sessions) < globalLimit

Full(T) == Cardinality(T) >= perUserLimit
\* Mutant: one session too many is let in before the oldest has to go.
EvictLate(st, u) ==
    IF Cardinality(st.userSessions[u]) <= perUserLimit THEN st
    ELSE Remove(st, {Oldest(st.userSessions[u])})
EvictOldest(st, u) ==
    IF ~Full(st.userSessions[u]) THEN st
    ELSE LET t == Oldest(st.userSessions[u]) IN
         Store(Without(st.sessions, {t}),
               [st.userSessions EXCEPT ![u] = @ \ {t}],
               IF t \in DOMAIN st.sessions
               THEN Without(st.clientIndex, {st.sessions[t].client}) ELSE st.clientIndex)

\* The entry of the index stays: Insert is about to replace it.
DropPrevious(st, u, c) ==
    IF c \notin DOMAIN st.clientIndex THEN st
    ELSE LET t == st.clientIndex[c] IN
         Store(Without(st.sessions, {t}), [st.userSessions EXCEPT ![u] = @ \ {t}], st.clientIndex)

Put(f, x, y) == [z \in DOMAIN f \cup {x} |-> IF z = x THEN y ELSE f[z]]
Insert(st, t, u, c, ip) ==
    Store(Put(st.sessions, t, [user |-> u, client |-> c, ip |-> ip, idle |-> 0, age |-> 0]),
          [st.userSessions EXCEPT ![u] = @ \cup {t}],
          Put(st.clientIndex, c, t))

CreateSession(st, t, c, ip) ==
    LET u == UserOf[c] IN
    Insert(DropPrevious(EvictOldest(st, u), u, c), t, u, c, ip)

\* sess.Touch with a time that is n ago: the pointer may be to a session that
\* is no longer in the table.
Touch(st, t, n) ==
    IF t \notin DOMAIN st.sessions THEN st
    ELSE Store([st.sessions EXCEPT ![t].idle = n], st.userSessions, st.clientIndex)
\* One unit of time passes.
Aged(st) ==
    Store([t \in DOMAIN st.sessions |->
             [st.sessions[t] EXCEPT !.idle = Cap(@, idleTTL), !.age = Cap(@, absoluteTTL)]],
          st.userSessions, st.clientIndex)
-----------------------------------------------------------------------------
Init ==
    /\ store = NewStore /\ minted = 0 /\ revoking = {}
    /\ up = [c \in Clients |-> "new"] /\ token = [c \in Clients |-> None]
    /\ pc = [c \in Clients |-> "idle"] /\ req = [c \in Clients |-> None]
    /\ build \in Builds
    /\ fate = <<>> /\ unheard = {}

Goto(c, label, r) == pc' = [pc EXCEPT ![c] = label] /\ req' = [req EXCEPT ![c] = r]

\* Of the tokens that leave the store some had expired; the others leave it
\* for the reason given.
Lost(before, after, why) ==
    [t \in DOMAIN before.sessions \ DOMAIN after.sessions |->
        IF IsExpired(before.sessions[t]) THEN "expired" ELSE why]
Merge(f, g) == [t \in DOMAIN f \cup DOMAIN g |-> IF t \in DOMAIN f THEN f[t] ELSE g[t]]

-----------------------------------------------------------------------------
(* RegisterClient, from Connect and from ReRegister. *)

\* Mutant: the error of CreateSession is not looked at.
IssuedAnyway(stored) == minted + 1
\* Without room in the table the client is registered all the same, and told
\* so, but gets no token.
Issued(stored) == IF stored THEN minted + 1 ELSE None

RegisterClient(c) ==
    /\ pc[c] = "idle" /\ up[c] # "gone"
    /\ LET roomy == MakeRoom(store)
           evicted == EvictOldest(roomy, UserOf[c])
           gone == Merge(Lost(store, roomy, "purged"), fate)
       IN  /\ Goto(c, "replying", Issued(HasRoom(roomy)))
           /\ IF HasRoom(roomy)
              THEN /\ minted < MaxTokens /\ minted' = minted + 1
                   /\ \E ip \in Addrs : store' = CreateSession(roomy, minted + 1, c, ip)
                   /\ fate' = Merge(Lost(roomy, evicted, "evicted"),
                                    Merge(Lost(evicted, store', "replaced"), gone))
              ELSE store' = roomy /\ fate' = gone /\ UNCHANGED minted
    /\ UNCHANGED <<revoking, up, token, build, unheard>>

\* The reply: an empty token does not replace the one the client has.
Registered(c) ==
    /\ pc[c] = "replying" /\ Goto(c, "idle", None)
    /\ IF up[c] = "gone" THEN UNCHANGED <<up, token>>
       ELSE /\ up' = [up EXCEPT ![c] = "up"]
            /\ token' = [token EXCEPT ![c] = IF req[c] = None THEN @ ELSE req[c]]
    /\ UNCHANGED <<store, minted, revoking, build, history>>

\* The call fails after the server has acted on it: Connect gives up, refresh
\* goes on with the token it had.
ReplyLost(c) ==
    /\ pc[c] = "replying" /\ Goto(c, "idle", None)
    /\ Cardinality(unheard \cup {c}) <= MaxLost /\ unheard' = unheard \cup {c}
    /\ up' = [up EXCEPT ![c] = IF @ = "up" THEN "up" ELSE "gone"]
    /\ UNCHANGED <<store, minted, revoking, token, build, fate>>
-----------------------------------------------------------------------------
(* Any other call, in a build with interceptors.  One that is refused for  *)
(* a token that is unknown or bound to another address changes nothing.    *)

\* ValidateSession under the read lock; the answer is good.
CheckSession(c) ==
    /\ build = "google" /\ up[c] = "up" /\ pc[c] = "idle"
    /\ token[c] \in DOMAIN store.sessions
    /\ LET s == store.sessions[token[c]] IN
       ~IsExpired(s) /\ \E ip \in Addrs : s.ip = ip
    /\ Goto(c, "touching", [token |-> token[c], ago |-> 0])
    /\ UNCHANGED <<store, minted, revoking, up, token, build, history>>

\* The session has expired: it is revoked by a goroutine of its own.
RefuseExpired(c) ==
    /\ build = "google" /\ up[c] = "up" /\ pc[c] = "idle"
    /\ token[c] \in Expired(store)
    /\ revoking' = revoking \cup {token[c]}
    /\ UNCHANGED <<store, minted, up, token, pc, req, build, history>>

\* ... and under the write lock, with the time read before.
TouchSession(c) ==
    /\ pc[c] = "touching"
    /\ store' = Touch(store, req[c].token, req[c].ago)
    /\ Goto(c, "serving", req[c])
    /\ UNCHANGED <<minted, revoking, up, token, build, history>>

\* UploadFile touches the session with every chunk it receives.
UploadChunk(c) ==
    /\ pc[c] = "serving" /\ up[c] = "up"
    /\ store' = Touch(store, req[c].token, 0)
    /\ UNCHANGED <<minted, revoking, up, token, pc, req, build, history>>

Served(c) ==
    /\ pc[c] = "serving" /\ Goto(c, "idle", None)
    /\ UNCHANGED <<store, minted, revoking, up, token, build, history>>

Revoke(t) ==
    /\ t \in revoking /\ revoking' = revoking \ {t}
    /\ store' = RevokeSession(store, t)
    /\ fate' = Merge(Lost(store, store', "revoked"), fate)
    /\ UNCHANGED <<minted, up, token, pc, req, build, unheard>>

\* Disconnect, on the way back to the choice of a root, at the end, or on a
\* signal.  It forgets the token first, so that UnregisterClient carries the
\* Google token, which is not a session's.
UnregisterClient(st, c) == IF build = "google" THEN st ELSE RevokeByClientID(st, c)
Disconnect(c) ==
    /\ up[c] = "up"
    /\ \E next \in {"new", "gone"} :
         /\ next = "new" => pc[c] = "idle"
         /\ up' = [up EXCEPT ![c] = next]
    /\ token' = [token EXCEPT ![c] = None]
    /\ store' = UnregisterClient(store, c)
    /\ fate' = Merge(Lost(store, store', "left"), fate)
    /\ UNCHANGED <<minted, revoking, pc, req, build, unheard>>
-----------------------------------------------------------------------------
(* Background. *)

Sweep ==
    /\ store' = purgeExpired(store)
    /\ fate' = Merge(Lost(store, store', "purged"), fate)
    /\ UNCHANGED <<minted, revoking, up, token, pc, req, build, unheard>>

Tick ==
    /\ store' = Aged(store)
    /\ req' = [c \in Clients |->
                 IF pc[c] = "touching" THEN [req[c] EXCEPT !.ago = Cap(@, idleTTL)] ELSE req[c]]
    /\ UNCHANGED <<minted, revoking, up, token, pc, build, history>>

Next ==
    \/ \E c \in Clients : \/ RegisterClient(c) \/ Registered(c) \/ ReplyLost(c)
                          \/ CheckSession(c) \/ RefuseExpired(c) \/ TouchSession(c)
                          \/ UploadChunk(c) \/ Served(c) \/ Disconnect(c)
    \/ \E t \in revoking : Revoke(t)
    \/ Sweep \/ Tick

Spec == Init /\ [][Next]_vars
-----------------------------------------------------------------------------
(* Properties. *)

Session == [user : Users, client : Clients, ip : Addrs,
            idle : 0 .. idleTTL + 1, age : 0 .. absoluteTTL + 1]

Typed(st, n) ==
    /\ DOMAIN st.sessions \subseteq 1 .. n
    /\ \A t \in DOMAIN st.sessions : st.sessions[t] \in Session
    /\ st.userSessions \in [Users -> SUBSET (1 .. n)]
    /\ DOMAIN st.clientIndex \subseteq Clients
    /\ \A c \in DOMAIN st.clientIndex : st.clientIndex[c] \in 1 .. n

\* The maps hold sessions, the users' and the clients' tokens; a call's locals
\* are a token and how long ago the clock was read.
TypeOK ==
    /\ Typed(store, minted)
    /\ minted \in Nat /\ revoking \subseteq 1 .. minted
    /\ up \in [Clients -> {"new", "up", "gone"}]
    /\ token \in [Clients -> (1 .. minted) \cup {None}]
    /\ pc \in [Clients -> {"idle", "replying", "touching", "serving"}]
    /\ \A c \in Clients :
         /\ pc[c] = "replying" => req[c] \in (1 .. minted) \cup {None}
         /\ pc[c] \in {"touching", "serving"} =>
               req[c] \in [token : 1 .. minted, ago : 0 .. idleTTL + 1]
    /\ DOMAIN req = Clients /\ build \in Builds /\ unheard \subseteq Clients

Agree(st) ==
    /\ \A t \in DOMAIN st.sessions :
         LET s == st.sessions[t] IN
         /\ s.user = UserOf[s.client] /\ t \in st.userSessions[s.user]
         /\ s.client \in DOMAIN st.clientIndex /\ st.clientIndex[s.client] = t
    /\ \A u \in Users : \A t \in st.userSessions[u] :
         t \in DOMAIN st.sessions /\ st.sessions[t].user = u
    /\ \A c \in DOMAIN st.clientIndex :
         /\ st.clientIndex[c] \in DOMAIN st.sessions
         /\ st.sessions[st.clientIndex[c]].client = c

\* The three maps of the store describe the same sessions, whatever way each
\* of them was removed: by eviction, replacement, expiry, a revocation that
\* comes late or its client's departure.  So a client has one session at most
\* and nothing is left behind that would count against a user's limit.
MapsAgree == Agree(store)

WithinLimits(st) ==
    /\ \A u \in Users : Cardinality(st.userSessions[u]) <= perUserLimit
    /\ Cardinality(DOMAIN st.sessions) <= globalLimit

\* "Hard cap of 5 concurrent sessions per user" and "Bounded global table cap
\* of 10,000 sessions", in the order CreateSession goes about them.
LimitsHold == WithinLimits(store)

\* A client that is between two calls and holds a token the server no longer
\* knows has lost it to its user's other clients, to time, or to a
\* registration of its own whose reply it missed: never to a revocation meant
\* for an earlier session, and never to another client's departure.
TokensAreLostForAReason ==
    \A c \in Clients :
        up[c] = "up" /\ pc[c] = "idle" /\ token[c] # None
          /\ token[c] \notin DOMAIN store.sessions
        => \/ fate[token[c]] \in {"evicted", "expired"}
           \/ fate[token[c]] = "replaced" /\ c \in unheard

\* "On client shutdown, UnregisterClient revokes the active session".
DepartureRevokes ==
    \A c \in Clients : up[c] = "gone" /\ pc[c] = "idle" /\ c \notin unheard
        => c \notin DOMAIN store.clientIndex

=============================================================================
