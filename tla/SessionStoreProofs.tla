------------------------- MODULE SessionStoreProofs -------------------------
(***************************************************************************)
(* Proofs about SessionStore, for every value of its constants.            *)
(*                                                                         *)
(* The invariant is Good: the maps are typed, agree with each other and    *)
(* are within the limits.  Every removal is shown to be one and the same   *)
(* operation, Shrunk, and Good is proved once for it, once for Insert and  *)
(* once for what only changes the ages.                                    *)
(***************************************************************************)
EXTENDS SessionStore, FiniteSetTheorems, WellFoundedInduction, TLAPS

Good(st, n) == Typed(st, n) /\ Agree(st) /\ WithinLimits(st)

\* The store without the sessions T, all three maps at once.
Shrunk(st, T) ==
    Store(Without(st.sessions, T), [u \in Users |-> st.userSessions[u] \ T],
          Without(st.clientIndex, {st.sessions[t].client : t \in T}))
-----------------------------------------------------------------------------
\* The oldest of a user's sessions is one of them.
LEMMA OldestIsOne == ASSUME NEW T \in SUBSET Nat, T # {} PROVE Oldest(T) \in T
<1>1. \E x \in T : \A y \in T : ~(<<y, x>> \in OpToRel(<, Nat))
  BY NatLessThanWellFounded, WFMin, Zenon
<1>2. PICK x \in T : \A y \in T : ~(<<y, x>> \in OpToRel(<, Nat))
  BY <1>1
<1>3. ASSUME NEW y \in T PROVE x <= y
  <2>1. <<y, x>> \in Nat \X Nat /\ <<y, x>>[1] = y /\ <<y, x>>[2] = x
    OBVIOUS
  <2>2. ~(y < x)
    BY <1>2, <2>1, Zenon DEF OpToRel
  <2> QED BY <2>2
<1> QED BY <1>3 DEF Oldest

\* The tables are finite, so their sizes are numbers.
LEMMA Sizes ==
    ASSUME NEW n \in Nat, NEW st, Typed(st, n)
    PROVE  /\ IsFiniteSet(DOMAIN st.sessions) /\ Cardinality(DOMAIN st.sessions) \in Nat
           /\ \A u \in Users : /\ IsFiniteSet(st.userSessions[u])
                               /\ Cardinality(st.userSessions[u]) \in Nat
<1>1. IsFiniteSet(1 .. n)
  BY FS_Interval
<1>2. DOMAIN st.sessions \in SUBSET (1 .. n) /\ \A u \in Users : st.userSessions[u] \in SUBSET (1 .. n)
  BY DEF Typed
<1> QED BY <1>1, <1>2, FS_Subset, FS_CardinalityType

\* Taking sessions out of all three maps keeps the store good.
LEMMA ShrinkGood ==
    ASSUME NEW n \in Nat, NEW st, Good(st, n), NEW T \in SUBSET DOMAIN st.sessions
    PROVE  /\ Good(Shrunk(st, T), n)
           /\ Cardinality(DOMAIN Shrunk(st, T).sessions) <= Cardinality(DOMAIN st.sessions)
           /\ \A u \in Users : Cardinality(Shrunk(st, T).userSessions[u])
                                 <= Cardinality(st.userSessions[u])
<1> DEFINE new == Shrunk(st, T)
<1>1. /\ DOMAIN new.sessions = DOMAIN st.sessions \ T
      /\ \A t \in DOMAIN new.sessions : new.sessions[t] = st.sessions[t]
      /\ new.userSessions = [u \in Users |-> st.userSessions[u] \ T]
      /\ DOMAIN new.clientIndex = DOMAIN st.clientIndex \ {st.sessions[t].client : t \in T}
      /\ \A c \in DOMAIN new.clientIndex : new.clientIndex[c] = st.clientIndex[c]
  BY DEF Shrunk, Store, Without
<1> HIDE DEF new
<1>2. Typed(new, n)
  BY <1>1 DEF Good, Typed
<1>3. Agree(new)
  <2> USE <1>1 DEF Good
  <2>1. ASSUME NEW t \in DOMAIN new.sessions
        PROVE  LET s == new.sessions[t] IN
               /\ s.user = UserOf[s.client] /\ t \in new.userSessions[s.user]
               /\ s.client \in DOMAIN new.clientIndex /\ new.clientIndex[s.client] = t
    <3> DEFINE s == st.sessions[t]
    <3>1. /\ t \in DOMAIN st.sessions /\ t \notin T /\ new.sessions[t] = s
          /\ s.user = UserOf[s.client] /\ t \in st.userSessions[s.user]
          /\ s.client \in DOMAIN st.clientIndex /\ st.clientIndex[s.client] = t
      BY DEF Agree
    <3>2. s \in Session
      BY <3>1 DEF Typed
    <3>3. s.user \in Users
      BY <3>2 DEF Session
    <3>4. \A r \in T : st.sessions[r].client # s.client
      BY <3>1 DEF Agree
    <3> QED BY <3>1, <3>3, <3>4
  <2>2. ASSUME NEW u \in Users, NEW t \in new.userSessions[u]
        PROVE  t \in DOMAIN new.sessions /\ new.sessions[t].user = u
    BY <2>2 DEF Agree
  <2>3. ASSUME NEW c \in DOMAIN new.clientIndex
        PROVE  /\ new.clientIndex[c] \in DOMAIN new.sessions
               /\ new.sessions[new.clientIndex[c]].client = c
    BY <2>3 DEF Agree
  <2> QED BY <2>1, <2>2, <2>3 DEF Agree
<1>4. /\ Cardinality(DOMAIN new.sessions) <= Cardinality(DOMAIN st.sessions)
      /\ \A u \in Users : Cardinality(new.userSessions[u]) <= Cardinality(st.userSessions[u])
  <2>1. DOMAIN new.sessions \in SUBSET DOMAIN st.sessions
        /\ \A u \in Users : new.userSessions[u] \in SUBSET st.userSessions[u]
    BY <1>1
  <2> QED BY <2>1, Sizes, FS_Subset DEF Good
<1>5. WithinLimits(new)
  BY <1>2, <1>4, Sizes, SessionStoreAssumption DEF Good, WithinLimits
<1> QED BY <1>2, <1>3, <1>4, <1>5 DEF Good, new

\* Purging and revoking by token are removals from all three maps.
LEMMA RemoveShrinks ==
    ASSUME NEW n \in Nat, NEW st, Good(st, n), NEW T \in SUBSET DOMAIN st.sessions
    PROVE  Remove(st, T) = Shrunk(st, T)
<1>1. ASSUME NEW u \in Users
      PROVE  st.userSessions[u] \ {t \in T : st.sessions[t].user = u} = st.userSessions[u] \ T
  BY DEF Good, Agree
<1> QED BY <1>1 DEF Remove, Shrunk

LEMMA RemoveGood ==
    ASSUME NEW n \in Nat, NEW st, Good(st, n)
    PROVE  Good(purgeExpired(st), n) /\ \A t : Good(RevokeSession(st, t), n)
<1>1. Expired(st) \in SUBSET DOMAIN st.sessions
  BY DEF Expired
<1>2. \A t : {t} \cap DOMAIN st.sessions \in SUBSET DOMAIN st.sessions
  OBVIOUS
<1> QED BY <1>1, <1>2, RemoveShrinks, ShrinkGood DEF purgeExpired, RevokeSession

\* So is revoking by client id, because the index names that client's session.
LEMMA RevokeByClientGood ==
    ASSUME NEW n \in Nat, NEW st, Good(st, n), NEW c \in Clients
    PROVE  Good(RevokeByClientID(st, c), n)
<1>1. CASE c \notin DOMAIN st.clientIndex
  BY <1>1 DEF RevokeByClientID
<1>2. CASE c \in DOMAIN st.clientIndex
  <2> DEFINE t == st.clientIndex[c]
  <2>1. t \in DOMAIN st.sessions /\ st.sessions[t].client = c
    BY <1>2 DEF Good, Agree
  <2>2. st.userSessions = [u \in Users |-> st.userSessions[u]]
    BY DEF Good, Typed
  <2>3. [st.userSessions EXCEPT ![st.sessions[t].user] = @ \ {t}]
          = [u \in Users |-> st.userSessions[u] \ {t}]
    <3>1. \A v \in Users \ {st.sessions[t].user} : t \notin st.userSessions[v]
      BY <2>1 DEF Good, Agree
    <3> QED BY <2>2, <3>1
  <2>4. RevokeByClientID(st, c) = Shrunk(st, {t})
    BY <1>2, <2>1, <2>3 DEF RevokeByClientID, Shrunk
  <2> QED BY <2>1, <2>4, ShrinkGood
<1> QED BY <1>1, <1>2

\* So is eviction, which leaves room for one more session of the user.
LEMMA EvictGood ==
    ASSUME NEW n \in Nat, NEW st, Good(st, n), NEW u \in Users
    PROVE  /\ Good(EvictOldest(st, u), n)
           /\ Cardinality(EvictOldest(st, u).userSessions[u]) < perUserLimit
           /\ Cardinality(DOMAIN EvictOldest(st, u).sessions) <= Cardinality(DOMAIN st.sessions)
<1> DEFINE mine == st.userSessions[u]
<1>0. mine \in SUBSET Nat /\ IsFiniteSet(mine) /\ Cardinality(mine) \in Nat
      /\ Cardinality(DOMAIN st.sessions) \in Nat /\ perUserLimit \in Nat \ {0}
  BY Sizes, SessionStoreAssumption DEF Good, Typed
<1>1. CASE ~Full(mine)
  BY <1>0, <1>1 DEF EvictOldest, Full
<1>2. CASE Full(mine)
  <2> DEFINE t == Oldest(mine)
  <2>1. mine # {}
    BY <1>0, <1>2, FS_EmptySet DEF Full
  <2>2. t \in mine
    BY <1>0, <2>1, OldestIsOne
  <2> HIDE DEF t
  <2>3. t \in DOMAIN st.sessions /\ \A v \in Users \ {u} : t \notin st.userSessions[v]
    BY <2>2 DEF Good, Agree
  <2>4. [st.userSessions EXCEPT ![u] = @ \ {t}] = [v \in Users |-> st.userSessions[v] \ {t}]
    BY <2>3 DEF Good, Typed
  <2>5. {st.sessions[r].client : r \in {t}} = {st.sessions[t].client}
    OBVIOUS
  <2>6. EvictOldest(st, u) = Shrunk(st, {t})
    BY <1>2, <2>3, <2>4, <2>5 DEF EvictOldest, Shrunk, t
  <2>7. EvictOldest(st, u).userSessions[u] = mine \ {t}
    BY <2>6 DEF Shrunk, Store
  <2>8. Cardinality(mine \ {t}) < perUserLimit
    <3>1. Cardinality(mine) <= perUserLimit
      BY DEF Good, WithinLimits
    <3>2. Cardinality(mine \ {t}) = Cardinality(mine) - 1
      BY <1>0, <2>2, FS_RemoveElement
    <3> QED BY <1>0, <3>1, <3>2
  <2> QED BY <2>3, <2>6, <2>7, <2>8, ShrinkGood
<1> QED BY <1>1, <1>2

\* A new session of a client that has none, where there is room for it.
LEMMA InsertGood ==
    ASSUME NEW n \in Nat, NEW st, Good(st, n), NEW c \in Clients, NEW ip \in Addrs,
           c \notin DOMAIN st.clientIndex, HasRoom(st),
           Cardinality(st.userSessions[UserOf[c]]) < perUserLimit
    PROVE  Good(Insert(st, n + 1, UserOf[c], c, ip), n + 1)
<1> DEFINE new == Insert(st, n + 1, UserOf[c], c, ip)
           s == [user |-> UserOf[c], client |-> c, ip |-> ip, idle |-> 0, age |-> 0]
<1>0. s \in Session /\ UserOf[c] \in Users
  BY SessionStoreAssumption DEF Session
<1>1. /\ DOMAIN new.sessions = DOMAIN st.sessions \cup {n + 1}
      /\ new.sessions[n + 1] = s
      /\ \A t \in DOMAIN st.sessions \ {n + 1} : new.sessions[t] = st.sessions[t]
      /\ new.userSessions = [st.userSessions EXCEPT ![UserOf[c]] = @ \cup {n + 1}]
      /\ DOMAIN new.clientIndex = DOMAIN st.clientIndex \cup {c}
      /\ new.clientIndex[c] = n + 1
      /\ \A d \in DOMAIN st.clientIndex : new.clientIndex[d] = st.clientIndex[d]
  BY DEF Insert, Store, Put
<1>2. s.user = UserOf[c] /\ s.client = c
  OBVIOUS
<1> HIDE DEF new, s
<1>3. n + 1 \notin DOMAIN st.sessions /\ \A u \in Users : n + 1 \notin st.userSessions[u]
  BY DEF Good, Typed
<1>4. /\ new.userSessions[UserOf[c]] = st.userSessions[UserOf[c]] \cup {n + 1}
      /\ \A u \in Users \ {UserOf[c]} : new.userSessions[u] = st.userSessions[u]
  BY <1>0, <1>1 DEF Good, Typed
<1>5. Typed(new, n + 1)
  <2>1. 1 .. n \subseteq 1 .. n + 1 /\ n + 1 \in 1 .. n + 1
    OBVIOUS
  <2>2. new.userSessions \in [Users -> SUBSET (1 .. n + 1)]
    <3>1. st.userSessions \in [Users -> SUBSET (1 .. n)]
      BY DEF Good, Typed
    <3>2. new.userSessions = [u \in Users |-> IF u = UserOf[c] THEN st.userSessions[u] \cup {n + 1}
                                               ELSE st.userSessions[u]]
      BY <1>1, <3>1
    <3>3. \A u \in Users : st.userSessions[u] \subseteq 1 .. n + 1
      BY <2>1, <3>1
    <3> QED BY <2>1, <3>2, <3>3
  <2> QED BY <1>0, <1>1, <2>1, <2>2 DEF Good, Typed
<1>6. Agree(new)
  <2>1. ASSUME NEW t \in DOMAIN new.sessions
        PROVE  LET r == new.sessions[t] IN
               /\ r.user = UserOf[r.client] /\ t \in new.userSessions[r.user]
               /\ r.client \in DOMAIN new.clientIndex /\ new.clientIndex[r.client] = t
    <3>1. CASE t = n + 1
      BY <1>1, <1>2, <1>4, <3>1
    <3>2. CASE t # n + 1
      <4>1. t \in DOMAIN st.sessions /\ new.sessions[t] = st.sessions[t]
        BY <1>1, <3>2
      <4>2. st.sessions[t] \in Session
        BY <4>1 DEF Good, Typed
      <4>3. st.sessions[t].user \in Users
        BY <4>2 DEF Session
      <4> QED BY <1>1, <1>4, <4>1, <4>3 DEF Good, Agree
    <3> QED BY <3>1, <3>2
  <2>2. ASSUME NEW u \in Users, NEW t \in new.userSessions[u]
        PROVE  t \in DOMAIN new.sessions /\ new.sessions[t].user = u
    BY <1>1, <1>2, <1>3, <1>4 DEF Good, Agree
  <2>3. ASSUME NEW d \in DOMAIN new.clientIndex
        PROVE  /\ new.clientIndex[d] \in DOMAIN new.sessions
               /\ new.sessions[new.clientIndex[d]].client = d
    BY <1>1, <1>2, <1>3 DEF Good, Agree
  <2> QED BY <2>1, <2>2, <2>3 DEF Agree
<1>7. WithinLimits(new)
  <2>1. IsFiniteSet(DOMAIN st.sessions) /\ IsFiniteSet(st.userSessions[UserOf[c]])
        /\ Cardinality(DOMAIN st.sessions) \in Nat /\ Cardinality(st.userSessions[UserOf[c]]) \in Nat
        /\ {perUserLimit, globalLimit} \subseteq Nat
    BY <1>0, Sizes, SessionStoreAssumption DEF Good
  <2>2. Cardinality(DOMAIN new.sessions) = Cardinality(DOMAIN st.sessions) + 1
    BY <1>1, <1>3, <2>1, FS_AddElement
  <2>3. Cardinality(new.userSessions[UserOf[c]]) = Cardinality(st.userSessions[UserOf[c]]) + 1
    BY <1>0, <1>3, <1>4, <2>1, FS_AddElement
  <2>4. \A u \in Users : Cardinality(new.userSessions[u]) <= perUserLimit
    <3>1. \A u \in Users \ {UserOf[c]} : Cardinality(new.userSessions[u]) <= perUserLimit
      BY <1>4 DEF Good, WithinLimits
    <3>2. Cardinality(new.userSessions[UserOf[c]]) <= perUserLimit
      BY <2>1, <2>3
    <3> QED BY <3>1, <3>2
  <2> QED BY <2>1, <2>2, <2>4 DEF WithinLimits, HasRoom
<1> QED BY <1>5, <1>6, <1>7 DEF Good, new

\* Touching a session, and the passing of time, change ages only.
LEMMA AgesGood ==
    ASSUME NEW n \in Nat, NEW st, Good(st, n)
    PROVE  /\ Good(Aged(st), n)
           /\ \A t, k : k \in 0 .. idleTTL + 1 => Good(Touch(st, t, k), n)
<1>1. ASSUME NEW new, new.userSessions = st.userSessions, new.clientIndex = st.clientIndex,
             DOMAIN new.sessions = DOMAIN st.sessions,
             \A t \in DOMAIN st.sessions :
                /\ new.sessions[t] \in Session
                /\ new.sessions[t].user = st.sessions[t].user
                /\ new.sessions[t].client = st.sessions[t].client
      PROVE  Good(new, n)
  BY <1>1 DEF Good, Typed, Agree, WithinLimits
<1>2. idleTTL \in Nat /\ absoluteTTL \in Nat
      /\ \A t \in DOMAIN st.sessions : st.sessions[t] \in Session
  BY SessionStoreAssumption DEF Good, Typed
<1>3. Good(Aged(st), n)
  <2> DEFINE new == Aged(st)
             s(t) == st.sessions[t]
  <2>1. /\ new.userSessions = st.userSessions /\ new.clientIndex = st.clientIndex
        /\ DOMAIN new.sessions = DOMAIN st.sessions
        /\ \A t \in DOMAIN st.sessions : new.sessions[t] =
             [s(t) EXCEPT !.idle = Cap(@, idleTTL), !.age = Cap(@, absoluteTTL)]
    BY DEF Aged, Store
  <2> HIDE DEF new
  <2>2. ASSUME NEW t \in DOMAIN st.sessions
        PROVE  /\ new.sessions[t] \in Session
               /\ new.sessions[t].user = st.sessions[t].user
               /\ new.sessions[t].client = st.sessions[t].client
    <3> DEFINE i == Cap(s(t).idle, idleTTL)
               a == Cap(s(t).age, absoluteTTL)
    <3>1. s(t) \in Session /\ s(t).idle \in 0 .. idleTTL + 1 /\ s(t).age \in 0 .. absoluteTTL + 1
      BY <1>2 DEF Session
    <3>2. i \in 0 .. idleTTL + 1 /\ a \in 0 .. absoluteTTL + 1
      BY <1>2, <3>1 DEF Cap
    <3>3. new.sessions[t] = [s(t) EXCEPT !.idle = i, !.age = a]
      BY <2>1
    <3> HIDE DEF i, a
    <3> QED BY <3>1, <3>2, <3>3 DEF Session
  <2>3. Good(new, n)
    BY <1>1, <2>1, <2>2
  <2> QED BY <2>3 DEF new
<1>4. ASSUME NEW t, NEW k \in 0 .. idleTTL + 1 PROVE Good(Touch(st, t, k), n)
  <2>1. CASE t \notin DOMAIN st.sessions
    BY <2>1 DEF Touch
  <2>2. CASE t \in DOMAIN st.sessions
    <3> DEFINE new == Touch(st, t, k)
    <3>1. /\ new.userSessions = st.userSessions /\ new.clientIndex = st.clientIndex
          /\ new.sessions = [st.sessions EXCEPT ![t].idle = k]
      BY <2>2 DEF Touch, Store
    <3> HIDE DEF new
    <3>2. DOMAIN new.sessions = DOMAIN st.sessions
      BY <3>1
    <3>3. ASSUME NEW r \in DOMAIN st.sessions
          PROVE  /\ new.sessions[r] \in Session
                 /\ new.sessions[r].user = st.sessions[r].user
                 /\ new.sessions[r].client = st.sessions[r].client
      <4>1. CASE r = t
        <5>1. new.sessions[r] = [st.sessions[r] EXCEPT !.idle = k]
          BY <3>1, <4>1
        <5> QED BY <1>2, <5>1 DEF Session
      <4>2. CASE r # t
        <5>1. new.sessions[r] = st.sessions[r]
          BY <3>1, <4>2
        <5> QED BY <1>2, <5>1
      <4> QED BY <4>1, <4>2
    <3>4. Good(new, n)
      BY <1>1, <3>1, <3>2, <3>3
    <3> QED BY <3>4 DEF new
  <2> QED BY <2>1, <2>2
<1> QED BY <1>3, <1>4

\* CreateSession: by the time the session is inserted its client has none, the
\* user is below the limit and the table has not grown.  That the previous
\* session's entry of the index is left in place does not show.
LEMMA CreateGood ==
    ASSUME NEW n \in Nat, NEW st, Good(st, n), HasRoom(st), NEW c \in Clients, NEW ip \in Addrs
    PROVE  Good(CreateSession(st, n + 1, c, ip), n + 1)
<1> DEFINE u == UserOf[c]
           ev == EvictOldest(st, u)
<1>1. u \in Users
  BY SessionStoreAssumption
<1>2. /\ Good(ev, n) /\ Cardinality(ev.userSessions[u]) < perUserLimit
      /\ Cardinality(DOMAIN ev.sessions) <= Cardinality(DOMAIN st.sessions)
  BY <1>1, EvictGood
<1>3. CreateSession(st, n + 1, c, ip) = Insert(DropPrevious(ev, u, c), n + 1, u, c, ip)
  BY DEF CreateSession
<1>4. HasRoom(ev)
  <2>1. Cardinality(DOMAIN ev.sessions) \in Nat /\ Cardinality(DOMAIN st.sessions) \in Nat
        /\ globalLimit \in Nat
    BY <1>2, Sizes, SessionStoreAssumption DEF Good
  <2> QED BY <1>2, <2>1 DEF HasRoom
<1> HIDE DEF ev, u
<1>5. CASE c \notin DOMAIN ev.clientIndex
  <2>1. Good(Insert(ev, n + 1, u, c, ip), n + 1)
    BY <1>2, <1>4, <1>5, InsertGood DEF u
  <2> QED BY <1>3, <1>5, <2>1 DEF DropPrevious
<1>6. CASE c \in DOMAIN ev.clientIndex
  <2> DEFINE t == ev.clientIndex[c]
             rest == Shrunk(ev, {t})
  <2>1. /\ t \in DOMAIN ev.sessions /\ ev.sessions[t].client = c /\ ev.sessions[t].user = u
        /\ \A v \in Users \ {u} : t \notin ev.userSessions[v]
    BY <1>2, <1>6 DEF Good, Agree, u
  <2>2. /\ Good(rest, n)
        /\ Cardinality(DOMAIN rest.sessions) <= Cardinality(DOMAIN ev.sessions)
        /\ Cardinality(rest.userSessions[u]) <= Cardinality(ev.userSessions[u])
    BY <1>1, <1>2, <2>1, ShrinkGood
  <2>3. HasRoom(rest) /\ Cardinality(rest.userSessions[u]) < perUserLimit
    <3>1. /\ {Cardinality(DOMAIN ev.sessions), Cardinality(ev.userSessions[u]),
              Cardinality(DOMAIN rest.sessions), Cardinality(rest.userSessions[u])} \subseteq Nat
          /\ {perUserLimit, globalLimit} \subseteq Nat
      BY <1>1, <1>2, <2>2, Sizes, SessionStoreAssumption DEF Good
    <3> QED BY <1>2, <1>4, <2>2, <3>1 DEF HasRoom
  <2>4. {ev.sessions[r].client : r \in {t}} = {c}
    BY <2>1
  <2>5. /\ rest.sessions = Without(ev.sessions, {t})
        /\ rest.userSessions = [v \in Users |-> ev.userSessions[v] \ {t}]
        /\ rest.clientIndex = Without(ev.clientIndex, {c})
    BY <2>4 DEF Shrunk, Store
  <2>6. c \notin DOMAIN rest.clientIndex
    BY <2>5 DEF Without
  <2>7. Good(Insert(rest, n + 1, u, c, ip), n + 1)
    BY <2>2, <2>3, <2>6, InsertGood DEF u
  <2>8. /\ DropPrevious(ev, u, c).sessions = rest.sessions
        /\ DropPrevious(ev, u, c).userSessions = rest.userSessions
        /\ DropPrevious(ev, u, c).clientIndex = ev.clientIndex
    <3>1. [ev.userSessions EXCEPT ![u] = @ \ {t}] = [v \in Users |-> ev.userSessions[v] \ {t}]
      BY <1>2, <2>1 DEF Good, Typed
    <3> QED BY <1>6, <2>5, <3>1 DEF DropPrevious, Store
  <2>9. Put(ev.clientIndex, c, n + 1) = Put(rest.clientIndex, c, n + 1)
    BY <1>6, <2>5 DEF Put, Without
  <2>10. Insert(DropPrevious(ev, u, c), n + 1, u, c, ip) = Insert(rest, n + 1, u, c, ip)
    BY <2>8, <2>9 DEF Insert
  <2> QED BY <1>3, <2>7, <2>10
<1> QED BY <1>5, <1>6

-----------------------------------------------------------------------------
\* Together with the types of the calls this is inductive.
Inv == TypeOK /\ Good(store, minted)

LEMMA InitInv == Init => Inv
<1> SUFFICES ASSUME Init PROVE Inv
  OBVIOUS
<1>1. /\ store.sessions = <<>> /\ store.clientIndex = <<>>
      /\ store.userSessions = [u \in Users |-> {}]
  BY DEF Init, NewStore, Store
<1>2. DOMAIN store.sessions = {} /\ DOMAIN store.clientIndex = {}
  BY <1>1
<1>3. Typed(store, minted)
  BY <1>1, <1>2 DEF Typed
<1>4. Agree(store)
  BY <1>1, <1>2 DEF Agree
<1>5. WithinLimits(store)
  BY <1>1, <1>2, FS_EmptySet, SessionStoreAssumption DEF WithinLimits
<1> QED BY <1>3, <1>4, <1>5 DEF Inv, Good, TypeOK, Init

\* A call's locals fit its label.
Fits(label, r, n) ==
    /\ label = "replying" => r \in (1 .. n) \cup {None}
    /\ label \in {"touching", "serving"} => r \in [token : 1 .. n, ago : 0 .. idleTTL + 1]

\* The part of the type invariant that is not about the store.
CallsOK ==
    /\ minted \in Nat /\ revoking \subseteq 1 .. minted
    /\ up \in [Clients -> {"new", "up", "gone"}]
    /\ token \in [Clients -> (1 .. minted) \cup {None}]
    /\ pc \in [Clients -> {"idle", "replying", "touching", "serving"}]
    /\ \A c \in Clients : Fits(pc[c], req[c], minted)
    /\ DOMAIN req = Clients /\ build \in Builds /\ unheard \subseteq Clients

LEMMA InvParts == Inv <=> CallsOK /\ Good(store, minted)
  BY DEF Inv, TypeOK, CallsOK, Good, Fits

\* A call that moves on to a label its locals fit leaves the others as they are.
LEMMA GotoFits ==
    ASSUME CallsOK, NEW c \in Clients, NEW r, NEW m \in Nat, m >= minted,
           NEW label \in {"idle", "replying", "touching", "serving"},
           Goto(c, label, r), Fits(label, r, m)
    PROVE  /\ pc' \in [Clients -> {"idle", "replying", "touching", "serving"}]
           /\ \A d \in Clients : Fits(pc'[d], req'[d], m)
           /\ DOMAIN req' = Clients
<1>1. minted \in Nat /\ 1 .. minted \subseteq 1 .. m
  BY DEF CallsOK
<1>2. pc' = [pc EXCEPT ![c] = label] /\ req' = [req EXCEPT ![c] = r]
  BY DEF Goto
<1>3. ASSUME NEW d \in Clients PROVE Fits(pc'[d], req'[d], m)
  <2>1. CASE d = c
    <3>1. pc'[d] = label /\ req'[d] = r
      BY <1>2, <2>1 DEF CallsOK
    <3> QED BY <3>1
  <2>2. CASE d # c
    <3>1. pc'[d] = pc[d] /\ req'[d] = req[d]
      BY <1>2, <2>2 DEF CallsOK
    <3>2. Fits(pc[d], req[d], minted)
      BY DEF CallsOK
    <3>3. Fits(pc[d], req[d], m)
      BY <1>1, <3>2 DEF Fits
    <3> QED BY <3>1, <3>3
  <2> QED BY <2>1, <2>2
<1>4. pc' \in [Clients -> {"idle", "replying", "touching", "serving"}] /\ DOMAIN req' = Clients
  BY <1>2 DEF CallsOK
<1> QED BY <1>3, <1>4

LEMMA RegisterStep ==
    ASSUME Inv, NEW c \in Clients, RegisterClient(c)
    PROVE  Inv'
<1> DEFINE roomy == MakeRoom(store)
<1>1. CallsOK /\ Good(store, minted) /\ minted \in Nat
  BY InvParts DEF CallsOK
<1>2. Good(roomy, minted)
  BY <1>1, RemoveGood DEF MakeRoom
<1>3. CASE HasRoom(roomy)
  <2>1. /\ \E ip \in Addrs : store' = CreateSession(roomy, minted + 1, c, ip)
        /\ minted' = minted + 1 /\ Goto(c, "replying", minted + 1)
        /\ revoking' = revoking /\ up' = up /\ token' = token /\ build' = build
        /\ unheard' = unheard
    BY <1>3 DEF RegisterClient, Issued
  <2>2. Good(store', minted')
    BY <1>1, <1>2, <1>3, <2>1, CreateGood
  <2>3. minted + 1 \in Nat /\ minted + 1 >= minted /\ minted + 1 \in 1 .. minted + 1
        /\ 1 .. minted \subseteq 1 .. minted + 1
    BY <1>1
  <2>4. Fits("replying", minted + 1, minted + 1)
    BY <2>3 DEF Fits
  <2>5. /\ pc' \in [Clients -> {"idle", "replying", "touching", "serving"}]
        /\ \A d \in Clients : Fits(pc'[d], req'[d], minted')
        /\ DOMAIN req' = Clients
    BY <1>1, <2>1, <2>3, <2>4, GotoFits
  <2>6. token' \in [Clients -> (1 .. minted') \cup {None}] /\ revoking' \subseteq 1 .. minted'
    BY <1>1, <2>1, <2>3 DEF CallsOK
  <2>7. CallsOK'
    BY <1>1, <2>1, <2>3, <2>5, <2>6 DEF CallsOK
  <2> QED BY <2>2, <2>7 DEF Inv, TypeOK, CallsOK, Good, Fits
<1>4. CASE ~HasRoom(roomy)
  <2>1. /\ store' = roomy /\ minted' = minted /\ Goto(c, "replying", None)
        /\ revoking' = revoking /\ up' = up /\ token' = token /\ build' = build
        /\ unheard' = unheard
    BY <1>4 DEF RegisterClient, Issued
  <2>2. Fits("replying", None, minted)
    BY DEF Fits
  <2>3. /\ pc' \in [Clients -> {"idle", "replying", "touching", "serving"}]
        /\ \A d \in Clients : Fits(pc'[d], req'[d], minted)
        /\ DOMAIN req' = Clients
    BY <1>1, <2>1, <2>2, GotoFits
  <2>4. CallsOK'
    BY <1>1, <2>1, <2>3 DEF CallsOK
  <2>5. Good(store', minted')
    BY <1>2, <2>1
  <2> QED BY <2>4, <2>5 DEF Inv, TypeOK, CallsOK, Good, Fits
<1> QED BY <1>3, <1>4

\* The other steps of a client's calls mint nothing.
LEMMA CallStep ==
    ASSUME Inv, NEW c \in Clients,
           \/ Registered(c) \/ ReplyLost(c) \/ CheckSession(c) \/ RefuseExpired(c)
           \/ TouchSession(c) \/ UploadChunk(c) \/ Served(c) \/ Disconnect(c)
    PROVE  Inv'
<1>1. CallsOK /\ Good(store, minted) /\ minted \in Nat
  BY InvParts DEF CallsOK
<1> DEFINE PcOK == /\ pc' \in [Clients -> {"idle", "replying", "touching", "serving"}]
                   /\ \A d \in Clients : Fits(pc'[d], req'[d], minted)
                   /\ DOMAIN req' = Clients
<1>2. Fits("idle", None, minted)
  BY DEF Fits
<1>3. CASE Registered(c)
  <2>1. PcOK
    BY <1>1, <1>2, <1>3, GotoFits DEF Registered
  <2>2. pc[c] = "replying" /\ Fits(pc[c], req[c], minted)
    BY <1>1, <1>3 DEF CallsOK, Registered
  <2>3. req[c] \in (1 .. minted) \cup {None}
    BY <2>2 DEF Fits
  <2>4. /\ up' \in [Clients -> {"new", "up", "gone"}]
        /\ token' \in [Clients -> (1 .. minted) \cup {None}]
    BY <1>1, <1>3, <2>3 DEF CallsOK, Registered
  <2>5. CallsOK'
    BY <1>1, <1>3, <2>1, <2>4 DEF CallsOK, Registered, history
  <2> QED BY <1>1, <1>3, <2>5 DEF Inv, TypeOK, CallsOK, Good, Fits, Registered
<1>4. CASE ReplyLost(c)
  <2>1. PcOK
    BY <1>1, <1>2, <1>4, GotoFits DEF ReplyLost
  <2>2. up' \in [Clients -> {"new", "up", "gone"}]
    BY <1>1, <1>4 DEF CallsOK, ReplyLost
  <2>3. CallsOK'
    BY <1>1, <1>4, <2>1, <2>2 DEF CallsOK, ReplyLost
  <2> QED BY <1>1, <1>4, <2>3 DEF Inv, TypeOK, CallsOK, Good, Fits, ReplyLost
<1>5. CASE CheckSession(c)
  <2>1. token[c] \in 1 .. minted
    BY <1>1, <1>5 DEF Good, Typed, CheckSession
  <2>2. Fits("touching", [token |-> token[c], ago |-> 0], minted)
    BY <2>1, SessionStoreAssumption DEF Fits
  <2>3. PcOK
    BY <1>1, <1>5, <2>2, GotoFits DEF CheckSession
  <2>4. CallsOK'
    BY <1>1, <1>5, <2>3 DEF CallsOK, CheckSession, history
  <2> QED BY <1>1, <1>5, <2>4 DEF Inv, TypeOK, CallsOK, Good, Fits, CheckSession
<1>6. CASE RefuseExpired(c)
  <2>1. token[c] \in 1 .. minted
    BY <1>1, <1>6 DEF Good, Typed, RefuseExpired, Expired
  <2>2. CallsOK'
    BY <1>1, <1>6, <2>1 DEF CallsOK, RefuseExpired, history
  <2> QED BY <1>1, <1>6, <2>2 DEF Inv, TypeOK, CallsOK, Good, Fits, RefuseExpired
<1>7. CASE TouchSession(c)
  <2>1. pc[c] = "touching" /\ Fits(pc[c], req[c], minted)
    BY <1>1, <1>7 DEF CallsOK, TouchSession
  <2>2. req[c] \in [token : 1 .. minted, ago : 0 .. idleTTL + 1] /\ Fits("serving", req[c], minted)
    BY <2>1 DEF Fits
  <2>3. PcOK
    BY <1>1, <1>7, <2>2, GotoFits DEF TouchSession
  <2>4. Good(store', minted)
    BY <1>1, <1>7, <2>2, AgesGood DEF TouchSession
  <2>5. CallsOK'
    BY <1>1, <1>7, <2>3 DEF CallsOK, TouchSession, history
  <2> QED BY <1>7, <2>4, <2>5 DEF Inv, TypeOK, CallsOK, Good, Fits, TouchSession
<1>8. CASE UploadChunk(c)
  <2>1. 0 \in 0 .. idleTTL + 1
    BY SessionStoreAssumption
  <2>2. Good(store', minted)
    BY <1>1, <1>8, <2>1, AgesGood DEF UploadChunk
  <2>3. CallsOK'
    BY <1>1, <1>8 DEF CallsOK, UploadChunk, history
  <2> QED BY <1>8, <2>2, <2>3 DEF Inv, TypeOK, CallsOK, Good, Fits, UploadChunk
<1>9. CASE Served(c)
  <2>1. PcOK
    BY <1>1, <1>2, <1>9, GotoFits DEF Served
  <2>2. CallsOK'
    BY <1>1, <1>9, <2>1 DEF CallsOK, Served, history
  <2> QED BY <1>1, <1>9, <2>2 DEF Inv, TypeOK, CallsOK, Good, Fits, Served
<1>10. CASE Disconnect(c)
  <2>1. Good(store', minted)
    BY <1>1, <1>10, RevokeByClientGood DEF Disconnect, UnregisterClient
  <2>2. CallsOK'
    BY <1>1, <1>10 DEF CallsOK, Disconnect
  <2> QED BY <1>10, <2>1, <2>2 DEF Inv, TypeOK, CallsOK, Good, Fits, Disconnect
<1> QED BY <1>3, <1>4, <1>5, <1>6, <1>7, <1>8, <1>9, <1>10

LEMMA BackgroundStep ==
    ASSUME Inv, (\E t \in revoking : Revoke(t)) \/ Sweep \/ Tick
    PROVE  Inv'
<1>1. CallsOK /\ Good(store, minted) /\ minted \in Nat
  BY InvParts DEF CallsOK
<1>2. ASSUME NEW t \in revoking, Revoke(t) PROVE Inv'
  <2>1. Good(store', minted)
    BY <1>1, <1>2, RemoveGood DEF Revoke
  <2>2. CallsOK'
    BY <1>1, <1>2 DEF CallsOK, Revoke
  <2> QED BY <1>2, <2>1, <2>2 DEF Inv, TypeOK, CallsOK, Good, Fits, Revoke
<1>3. CASE Sweep
  <2>1. Good(store', minted)
    BY <1>1, <1>3, RemoveGood DEF Sweep
  <2>2. CallsOK'
    BY <1>1, <1>3 DEF CallsOK, Sweep
  <2> QED BY <1>3, <2>1, <2>2 DEF Inv, TypeOK, CallsOK, Good, Fits, Sweep
<1>4. CASE Tick
  <2>1. Good(store', minted)
    BY <1>1, <1>4, AgesGood DEF Tick
  <2>2. ASSUME NEW d \in Clients PROVE Fits(pc[d], req'[d], minted)
    <3>1. Fits(pc[d], req[d], minted)
      BY <1>1 DEF CallsOK
    <3>2. CASE pc[d] # "touching"
      BY <1>4, <3>1, <3>2 DEF Tick
    <3>3. CASE pc[d] = "touching"
      <4>1. req[d] \in [token : 1 .. minted, ago : 0 .. idleTTL + 1]
        BY <3>1, <3>3 DEF Fits
      <4>2. Cap(req[d].ago, idleTTL) \in 0 .. idleTTL + 1
        BY <4>1, SessionStoreAssumption DEF Cap
      <4>3. req'[d] = [req[d] EXCEPT !.ago = Cap(req[d].ago, idleTTL)]
        BY <1>4, <3>3 DEF Tick
      <4>4. req'[d] \in [token : 1 .. minted, ago : 0 .. idleTTL + 1]
        BY <4>1, <4>2, <4>3
      <4> QED BY <3>3, <4>4 DEF Fits
    <3> QED BY <3>2, <3>3
  <2>3. CallsOK'
    BY <1>1, <1>4, <2>2 DEF CallsOK, Tick, history
  <2> QED BY <1>4, <2>1, <2>3 DEF Inv, TypeOK, CallsOK, Good, Fits, Tick
<1> QED BY <1>2, <1>3, <1>4

LEMMA NextInv == Inv /\ [Next]_vars => Inv'
<1> SUFFICES ASSUME Inv, [Next]_vars PROVE Inv'
  OBVIOUS
<1>1. CASE Next
  BY <1>1, RegisterStep, CallStep, BackgroundStep DEF Next
<1>2. CASE UNCHANGED vars
  BY <1>2 DEF vars, history, Inv, TypeOK, Good, Typed, Agree, WithinLimits
<1> QED BY <1>1, <1>2

\* The store's maps, the clients' tokens and the locals of their calls are
\* always what their types say, for any numbers of clients and sessions.
THEOREM StoreIsTyped == Spec => []TypeOK
<1>1. Inv => TypeOK
  BY DEF Inv
<1> QED BY <1>1, InitInv, NextInv, PTL DEF Spec

\* Whatever the order of registrations, evictions, expiries, late revocations
\* and departures, sessions, userSessions and clientIndex stay in step.
THEOREM MapsStayInStep == Spec => []MapsAgree
<1>1. Inv => MapsAgree
  BY DEF Inv, Good, MapsAgree
<1> QED BY <1>1, InitInv, NextInv, PTL DEF Spec

\* The limits of CreateSession are never exceeded, for any limits and any
\* number of users.
THEOREM LimitsAreHard == Spec => []LimitsHold
<1>1. Inv => LimitsHold
  BY DEF Inv, Good, LimitsHold
<1> QED BY <1>1, InitInv, NextInv, PTL DEF Spec
-----------------------------------------------------------------------------
(* Why a client's token is no longer known. *)

\* The tokens a client holds, or is about to: its own, the one a reply brings,
\* the one a call under way was made with.
Holding(label, tok, r) ==
    ({tok} \cup IF label = "replying" THEN {r}
                ELSE IF label \in {"touching", "serving"} THEN {r.token} ELSE {}) \ {None}
Held(c) == Holding(pc[c], token[c], req[c])

\* A token is held by one client, and its session is that client's.
HoldersInv ==
    /\ \A c, d \in Clients : c # d => Held(c) \cap Held(d) = {}
    /\ \A c \in Clients : \A t \in Held(c) \cap DOMAIN store.sessions : store.sessions[t].client = c

\* A session that is about to be revoked has expired, and no call under way
\* can bring it back to life.
RevokingInv ==
    \A t \in revoking \cap DOMAIN store.sessions :
        /\ IsExpired(store.sessions[t])
        /\ \A c \in Clients : pc[c] \in {"touching", "serving"} => req[c].token # t

\* The token is in the store, or has left it for one of the reasons R.
Explained(t, R) == t \in DOMAIN store.sessions \/ (t \in DOMAIN fate /\ fate[t] \in R)
Reasons(c) == {"evicted", "expired"} \cup (IF c \in unheard THEN {"replaced"} ELSE {})
\* While the reply is on its way the old token may have been replaced already.
Pending(c) == pc[c] = "replying" /\ req[c] # None
ReasonAt(c) ==
    up[c] # "gone" =>
        /\ token[c] # None =>
              Explained(token[c], Reasons(c) \cup (IF Pending(c) THEN {"replaced"} ELSE {}))
        /\ Pending(c) => Explained(req[c], Reasons(c))
ReasonInv == \A c \in Clients : ReasonAt(c)

LossInv == HoldersInv /\ RevokingInv /\ ReasonInv

\* What the step does to a token does not leave it without an explanation.
Gentle(t) ==
    /\ t \in DOMAIN store.sessions => Explained(t, {"evicted", "expired"})'
    /\ t \notin DOMAIN store.sessions /\ t \in DOMAIN fate => t \in DOMAIN fate' /\ fate'[t] = fate[t]

\* Whatever leaves the store, the sessions that stay are what they were; and
\* CreateSession takes out, besides the one it evicts, no session but the
\* previous one of its own client.
LEMMA CreateKeeps ==
    ASSUME NEW n \in Nat, NEW st, Good(st, n), NEW c \in Clients, NEW ip \in Addrs
    PROVE  LET ev == EvictOldest(st, UserOf[c])
               new == CreateSession(st, n + 1, c, ip)
           IN  /\ DOMAIN ev.sessions \subseteq DOMAIN st.sessions
               /\ \A t \in DOMAIN ev.sessions : ev.sessions[t] = st.sessions[t]
               /\ DOMAIN new.sessions \subseteq DOMAIN ev.sessions \cup {n + 1}
               /\ n + 1 \in DOMAIN new.sessions /\ new.sessions[n + 1].client = c
               /\ \A t \in DOMAIN new.sessions \ {n + 1} : new.sessions[t] = ev.sessions[t]
               /\ \A t \in DOMAIN ev.sessions : ev.sessions[t].client # c => t \in DOMAIN new.sessions
<1> DEFINE u == UserOf[c]
           ev == EvictOldest(st, u)
           dropped == DropPrevious(ev, u, c)
           new == CreateSession(st, n + 1, c, ip)
<1>1. u \in Users
  BY SessionStoreAssumption
<1>2. Good(ev, n)
  BY <1>1, EvictGood
<1>3. /\ DOMAIN ev.sessions \subseteq DOMAIN st.sessions
      /\ \A t \in DOMAIN ev.sessions : ev.sessions[t] = st.sessions[t]
  BY DEF EvictOldest, Store, Without
<1>4. new = Insert(dropped, n + 1, u, c, ip)
  BY DEF CreateSession
<1> HIDE DEF ev, u
<1>5. /\ DOMAIN dropped.sessions \subseteq DOMAIN ev.sessions
      /\ \A t \in DOMAIN dropped.sessions : dropped.sessions[t] = ev.sessions[t]
      /\ \A t \in DOMAIN ev.sessions : ev.sessions[t].client # c => t \in DOMAIN dropped.sessions
  <2>1. CASE c \notin DOMAIN ev.clientIndex
    BY <2>1 DEF DropPrevious
  <2>2. CASE c \in DOMAIN ev.clientIndex
    <3>1. dropped.sessions = Without(ev.sessions, {ev.clientIndex[c]})
      BY <2>2 DEF DropPrevious, Store
    <3>2. ev.sessions[ev.clientIndex[c]].client = c
      BY <1>2, <2>2 DEF Good, Agree
    <3> QED BY <3>1, <3>2 DEF Without
  <2> QED BY <2>1, <2>2
<1> HIDE DEF dropped
<1>6. new.sessions = Put(dropped.sessions, n + 1,
                         [user |-> u, client |-> c, ip |-> ip, idle |-> 0, age |-> 0])
  BY <1>4 DEF Insert, Store
<1>7. /\ DOMAIN new.sessions = DOMAIN dropped.sessions \cup {n + 1}
      /\ new.sessions[n + 1].client = c
      /\ \A t \in DOMAIN new.sessions \ {n + 1} : new.sessions[t] = dropped.sessions[t]
  BY <1>6 DEF Put
<1> HIDE DEF new
<1> QED BY <1>3, <1>5, <1>7 DEF ev, u, new

\* What the other operations leave of the sessions.
LEMMA WhatStays ==
    ASSUME NEW n \in Nat, NEW st, Good(st, n)
    PROVE  /\ DOMAIN purgeExpired(st).sessions = DOMAIN st.sessions \ Expired(st)
           /\ \A t \in DOMAIN purgeExpired(st).sessions : purgeExpired(st).sessions[t] = st.sessions[t]
           /\ \A r : /\ DOMAIN RevokeSession(st, r).sessions = DOMAIN st.sessions \ {r}
                     /\ \A t \in DOMAIN RevokeSession(st, r).sessions :
                           RevokeSession(st, r).sessions[t] = st.sessions[t]
           /\ \A c \in Clients :
                /\ DOMAIN RevokeByClientID(st, c).sessions \subseteq DOMAIN st.sessions
                /\ \A t \in DOMAIN st.sessions :
                      st.sessions[t].client # c => t \in DOMAIN RevokeByClientID(st, c).sessions
                /\ \A t \in DOMAIN RevokeByClientID(st, c).sessions :
                      RevokeByClientID(st, c).sessions[t] = st.sessions[t]
<1>1. /\ DOMAIN purgeExpired(st).sessions = DOMAIN st.sessions \ Expired(st)
      /\ \A t \in DOMAIN purgeExpired(st).sessions : purgeExpired(st).sessions[t] = st.sessions[t]
  BY DEF purgeExpired, Remove, Store, Without
<1>2. ASSUME NEW r
      PROVE  /\ DOMAIN RevokeSession(st, r).sessions = DOMAIN st.sessions \ {r}
             /\ \A t \in DOMAIN RevokeSession(st, r).sessions :
                   RevokeSession(st, r).sessions[t] = st.sessions[t]
  BY DEF RevokeSession, Remove, Store, Without
<1>3. ASSUME NEW c \in Clients
      PROVE  /\ DOMAIN RevokeByClientID(st, c).sessions \subseteq DOMAIN st.sessions
             /\ \A t \in DOMAIN st.sessions :
                   st.sessions[t].client # c => t \in DOMAIN RevokeByClientID(st, c).sessions
             /\ \A t \in DOMAIN RevokeByClientID(st, c).sessions :
                   RevokeByClientID(st, c).sessions[t] = st.sessions[t]
  <2>1. CASE c \notin DOMAIN st.clientIndex
    BY <2>1 DEF RevokeByClientID
  <2>2. CASE c \in DOMAIN st.clientIndex
    <3>1. RevokeByClientID(st, c).sessions = Without(st.sessions, {st.clientIndex[c]})
      BY <2>2 DEF RevokeByClientID, Store
    <3>2. st.sessions[st.clientIndex[c]].client = c
      BY <2>2 DEF Good, Agree
    <3> QED BY <3>1, <3>2 DEF Without
  <2> QED BY <2>1, <2>2
<1> QED BY <1>1, <1>2, <1>3

\* Ageing keeps every session its client's, and what has expired stays so.
LEMMA WhatAges ==
    ASSUME NEW n \in Nat, NEW st, Good(st, n)
    PROVE  /\ DOMAIN Aged(st).sessions = DOMAIN st.sessions
           /\ \A t \in DOMAIN st.sessions :
                /\ Aged(st).sessions[t].client = st.sessions[t].client
                /\ IsExpired(st.sessions[t]) => IsExpired(Aged(st).sessions[t])
<1>1. ASSUME NEW t \in DOMAIN st.sessions
      PROVE  /\ Aged(st).sessions[t].client = st.sessions[t].client
             /\ IsExpired(st.sessions[t]) => IsExpired(Aged(st).sessions[t])
  <2> DEFINE s == st.sessions[t]
             i == Cap(s.idle, idleTTL)
             a == Cap(s.age, absoluteTTL)
  <2>1. s \in Session
    BY DEF Good, Typed
  <2>2. /\ Aged(st).sessions[t] = [s EXCEPT !.idle = i, !.age = a]
    BY DEF Aged, Store
  <2>3. s.idle \in Nat /\ s.age \in Nat /\ idleTTL \in Nat /\ absoluteTTL \in Nat
    BY <2>1, SessionStoreAssumption DEF Session
  <2>4. (s.idle > idleTTL => i > idleTTL) /\ (s.age > absoluteTTL => a > absoluteTTL)
    BY <2>3 DEF Cap
  <2> HIDE DEF i, a
  <2>5. [s EXCEPT !.idle = i, !.age = a].client = s.client
        /\ [s EXCEPT !.idle = i, !.age = a].idle = i /\ [s EXCEPT !.idle = i, !.age = a].age = a
    BY <2>1 DEF Session
  <2> QED BY <2>2, <2>4, <2>5 DEF IsExpired
<1>2. DOMAIN Aged(st).sessions = DOMAIN st.sessions
  BY DEF Aged, Store
<1> QED BY <1>1, <1>2

\* Touching does too, and leaves the other sessions as they were.
LEMMA WhatTouchKeeps ==
    ASSUME NEW n \in Nat, NEW st, Good(st, n), NEW r, NEW k
    PROVE  /\ DOMAIN Touch(st, r, k).sessions = DOMAIN st.sessions
           /\ \A t \in DOMAIN st.sessions :
                /\ Touch(st, r, k).sessions[t].client = st.sessions[t].client
                /\ t # r => Touch(st, r, k).sessions[t] = st.sessions[t]
<1>1. DOMAIN Touch(st, r, k).sessions = DOMAIN st.sessions
  BY DEF Touch, Store
<1>2. ASSUME NEW t \in DOMAIN st.sessions
      PROVE  /\ Touch(st, r, k).sessions[t].client = st.sessions[t].client
             /\ t # r => Touch(st, r, k).sessions[t] = st.sessions[t]
  <2>1. st.sessions[t] \in Session
    BY DEF Good, Typed
  <2>2. CASE r \notin DOMAIN st.sessions
    BY <2>2 DEF Touch
  <2>3. CASE r \in DOMAIN st.sessions
    <3>1. Touch(st, r, k).sessions = [st.sessions EXCEPT ![r].idle = k]
      BY <2>3 DEF Touch, Store
    <3>2. CASE t = r
      <4>1. Touch(st, r, k).sessions[t] = [st.sessions[t] EXCEPT !.idle = k]
        BY <3>1, <3>2
      <4> QED BY <2>1, <3>2, <4>1 DEF Session
    <3>3. CASE t # r
      BY <3>1, <3>3
    <3> QED BY <3>2, <3>3
  <2> QED BY <2>2, <2>3
<1> QED BY <1>1, <1>2

\* A step that takes nothing into anybody's hands and into the store keeps the
\* holders apart.
LEMMA HoldersKept ==
    ASSUME HoldersInv, \A d \in Clients : Held(d)' \subseteq Held(d),
           DOMAIN store'.sessions \subseteq DOMAIN store.sessions,
           \A t \in DOMAIN store'.sessions : store'.sessions[t].client = store.sessions[t].client
    PROVE  HoldersInv'
<1>1. ASSUME NEW c \in Clients, NEW d \in Clients, c # d PROVE Held(c)' \cap Held(d)' = {}
  <2>1. Held(c) \cap Held(d) = {}
    BY <1>1 DEF HoldersInv
  <2> QED BY <2>1
<1>2. ASSUME NEW c \in Clients, NEW t \in Held(c)' \cap DOMAIN store'.sessions
      PROVE  store'.sessions[t].client = c
  <2>1. t \in Held(c) \cap DOMAIN store.sessions
    OBVIOUS
  <2>2. store.sessions[t].client = c
    BY <2>1 DEF HoldersInv
  <2> QED BY <2>2
<1>3. ASSUME NEW c \in Clients, NEW d \in Clients, c # d PROVE (Held(c) \cap Held(d) = {})'
  BY <1>1, <1>3
<1> QED BY <1>2, <1>3 DEF HoldersInv

\* An explanation outlives a gentle step.
LEMMA StillExplained ==
    ASSUME NEW t, NEW R, {"evicted", "expired"} \subseteq R, Explained(t, R), Gentle(t)
    PROVE  Explained(t, R)'
  BY DEF Explained, Gentle

\* So a client whose token, and whose reply, the step is gentle with has its
\* reasons afterwards, if it is as far in its call as before.
LEMMA ReasonKept ==
    ASSUME ReasonInv, NEW c \in Clients, up'[c] \in {up[c], "gone"}, token'[c] \in {token[c], None},
           Pending(c)' <=> Pending(c), Pending(c) => req'[c] = req[c] /\ Gentle(req[c]),
           token[c] # None => Gentle(token[c]), unheard \subseteq unheard'
    PROVE  ReasonAt(c)'
<1> SUFFICES
      ASSUME up'[c] # "gone"
      PROVE  /\ token'[c] # None =>
                  (Explained(token[c], Reasons(c) \cup (IF Pending(c) THEN {"replaced"} ELSE {})))'
             /\ Pending(c)' => (Explained(req[c], Reasons(c)))'
  BY DEF ReasonAt
<1>1. ReasonAt(c) /\ up[c] # "gone"
  BY DEF ReasonInv
<1>2. Reasons(c) \subseteq Reasons(c)' /\ {"evicted", "expired"} \subseteq Reasons(c)
  BY DEF Reasons
<1> DEFINE R == Reasons(c) \cup (IF Pending(c) THEN {"replaced"} ELSE {})
<1>3. R \subseteq R'
  BY <1>2
<1>4. ASSUME NEW t, NEW S, NEW S1, S \subseteq S1, Explained(t, S)' PROVE Explained(t, S1)'
  BY <1>4 DEF Explained
<1>5. ASSUME token'[c] # None
      PROVE  (Explained(token[c], Reasons(c) \cup (IF Pending(c) THEN {"replaced"} ELSE {})))'
  <2>1. token'[c] = token[c] /\ token[c] # None /\ Gentle(token[c]) /\ Explained(token[c], R)
    BY <1>1, <1>5 DEF ReasonAt
  <2>2. PICK t, S, S1 : t = token[c] /\ S = R /\ S1 = R'
    OBVIOUS
  <2>3. Explained(t, S)'
    BY <1>2, <2>1, <2>2, StillExplained
  <2>4. Explained(t, S1)'
    BY <1>3, <1>4, <2>2, <2>3
  <2> QED BY <2>1, <2>2, <2>4 DEF Explained
<1>6. ASSUME Pending(c)' PROVE (Explained(req[c], Reasons(c)))'
  <2>1. req'[c] = req[c] /\ Gentle(req[c]) /\ Explained(req[c], Reasons(c))
    BY <1>1, <1>6 DEF ReasonAt
  <2>2. PICK t, S, S1 : t = req[c] /\ S = Reasons(c) /\ S1 = Reasons(c)'
    OBVIOUS
  <2>3. Explained(t, S)'
    BY <1>2, <2>1, <2>2, StillExplained
  <2>4. Explained(t, S1)'
    BY <1>2, <1>4, <2>2, <2>3
  <2> QED BY <2>1, <2>2, <2>4 DEF Explained
<1> QED BY <1>5, <1>6

\* A step that takes no session away is gentle with every token.
LEMMA SameGentle ==
    ASSUME DOMAIN store'.sessions = DOMAIN store.sessions, fate' = fate
    PROVE  \A t : Gentle(t)
  BY DEF Gentle, Explained

\* One that takes away is gentle with what it leaves, and with what had expired.
LEMMA RemovalGentle ==
    ASSUME NEW t, NEW why, fate' = Merge(Lost(store, store', why), fate),
           t \in DOMAIN store.sessions \ DOMAIN store'.sessions => IsExpired(store.sessions[t])
    PROVE  Gentle(t)
<1> DEFINE L == Lost(store, store', why)
<1>1. DOMAIN L = DOMAIN store.sessions \ DOMAIN store'.sessions
  BY DEF Lost
<1>2. t \in DOMAIN L => L[t] = "expired"
  BY <1>1 DEF Lost
<1>3. /\ DOMAIN fate' = DOMAIN L \cup DOMAIN fate
      /\ t \in DOMAIN L => fate'[t] = L[t]
      /\ t \in DOMAIN fate \ DOMAIN L => fate'[t] = fate[t]
  BY DEF Merge
<1> HIDE DEF L
<1> QED BY <1>1, <1>2, <1>3 DEF Gentle, Explained

\* Nothing is held, revoked or lost at first.
LEMMA LossInit == Init => LossInv
<1> SUFFICES ASSUME Init PROVE LossInv
  OBVIOUS
<1>1. \A c \in Clients : Held(c) = {}
  BY DEF Init, Held, Holding
<1>2. HoldersInv
  BY <1>1 DEF HoldersInv
<1>3. RevokingInv
  BY DEF Init, RevokingInv
<1>4. ReasonInv
  BY DEF Init, ReasonInv, ReasonAt, Pending
<1> QED BY <1>2, <1>3, <1>4 DEF LossInv

\* The steps of a client's call, other than its registration.
LEMMA LossCall ==
    ASSUME Inv, LossInv, NEW c \in Clients,
           \/ Registered(c) \/ ReplyLost(c) \/ CheckSession(c) \/ RefuseExpired(c)
           \/ TouchSession(c) \/ UploadChunk(c) \/ Served(c)
    PROVE  LossInv'
<1> USE DEF LossInv
<1>0. /\ CallsOK /\ Good(store, minted) /\ minted \in Nat
      /\ DOMAIN pc = Clients /\ DOMAIN req = Clients /\ DOMAIN token = Clients /\ DOMAIN up = Clients
  BY InvParts DEF CallsOK
<1>1. ASSUME store' = store, fate' = fate, NEW d \in Clients,
             up'[d] \in {up[d], "gone"}, token'[d] = token[d], pc'[d] = pc[d], req'[d] = req[d],
             unheard \subseteq unheard'
      PROVE  ReasonAt(d)'
  <2>1. \A t : Gentle(t)
    BY <1>1, SameGentle
  <2> QED BY <1>1, <2>1, ReasonKept DEF Pending
<1>2. CASE Registered(c)
  <2>1. /\ pc[c] = "replying" /\ pc' = [pc EXCEPT ![c] = "idle"] /\ req' = [req EXCEPT ![c] = None]
        /\ store' = store /\ fate' = fate /\ unheard' = unheard /\ revoking' = revoking
    BY <1>2 DEF Registered, Goto, history
  <2>2. IF up[c] = "gone" THEN up' = up /\ token' = token
        ELSE /\ up' = [up EXCEPT ![c] = "up"]
             /\ token' = [token EXCEPT ![c] = IF req[c] = None THEN token[c] ELSE req[c]]
    BY <1>2 DEF Registered
  <2>3. ASSUME NEW d \in Clients PROVE Held(d)' \subseteq Held(d)
    <3>1. CASE d # c
      BY <1>0, <2>1, <2>2, <3>1 DEF Held, Holding
    <3>2. CASE d = c
      <4>1. pc'[d] = "idle" /\ token'[d] \in {token[d], req[d]}
        BY <1>0, <2>1, <2>2, <3>2
      <4> QED BY <2>1, <3>2, <4>1 DEF Held, Holding
    <3> QED BY <3>1, <3>2
  <2>4. HoldersInv'
    BY <2>1, <2>3, HoldersKept
  <2>5. RevokingInv'
    BY <1>0, <2>1 DEF RevokingInv
  <2>6. ASSUME NEW d \in Clients PROVE ReasonAt(d)'
    <3>1. CASE d # c
      BY <1>0, <1>1, <2>1, <2>2, <3>1
    <3>2. CASE d = c
      <4>1. ReasonAt(c) /\ ~Pending(c)' /\ Reasons(c)' = Reasons(c)
        BY <1>0, <2>1 DEF ReasonInv, Pending, Reasons
      <4>2. CASE up[c] = "gone"
        BY <1>0, <2>2, <3>2, <4>2 DEF ReasonAt
      <4>3. CASE up[c] # "gone" /\ req[c] = None
        <5>1. token'[c] = token[c] /\ ~Pending(c)
          BY <1>0, <2>2, <4>3 DEF Pending
        <5> QED BY <2>1, <3>2, <4>1, <4>3, <5>1 DEF ReasonAt, Explained
      <4>4. CASE up[c] # "gone" /\ req[c] # None
        <5>1. token'[c] = req[c] /\ Pending(c)
          BY <1>0, <2>1, <2>2, <4>4 DEF Pending
        <5> QED BY <2>1, <3>2, <4>1, <4>4, <5>1 DEF ReasonAt, Explained
      <4> QED BY <4>2, <4>3, <4>4
    <3> QED BY <3>1, <3>2
  <2> QED BY <2>4, <2>5, <2>6 DEF ReasonInv
<1>3. CASE ReplyLost(c)
  <2>1. /\ pc[c] = "replying" /\ pc' = [pc EXCEPT ![c] = "idle"] /\ req' = [req EXCEPT ![c] = None]
        /\ store' = store /\ fate' = fate /\ unheard' = unheard \cup {c} /\ revoking' = revoking
        /\ token' = token /\ up' = [up EXCEPT ![c] = IF up[c] = "up" THEN "up" ELSE "gone"]
    BY <1>3 DEF ReplyLost, Goto
  <2>2. ASSUME NEW d \in Clients PROVE Held(d)' \subseteq Held(d)
    <3>1. CASE d # c
      BY <1>0, <2>1, <3>1 DEF Held, Holding
    <3>2. CASE d = c
      <4>1. pc'[d] = "idle" /\ token'[d] = token[d]
        BY <1>0, <2>1, <3>2
      <4> QED BY <2>1, <3>2, <4>1 DEF Held, Holding
    <3> QED BY <3>1, <3>2
  <2>3. HoldersInv'
    BY <2>1, <2>2, HoldersKept
  <2>4. RevokingInv'
    BY <1>0, <2>1 DEF RevokingInv
  <2>5. ASSUME NEW d \in Clients PROVE ReasonAt(d)'
    <3>1. CASE d # c
      BY <1>0, <1>1, <2>1, <3>1
    <3>2. CASE d = c
      <4>1. /\ ReasonAt(c) /\ ~Pending(c)' /\ (up'[c] # "gone" => up[c] # "gone")
            /\ Reasons(c) \cup {"replaced"} \subseteq Reasons(c)' /\ token'[c] = token[c]
        BY <1>0, <2>1 DEF ReasonInv, Pending, Reasons
      <4> QED BY <2>1, <3>2, <4>1 DEF ReasonAt, Explained
    <3> QED BY <3>1, <3>2
  <2> QED BY <2>3, <2>4, <2>5 DEF ReasonInv
<1>4. CASE CheckSession(c)
  <2>1. /\ pc[c] = "idle" /\ pc' = [pc EXCEPT ![c] = "touching"]
        /\ req' = [req EXCEPT ![c] = [token |-> token[c], ago |-> 0]]
        /\ store' = store /\ fate' = fate /\ unheard' = unheard /\ revoking' = revoking
        /\ token' = token /\ up' = up
        /\ token[c] \in DOMAIN store.sessions /\ ~IsExpired(store.sessions[token[c]])
    BY <1>4 DEF CheckSession, Goto, history
  <2>2. /\ pc'[c] = "touching" /\ req'[c].token = token[c]
        /\ \A d \in Clients \ {c} : pc'[d] = pc[d] /\ req'[d] = req[d]
    BY <1>0, <2>1
  <2>3. ASSUME NEW d \in Clients PROVE Held(d)' \subseteq Held(d)
    BY <2>1, <2>2 DEF Held, Holding
  <2>4. HoldersInv'
    BY <2>1, <2>3, HoldersKept
  <2>5. RevokingInv'
    BY <2>1, <2>2 DEF RevokingInv
  <2>6. ASSUME NEW d \in Clients PROVE ReasonAt(d)'
    <3>1. CASE d # c
      BY <1>1, <2>1, <2>2, <3>1
    <3>2. CASE d = c
      <4>1. \A t : Gentle(t)
        BY <2>1, SameGentle
      <4>2. ~Pending(c) /\ ~Pending(c)'
        BY <2>1, <2>2 DEF Pending
      <4> QED BY <2>1, <3>2, <4>1, <4>2, ReasonKept
    <3> QED BY <3>1, <3>2
  <2> QED BY <2>4, <2>5, <2>6 DEF ReasonInv
<1>5. CASE RefuseExpired(c)
  <2>1. /\ pc[c] = "idle" /\ pc' = pc /\ req' = req /\ store' = store /\ fate' = fate
        /\ unheard' = unheard /\ revoking' = revoking \cup {token[c]} /\ token' = token /\ up' = up
        /\ token[c] \in DOMAIN store.sessions /\ IsExpired(store.sessions[token[c]])
    BY <1>5 DEF RefuseExpired, Expired, history
  <2>2. \A d \in Clients : Held(d)' \subseteq Held(d)
    BY <2>1 DEF Held, Holding
  <2>3. HoldersInv'
    BY <2>1, <2>2, HoldersKept
  <2>4. ASSUME NEW d \in Clients, pc[d] \in {"touching", "serving"} PROVE req[d].token # token[c]
    <3>1. token[c] \in 1 .. minted /\ None \notin Nat
      BY <1>0, <2>1, SessionStoreAssumption DEF Good, Typed
    <3>2. token[c] # None
      BY <1>0, <3>1
    <3>3. token[c] \in Held(c) /\ d # c
      BY <2>1, <2>4, <3>2 DEF Held, Holding
    <3>4. token[c] \notin Held(d)
      BY <3>3 DEF HoldersInv
    <3> QED BY <2>4, <3>2, <3>4 DEF Held, Holding
  <2>5. RevokingInv'
    BY <2>1, <2>4 DEF RevokingInv
  <2>6. ReasonInv'
    BY <1>1, <2>1 DEF ReasonInv
  <2> QED BY <2>3, <2>5, <2>6
<1>6. CASE TouchSession(c) \/ UploadChunk(c)
  <2>1. PICK k : store' = Touch(store, req[c].token, k)
    BY <1>6 DEF TouchSession, UploadChunk
  <2>2. /\ pc[c] \in {"touching", "serving"} /\ \A d \in Clients : req'[d] = req[d]
        /\ pc'[c] = "serving" /\ \A d \in Clients \ {c} : pc'[d] = pc[d]
        /\ fate' = fate /\ unheard' = unheard /\ revoking' = revoking /\ token' = token /\ up' = up
    BY <1>0, <1>6 DEF TouchSession, UploadChunk, Goto, history
  <2>3. /\ DOMAIN store'.sessions = DOMAIN store.sessions
        /\ \A t \in DOMAIN store.sessions :
             /\ store'.sessions[t].client = store.sessions[t].client
             /\ t # req[c].token => store'.sessions[t] = store.sessions[t]
    <3>1. PICK r : r = req[c].token
      OBVIOUS
    <3>2. store' = Touch(store, r, k)
      BY <2>1, <3>1
    <3>3. /\ DOMAIN Touch(store, r, k).sessions = DOMAIN store.sessions
          /\ \A t \in DOMAIN store.sessions :
               /\ Touch(store, r, k).sessions[t].client = store.sessions[t].client
               /\ t # r => Touch(store, r, k).sessions[t] = store.sessions[t]
      BY <1>0, WhatTouchKeeps
    <3> QED BY <3>1, <3>2, <3>3
  <2>4. \A d \in Clients : Held(d)' \subseteq Held(d)
    BY <2>2 DEF Held, Holding
  <2>5. HoldersInv'
    BY <2>3, <2>4, HoldersKept
  <2>6. RevokingInv'
    BY <2>2, <2>3 DEF RevokingInv
  <2>7. ASSUME NEW d \in Clients PROVE ReasonAt(d)'
    <3>1. \A t : Gentle(t)
      BY <2>2, <2>3, SameGentle
    <3>2. Pending(d)' <=> Pending(d)
      BY <2>2 DEF Pending
    <3> QED BY <2>2, <3>1, <3>2, ReasonKept
  <2> QED BY <2>5, <2>6, <2>7 DEF ReasonInv
<1>7. CASE Served(c)
  <2>1. /\ pc[c] = "serving" /\ store' = store /\ fate' = fate /\ unheard' = unheard
        /\ revoking' = revoking /\ token' = token /\ up' = up
        /\ pc'[c] = "idle" /\ \A d \in Clients \ {c} : pc'[d] = pc[d] /\ req'[d] = req[d]
    BY <1>0, <1>7 DEF Served, Goto, history
  <2>2. \A d \in Clients : Held(d)' \subseteq Held(d)
    BY <2>1 DEF Held, Holding
  <2>3. HoldersInv'
    BY <2>1, <2>2, HoldersKept
  <2>4. RevokingInv'
    BY <2>1 DEF RevokingInv
  <2>5. ASSUME NEW d \in Clients PROVE ReasonAt(d)'
    <3>1. \A t : Gentle(t)
      BY <2>1, SameGentle
    <3>2. (Pending(d)' <=> Pending(d)) /\ (Pending(d) => req'[d] = req[d])
      BY <2>1 DEF Pending
    <3> QED BY <2>1, <3>1, <3>2, ReasonKept
  <2> QED BY <2>3, <2>4, <2>5 DEF ReasonInv
<1> QED BY <1>2, <1>3, <1>4, <1>5, <1>6, <1>7

\* A departure takes away no session but the client's own, and with it the token.
LEMMA LossDisconnect ==
    ASSUME Inv, LossInv, NEW c \in Clients, Disconnect(c)
    PROVE  LossInv'
<1> USE DEF LossInv
<1>0. /\ CallsOK /\ Good(store, minted) /\ minted \in Nat
      /\ DOMAIN token = Clients /\ DOMAIN up = Clients
  BY InvParts DEF CallsOK
<1>1. /\ pc' = pc /\ req' = req /\ unheard' = unheard /\ revoking' = revoking
      /\ token'[c] = None /\ \A d \in Clients \ {c} : token'[d] = token[d] /\ up'[d] = up[d]
      /\ (up'[c] = "new" /\ pc[c] = "idle") \/ up'[c] = "gone"
      /\ fate' = Merge(Lost(store, store', "left"), fate)
  BY <1>0 DEF Disconnect
<1>2. /\ DOMAIN store'.sessions \subseteq DOMAIN store.sessions
      /\ \A t \in DOMAIN store.sessions :
           store.sessions[t].client # c => t \in DOMAIN store'.sessions
      /\ \A t \in DOMAIN store'.sessions : store'.sessions[t] = store.sessions[t]
  BY <1>0, WhatStays DEF Disconnect, UnregisterClient
<1>3. \A d \in Clients : Held(d)' \subseteq Held(d)
  BY <1>1 DEF Held, Holding
<1>4. HoldersInv'
  BY <1>2, <1>3, HoldersKept
<1>5. RevokingInv'
  BY <1>1, <1>2 DEF RevokingInv
<1>6. ASSUME NEW d \in Clients PROVE ReasonAt(d)'
  <2>1. CASE d = c
    BY <1>1, <2>1 DEF ReasonAt, Pending
  <2>2. CASE d # c
    <3>1. ASSUME NEW t \in Held(d) PROVE Gentle(t)
      <4>1. t \in DOMAIN store.sessions => t \in DOMAIN store'.sessions
        BY <1>2, <2>2 DEF HoldersInv
      <4> QED BY <1>1, <4>1, RemovalGentle
    <3>2. /\ token[d] # None => token[d] \in Held(d)
          /\ Pending(d) => req[d] \in Held(d)
      BY DEF Held, Holding, Pending
    <3>3. Pending(d)' <=> Pending(d)
      BY <1>1 DEF Pending
    <3> QED BY <1>1, <2>2, <3>1, <3>2, <3>3, ReasonKept
  <2> QED BY <2>1, <2>2
<1> QED BY <1>4, <1>5, <1>6 DEF ReasonInv

\* What the sweep and the revoking goroutines take away has expired.
LEMMA LossBackground ==
    ASSUME Inv, LossInv, (\E t \in revoking : Revoke(t)) \/ Sweep \/ Tick
    PROVE  LossInv'
<1> USE DEF LossInv
<1>0. CallsOK /\ Good(store, minted) /\ minted \in Nat
  BY InvParts DEF CallsOK
<1>1. ASSUME NEW why, fate' = Merge(Lost(store, store', why), fate),
             pc' = pc, req' = req, unheard' = unheard, revoking' \subseteq revoking,
             token' = token, up' = up,
             DOMAIN store'.sessions \subseteq DOMAIN store.sessions,
             \A t \in DOMAIN store'.sessions : store'.sessions[t] = store.sessions[t],
             \A t \in DOMAIN store.sessions \ DOMAIN store'.sessions : IsExpired(store.sessions[t])
      PROVE  LossInv'
  <2>1. \A d \in Clients : Held(d)' \subseteq Held(d)
    BY <1>1 DEF Held, Holding
  <2>2. HoldersInv'
    BY <1>1, <2>1, HoldersKept
  <2>3. RevokingInv'
    BY <1>1 DEF RevokingInv
  <2>4. ASSUME NEW d \in Clients PROVE ReasonAt(d)'
    <3>1. ASSUME NEW t PROVE Gentle(t)
      BY <1>1, RemovalGentle
    <3>2. Pending(d)' <=> Pending(d)
      BY <1>1 DEF Pending
    <3> QED BY <1>1, <3>1, <3>2, ReasonKept
  <2> QED BY <2>2, <2>3, <2>4 DEF ReasonInv
<1>2. ASSUME NEW t \in revoking, Revoke(t) PROVE LossInv'
  <2>1. /\ DOMAIN store'.sessions = DOMAIN store.sessions \ {t}
        /\ \A r \in DOMAIN store'.sessions : store'.sessions[r] = store.sessions[r]
    BY <1>0, <1>2, WhatStays DEF Revoke
  <2>2. \A r \in DOMAIN store.sessions \ DOMAIN store'.sessions : IsExpired(store.sessions[r])
    BY <2>1 DEF RevokingInv
  <2>3. DOMAIN store'.sessions \subseteq DOMAIN store.sessions
    BY <2>1
  <2> QED BY <1>1, <1>2, <2>1, <2>2, <2>3 DEF Revoke
<1>3. CASE Sweep
  <2>1. /\ DOMAIN store'.sessions = DOMAIN store.sessions \ Expired(store)
        /\ \A r \in DOMAIN store'.sessions : store'.sessions[r] = store.sessions[r]
    BY <1>0, <1>3, WhatStays DEF Sweep
  <2>2. \A r \in DOMAIN store.sessions \ DOMAIN store'.sessions : IsExpired(store.sessions[r])
    BY <2>1 DEF Expired
  <2>3. DOMAIN store'.sessions \subseteq DOMAIN store.sessions
    BY <2>1
  <2> QED BY <1>1, <1>3, <2>1, <2>2, <2>3 DEF Sweep
<1>4. CASE Tick
  <2>1. /\ pc' = pc /\ token' = token /\ up' = up /\ fate' = fate /\ unheard' = unheard
        /\ revoking' = revoking /\ store' = Aged(store)
    BY <1>4 DEF Tick, history
  <2>2. ASSUME NEW d \in Clients
        PROVE  /\ pc[d] # "touching" => req'[d] = req[d]
               /\ pc[d] \in {"touching", "serving"} => req'[d].token = req[d].token
    <3>1. pc[d] # "touching" => req'[d] = req[d]
      BY <1>4 DEF Tick
    <3>2. CASE pc[d] = "touching"
      <4>1. req[d] \in [token : 1 .. minted, ago : 0 .. idleTTL + 1]
        BY <1>0, <3>2 DEF CallsOK, Fits
      <4>2. req'[d] = [req[d] EXCEPT !.ago = Cap(req[d].ago, idleTTL)]
        BY <1>4, <3>2 DEF Tick
      <4>3. req'[d].token = req[d].token
        BY <4>1, <4>2
      <4> QED BY <3>2, <4>3
    <3> QED BY <3>1, <3>2
  <2>3. /\ DOMAIN store'.sessions = DOMAIN store.sessions
        /\ \A t \in DOMAIN store.sessions :
             /\ store'.sessions[t].client = store.sessions[t].client
             /\ IsExpired(store.sessions[t]) => IsExpired(store'.sessions[t])
    BY <1>0, <2>1, WhatAges
  <2>4. \A d \in Clients : Held(d)' \subseteq Held(d)
    BY <2>1, <2>2 DEF Held, Holding
  <2>5. HoldersInv'
    BY <2>3, <2>4, HoldersKept
  <2>6. RevokingInv'
    BY <2>1, <2>2, <2>3 DEF RevokingInv
  <2>7. ASSUME NEW d \in Clients PROVE ReasonAt(d)'
    <3>1. \A t : Gentle(t)
      BY <2>1, <2>3, SameGentle
    <3>2. (Pending(d)' <=> Pending(d)) /\ (Pending(d) => req'[d] = req[d])
      BY <2>1, <2>2 DEF Pending
    <3> QED BY <2>1, <3>1, <3>2, ReasonKept
  <2> QED BY <2>5, <2>6, <2>7 DEF ReasonInv
<1> QED BY <1>2, <1>3, <1>4

\* A registration may evict the oldest session of the user, purge what has
\* expired, and replace the previous session of its own client, whose reply is
\* then on its way.
LEMMA LossRegister ==
    ASSUME Inv, LossInv, NEW c \in Clients, RegisterClient(c)
    PROVE  LossInv'
<1> USE DEF LossInv
<1> DEFINE roomy == MakeRoom(store)
           evicted == EvictOldest(roomy, UserOf[c])
           L1 == Lost(store, roomy, "purged")
<1>0. /\ CallsOK /\ Good(store, minted) /\ minted \in Nat /\ None \notin Nat
      /\ DOMAIN pc = Clients /\ DOMAIN req = Clients
  BY InvParts, SessionStoreAssumption DEF CallsOK
<1>1. /\ DOMAIN roomy.sessions \subseteq DOMAIN store.sessions
      /\ \A t \in DOMAIN roomy.sessions : roomy.sessions[t] = store.sessions[t]
      /\ \A t \in DOMAIN store.sessions \ DOMAIN roomy.sessions : IsExpired(store.sessions[t])
      /\ Good(roomy, minted)
  BY <1>0, RemoveGood, WhatStays DEF MakeRoom, Expired
<1>2. /\ DOMAIN L1 = DOMAIN store.sessions \ DOMAIN roomy.sessions
      /\ \A t \in DOMAIN L1 : L1[t] = "expired"
  BY <1>1 DEF Lost
<1>3. /\ pc[c] = "idle" /\ pc'[c] = "replying" /\ req'[c] = Issued(HasRoom(roomy))
      /\ \A d \in Clients \ {c} : pc'[d] = pc[d] /\ req'[d] = req[d]
      /\ token' = token /\ up' = up /\ revoking' = revoking /\ unheard' = unheard
  BY <1>0 DEF RegisterClient, Goto
<1>4. ASSUME NEW d \in Clients \ {c}, \A t \in Held(d) : Gentle(t) PROVE ReasonAt(d)'
  <2>1. /\ token[d] # None => token[d] \in Held(d)
        /\ Pending(d) => req[d] \in Held(d)
    BY DEF Held, Holding, Pending
  <2>2. Pending(d)' <=> Pending(d)
    BY <1>3 DEF Pending
  <2> QED BY <1>3, <1>4, <2>1, <2>2, ReasonKept
<1>5. CASE ~HasRoom(roomy)
  <2>1. store' = roomy /\ fate' = Merge(Lost(store, store', "purged"), fate) /\ req'[c] = None
    BY <1>3, <1>5 DEF RegisterClient, Issued
  <2>2. ASSUME NEW t PROVE Gentle(t)
    BY <1>1, <2>1, RemovalGentle
  <2>3. \A d \in Clients : Held(d)' \subseteq Held(d)
    BY <1>3, <2>1 DEF Held, Holding
  <2>4. HoldersInv'
    BY <1>1, <2>1, <2>3, HoldersKept
  <2>5. RevokingInv'
    BY <1>1, <1>3, <2>1 DEF RevokingInv
  <2>6. ReasonAt(c)'
    <3>1. ~Pending(c) /\ ~Pending(c)'
      BY <1>3, <2>1 DEF Pending
    <3> QED BY <1>3, <2>2, <3>1, ReasonKept
  <2> QED BY <1>4, <2>2, <2>4, <2>5, <2>6 DEF ReasonInv
<1>6. CASE HasRoom(roomy)
  <2> DEFINE n == minted + 1
             L2 == Lost(evicted, store', "replaced")
             L3 == Lost(roomy, evicted, "evicted")
  <2>1. /\ fate' = Merge(L3, Merge(L2, Merge(L1, fate))) /\ req'[c] = n
        /\ \E ip \in Addrs : store' = CreateSession(roomy, n, c, ip)
    BY <1>3, <1>6 DEF RegisterClient, Issued
  <2>2. /\ DOMAIN evicted.sessions \subseteq DOMAIN roomy.sessions
        /\ \A t \in DOMAIN evicted.sessions : evicted.sessions[t] = roomy.sessions[t]
        /\ DOMAIN store'.sessions \subseteq DOMAIN evicted.sessions \cup {n}
        /\ n \in DOMAIN store'.sessions /\ store'.sessions[n].client = c
        /\ \A t \in DOMAIN store'.sessions \ {n} : store'.sessions[t] = evicted.sessions[t]
        /\ \A t \in DOMAIN evicted.sessions :
              evicted.sessions[t].client # c => t \in DOMAIN store'.sessions
    BY <1>0, <1>1, <2>1, CreateKeeps
  <2>3. /\ DOMAIN L2 = DOMAIN evicted.sessions \ DOMAIN store'.sessions
        /\ \A t \in DOMAIN L2 : L2[t] \in {"expired", "replaced"}
        /\ DOMAIN L3 = DOMAIN roomy.sessions \ DOMAIN evicted.sessions
        /\ \A t \in DOMAIN L3 : L3[t] \in {"expired", "evicted"}
    BY DEF Lost
  <2>4. /\ DOMAIN fate' = DOMAIN L3 \cup DOMAIN L2 \cup DOMAIN L1 \cup DOMAIN fate
        /\ \A t \in DOMAIN L3 : fate'[t] = L3[t]
        /\ \A t \in DOMAIN L2 \ DOMAIN L3 : fate'[t] = L2[t]
        /\ \A t \in DOMAIN L1 \ (DOMAIN L2 \cup DOMAIN L3) : fate'[t] = L1[t]
        /\ \A t \in DOMAIN fate \ (DOMAIN L1 \cup DOMAIN L2 \cup DOMAIN L3) : fate'[t] = fate[t]
    BY <2>1 DEF Merge
  <2>5. ASSUME NEW d \in Clients PROVE n \notin Held(d)
    <3>1. token[d] \in (1 .. minted) \cup {None} /\ Fits(pc[d], req[d], minted)
      BY <1>0 DEF CallsOK
    <3>2. n \notin (1 .. minted) \cup {None}
      BY <1>0
    <3> QED BY <3>1, <3>2 DEF Held, Holding, Fits
  <2>6. n \notin DOMAIN store.sessions /\ n \notin revoking
    BY <1>0 DEF Good, Typed, CallsOK
  <2> HIDE DEF n, L1, L2, L3, roomy, evicted
  <2>7. Held(c)' \subseteq Held(c) \cup {n} /\ \A d \in Clients \ {c} : Held(d)' \subseteq Held(d)
    BY <1>3, <2>1 DEF Held, Holding
  <2>8. HoldersInv'
    <3>1. ASSUME NEW d \in Clients, NEW e \in Clients, d # e PROVE Held(d)' \cap Held(e)' = {}
      <4>1. Held(d) \cap Held(e) = {}
        BY <3>1 DEF HoldersInv
      <4> QED BY <2>5, <2>7, <3>1, <4>1
    <3>2. ASSUME NEW d \in Clients, NEW t \in Held(d)' \cap DOMAIN store'.sessions
          PROVE  store'.sessions[t].client = d
      <4>1. CASE t = n
        BY <2>2, <2>5, <2>7, <4>1
      <4>2. CASE t # n
        <5>1. t \in Held(d) \cap DOMAIN store.sessions /\ store'.sessions[t] = store.sessions[t]
          BY <1>1, <2>2, <2>7, <4>2
        <5> QED BY <5>1 DEF HoldersInv
      <4> QED BY <4>1, <4>2
    <3>3. ASSUME NEW d \in Clients, NEW e \in Clients, d # e PROVE (Held(d) \cap Held(e) = {})'
      BY <3>1, <3>3
    <3> QED BY <3>2, <3>3 DEF HoldersInv
  <2>9. RevokingInv'
    <3>1. \A t \in DOMAIN store'.sessions \ {n} :
             t \in DOMAIN store.sessions /\ store'.sessions[t] = store.sessions[t]
      BY <1>1, <2>2
    <3> QED BY <1>3, <2>6, <3>1 DEF RevokingInv
  <2>10. ASSUME NEW d \in Clients \ {c}, NEW t \in Held(d) PROVE Gentle(t)
    <3>1. t \in DOMAIN store.sessions => store.sessions[t].client = d
      BY DEF HoldersInv
    <3>2. t \notin DOMAIN L2
      BY <1>1, <2>2, <2>3, <3>1
    <3>3. t \in DOMAIN store.sessions \ DOMAIN store'.sessions => t \in DOMAIN L1 \cup DOMAIN L3
      BY <1>2, <2>3, <3>2
    <3>4. t \in DOMAIN L1 \cup DOMAIN L3 => fate'[t] \in {"evicted", "expired"}
      BY <1>2, <2>3, <2>4, <3>2
    <3>5. t \notin DOMAIN store.sessions => t \notin DOMAIN L1 \cup DOMAIN L2 \cup DOMAIN L3
      BY <1>1, <1>2, <2>2, <2>3
    <3> QED BY <2>4, <3>3, <3>4, <3>5 DEF Gentle, Explained
  <2>11. ReasonAt(c)'
    <3>1. ASSUME up[c] # "gone", token[c] # None
          PROVE  (Explained(token[c], Reasons(c) \cup {"replaced"}))'
      <4>1. PICK t : t = token[c]
        OBVIOUS
      <4>2. Explained(t, Reasons(c) \cup {"replaced"})
        BY <3>1, <4>1 DEF ReasonInv, ReasonAt, Explained
      <4>3. t \in DOMAIN L1 \cup DOMAIN L2 \cup DOMAIN L3
              => t \in DOMAIN fate' /\ fate'[t] \in {"evicted", "expired", "replaced"}
        BY <1>2, <2>3, <2>4
      <4>4. t \in DOMAIN store.sessions \ DOMAIN store'.sessions
              => t \in DOMAIN L1 \cup DOMAIN L2 \cup DOMAIN L3
        BY <1>2, <2>3
      <4>5. t \notin DOMAIN store.sessions /\ t \in DOMAIN fate
              => t \in DOMAIN fate' /\ fate'[t] = fate[t]
        BY <1>1, <1>2, <2>2, <2>3, <2>4
      <4>6. Reasons(c)' = Reasons(c) /\ {"evicted", "expired"} \subseteq Reasons(c)
        BY <1>3 DEF Reasons
      <4> QED BY <1>3, <4>1, <4>2, <4>3, <4>4, <4>5, <4>6 DEF Explained
    <3>2. (Explained(req[c], Reasons(c)))'
      BY <2>1, <2>2 DEF Explained
    <3>3. Pending(c)' /\ up'[c] = up[c] /\ token'[c] = token[c]
      BY <1>0, <1>3, <2>1 DEF Pending, n
    <3> QED BY <3>1, <3>2, <3>3 DEF ReasonAt
  <2> QED BY <1>4, <2>8, <2>9, <2>10, <2>11 DEF ReasonInv
<1> QED BY <1>5, <1>6

\* However sessions come to an end - evicted, purged, revoked by a goroutine
\* that is late, replaced, ended by a departure - a client that is between two
\* calls has lost its token to its user's other clients, to time, or to a reply
\* that it missed.
THEOREM LossesHaveReasons == Spec => []TokensAreLostForAReason
<1>1. Inv /\ LossInv /\ [Next]_vars => LossInv'
  <2> SUFFICES ASSUME Inv, LossInv, [Next]_vars PROVE LossInv'
    OBVIOUS
  <2>1. CASE Next
    BY <2>1, LossRegister, LossCall, LossDisconnect, LossBackground DEF Next
  <2>2. CASE UNCHANGED vars
    BY <2>2 DEF vars, history, LossInv, HoldersInv, RevokingInv, ReasonInv, ReasonAt, Held,
                Explained, Reasons, Pending
  <2> QED BY <2>1, <2>2
<1>2. LossInv => TokensAreLostForAReason
  BY DEF LossInv, ReasonInv, ReasonAt, Explained, Reasons, Pending, TokensAreLostForAReason
<1> QED BY <1>1, <1>2, InitInv, NextInv, LossInit, PTL DEF Spec
=============================================================================
