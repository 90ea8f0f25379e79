------------------------- MODULE AlertManagerProofs -------------------------
(***************************************************************************)
(* The alert engine by itself: what each of its methods keeps true of the  *)
(* log, of the active conditions and of the file, whatever calls it and    *)
(* however often.  AdminServerProofs puts the methods into the console.    *)
(***************************************************************************)
EXTENDS AlertManager, SequenceTheorems, FiniteSetTheorems, WellFoundedInduction, TLAPS

\* The severities at which a condition is reported.
Grade(k) == IF k.kind = "offline" THEN {"critical"}
            ELSE IF k.kind = "quota" THEN {"warning"} ELSE Severities

\* The log: ids are used once, and were drawn before `next'.
LogOK(log, next) ==
    /\ log \in Seq(Alerts) /\ Len(log) <= AlertCapacity
    /\ \A i \in 1 .. Len(log) :
         /\ log[i].id < next
         /\ log[i].key \in Conditions => log[i].sev \in Grade(log[i].key)
         /\ \A j \in 1 .. Len(log) : log[i].id = log[j].id => i = j

\* A condition is held active by an alert of its own, which is open wherever
\* the log still has it.
ActiveOK(s, k) ==
    s.active[k] # None =>
        /\ s.active[k].id < s.next /\ s.active[k].sev \in Grade(k)
        /\ \A i \in 1 .. Len(s.log) : s.log[i].id = s.active[k].id =>
             s.log[i].key = k /\ ~s.log[i].resolved /\ s.log[i].sev = s.active[k].sev
        /\ \A l \in Conditions : s.active[l] # None /\ s.active[l].id = s.active[k].id => l = k

Engines == [log : Seq(Alerts), active : [Conditions -> Pointers \cup {None}], next : Nat]
EngineOK(s) ==
    /\ s \in Engines
    /\ LogOK(s.log, s.next)
    /\ \A k \in Conditions : ActiveOK(s, k)

\* An open alert of the condition, of severity sev, not further down the log
\* than position i.
OpenAbove(log, i, k, sev) ==
    \E j \in 1 .. i : log[j].key = k /\ ~log[j].resolved /\ log[j].sev = sev

\* What is found to be wrong is active, and while the alert that stands for it
\* is in the log there is one of the severity found, which is no older.
TroubleAt(s, k, sev) ==
    sev # None =>
        /\ s.active[k] # None
        /\ \A i \in 1 .. Len(s.log) : s.log[i].id = s.active[k].id => OpenAbove(s.log, i, k, sev)

\* The inductive invariant of the engine.
AlertInv ==
    /\ EngineOK(am) /\ LogOK(alertFile, am.next)
    /\ trouble \in [Conditions -> Severities \cup {None}]
    /\ \A k \in Conditions : TroubleAt(am, k, trouble[k])
    /\ unsaved \in BOOLEAN /\ (unsaved \/ ToSet(alertFile) = ToSet(am.log))

\* Whatever the new log says of the condition was in the old one.
NothingNew(s, t, k) ==
    \A i \in 1 .. Len(t.log) : t.log[i].key = k =>
        \E j \in 1 .. Len(s.log) : s.log[j].id = t.log[i].id /\ s.log[j].key = k

\* The condition is held active as before.
SameActive(s, t, k) ==
    /\ t.active[k] = None <=> s.active[k] = None
    /\ s.active[k] # None => t.active[k].id = s.active[k].id /\ t.active[k].sev = s.active[k].sev

\* What a method leaves of a condition it is not about.
Keeps(s, t, k) ==
    /\ SameActive(s, t, k) /\ NothingNew(s, t, k)
    /\ \A sev \in Severities : TroubleAt(s, k, sev) => TroubleAt(t, k, sev)

\* What a method does to the condition it is about: it is on record at sev,
\* and not once more if it was; a check leaves it active accordingly.
Reports(s, t, k, sev) ==
    /\ TroubleAt(t, k, sev)
    /\ s.active[k] # None /\ s.active[k].sev = sev => NothingNew(s, t, k)
Finds(s, t, k, sev) ==
    Reports(s, t, k, sev) /\ (t.active[k] = None <=> sev = None)

\* A method that is about the conditions K only.
About(s, t, K) ==
    /\ EngineOK(t) /\ s.next <= t.next
    /\ \A l \in Conditions \ K : Keeps(s, t, l)
-----------------------------------------------------------------------------
(* The log. *)

\* createAlertLocked puts the alert in front and drops what is too much at
\* the end: every other alert moves down by one place.
LEMMA PrependFacts ==
    ASSUME NEW log \in Seq(Alerts), NEW a \in Alerts, NEW t, t = Truncate(<<a>> \o log)
    PROVE  /\ t \in Seq(Alerts) /\ Len(t) <= AlertCapacity
           /\ Len(t) \in 1 .. Len(log) + 1 /\ t[1] = a
           /\ \A i \in 2 .. Len(t) : i - 1 \in 1 .. Len(log) /\ t[i] = log[i - 1]
<1> DEFINE c == <<a>> \o log
<1>1. <<a>> \in Seq(Alerts) /\ Len(<<a>>) = 1 /\ <<a>>[1] = a
  OBVIOUS
<1>2. Len(log) \in Nat
  BY LenProperties
<1>3. /\ c \in Seq(Alerts) /\ Len(c) = Len(log) + 1
      /\ \A i \in 1 .. Len(log) + 1 : c[i] = IF i <= 1 THEN a ELSE log[i - 1]
  <2>1. /\ c \in Seq(Alerts) /\ Len(c) = Len(<<a>>) + Len(log)
        /\ \A i \in 1 .. Len(<<a>>) + Len(log) :
             c[i] = IF i <= Len(<<a>>) THEN <<a>>[i] ELSE log[i - Len(<<a>>)]
    BY <1>1, ConcatProperties
  <2> HIDE DEF c
  <2> QED BY <1>1, <1>2, <2>1
<1> HIDE DEF c
<1> DEFINE n == IF Len(c) > AlertCapacity THEN AlertCapacity ELSE Len(c)
<1>4. n \in 1 .. Len(log) + 1 /\ n <= AlertCapacity
  BY <1>2, <1>3, AlertAssumption
<1>5. t = SubSeq(c, 1, n)
  BY DEF Truncate, c
<1> HIDE DEF n
<1>6. \A i \in 1 .. n : c[i] \in Alerts
  BY <1>2, <1>3, <1>4, ElementOfSeq
<1>7. /\ t \in Seq(Alerts) /\ Len(t) = n
      /\ \A i \in 1 .. n : t[i] = c[i]
  <2>1. /\ SubSeq(c, 1, n) \in Seq(Alerts)
        /\ Len(SubSeq(c, 1, n)) = IF 1 <= n THEN n - 1 + 1 ELSE 0
        /\ \A i \in 1 .. n - 1 + 1 : SubSeq(c, 1, n)[i] = c[1 + i - 1]
    BY <1>4, <1>6, SubSeqProperties
  <2> QED BY <1>4, <1>5, <2>1
<1>8. ASSUME NEW i \in 2 .. Len(t)
      PROVE  i - 1 \in 1 .. Len(log) /\ t[i] = log[i - 1]
  <2>1. i \in 1 .. n /\ i \in 1 .. Len(log) + 1 /\ ~(i <= 1) /\ i - 1 \in 1 .. Len(log)
    BY <1>2, <1>4, <1>7
  <2> QED BY <1>3, <1>7, <2>1
<1>9. t[1] = a
  BY <1>2, <1>3, <1>4, <1>7
<1> QED BY <1>4, <1>7, <1>8, <1>9

\* Resolving an alert changes no other, and only whether it is resolved.
LEMMA ResolveFacts ==
    ASSUME NEW log \in Seq(Alerts), NEW id, NEW t, t = ResolveId(log, id)
    PROVE  /\ t \in Seq(Alerts) /\ Len(t) = Len(log)
           /\ \A i \in 1 .. Len(log) :
                /\ t[i] = IF log[i].id = id THEN [log[i] EXCEPT !.resolved = TRUE] ELSE log[i]
                /\ t[i].id = log[i].id /\ t[i].key = log[i].key /\ t[i].sev = log[i].sev
<1>1. Len(log) \in Nat /\ DOMAIN log = 1 .. Len(log) /\ \A i \in 1 .. Len(log) : log[i] \in Alerts
  BY LenProperties, ElementOfSeq
<1>2. \A i \in 1 .. Len(log) :
        t[i] = IF log[i].id = id THEN [log[i] EXCEPT !.resolved = TRUE] ELSE log[i]
  BY <1>1 DEF ResolveId
<1>3. \A i \in 1 .. Len(log) :
        /\ t[i] \in Alerts
        /\ t[i].id = log[i].id /\ t[i].key = log[i].key /\ t[i].sev = log[i].sev
  BY <1>1, <1>2 DEF Alerts
<1>4. t \in [1 .. Len(log) -> Alerts]
  BY <1>1, <1>3 DEF ResolveId
<1>5. t \in Seq(Alerts)
  BY <1>1, <1>4, SeqDef
<1>6. Len(t) = Len(log)
  <2>1. DOMAIN t = 1 .. Len(t) /\ Len(t) \in Nat
    BY <1>5, LenProperties
  <2> QED BY <1>1, <1>4, <2>1
<1> QED BY <1>2, <1>3, <1>5, <1>6

LEMMA ResolveEach ==
    ASSUME NEW log \in Seq(Alerts), NEW id, NEW t, t = ResolveId(log, id), NEW i \in 1 .. Len(log)
    PROVE  /\ t[i].id = log[i].id /\ t[i].key = log[i].key /\ t[i].sev = log[i].sev
           /\ log[i].id # id => t[i] = log[i]
<1>1. \A j \in 1 .. Len(log) :
        t[j] = IF log[j].id = id THEN [log[j] EXCEPT !.resolved = TRUE] ELSE log[j]
  BY ResolveFacts
<1>2. log[i] \in Alerts
  BY ElementOfSeq
<1>3. t[i] = IF log[i].id = id THEN [log[i] EXCEPT !.resolved = TRUE] ELSE log[i]
  BY <1>1
<1> QED BY <1>2, <1>3 DEF Alerts
-----------------------------------------------------------------------------
(* Creating an alert. *)

\* The log of t is that of s moved down by one place, with a new alert in
\* front and perhaps without the last ones.
Shifted(s, t) ==
    /\ t.next = s.next + 1 /\ Len(t.log) \in 1 .. Len(s.log) + 1 /\ Len(t.log) <= AlertCapacity
    /\ \A i \in 2 .. Len(t.log) : i - 1 \in 1 .. Len(s.log) /\ t.log[i] = s.log[i - 1]
    /\ t.log[1].id = s.next

LEMMA EngineFacts ==
    ASSUME NEW s, EngineOK(s)
    PROVE  /\ s \in Engines /\ s.next \in Nat /\ s.log \in Seq(Alerts) /\ Len(s.log) \in Nat
           /\ s.active \in [Conditions -> Pointers \cup {None}]
           /\ Len(s.log) <= AlertCapacity
           /\ \A i \in 1 .. Len(s.log) : s.log[i] \in Alerts
           /\ \A k \in Conditions : s.active[k] # None =>
                s.active[k] \in Pointers /\ s.active[k].id \in Nat /\ s.active[k].sev \in Severities
<1>1. s \in Engines /\ LogOK(s.log, s.next)
  BY DEF EngineOK
<1>2. /\ s.next \in Nat /\ s.log \in Seq(Alerts)
      /\ s.active \in [Conditions -> Pointers \cup {None}]
  BY <1>1 DEF Engines
<1>3. Len(s.log) \in Nat /\ \A i \in 1 .. Len(s.log) : s.log[i] \in Alerts
  BY <1>2, LenProperties, ElementOfSeq
<1>4. ASSUME NEW k \in Conditions, s.active[k] # None
      PROVE  s.active[k] \in Pointers /\ s.active[k].id \in Nat /\ s.active[k].sev \in Severities
  <2>1. s.active[k] \in Pointers
    BY <1>2, <1>4
  <2> QED BY <2>1 DEF Pointers
<1> QED BY <1>1, <1>2, <1>3, <1>4 DEF LogOK

\* A condition that the new alert is not about, and that is held active as
\* before, is kept.
LEMMA ShiftKeeps ==
    ASSUME NEW s, EngineOK(s), NEW t, Shifted(s, t), NEW k \in Conditions,
           SameActive(s, t, k), t.log[1].key # k
    PROVE  Keeps(s, t, k)
<1>1. Len(s.log) \in Nat /\ s.next \in Nat
  BY EngineFacts
<1>2. Len(t.log) \in Nat
  BY <1>1 DEF Shifted
<1>3. NothingNew(s, t, k)
  <2> SUFFICES ASSUME NEW i \in 1 .. Len(t.log), t.log[i].key = k
               PROVE  \E j \in 1 .. Len(s.log) : s.log[j].id = t.log[i].id /\ s.log[j].key = k
    BY DEF NothingNew
  <2>1. i \in 2 .. Len(t.log)
    BY <1>2
  <2> QED BY <2>1 DEF Shifted
<1>4. ASSUME NEW sev \in Severities, TroubleAt(s, k, sev)
      PROVE  TroubleAt(t, k, sev)
  <2>1. /\ s.active[k] # None
        /\ \A i \in 1 .. Len(s.log) : s.log[i].id = s.active[k].id => OpenAbove(s.log, i, k, sev)
    BY <1>4, NoneAssumption DEF TroubleAt
  <2>2. t.active[k] # None /\ t.active[k].id = s.active[k].id
    BY <2>1 DEF SameActive
  <2>3. s.active[k].id < s.next /\ s.active[k].id \in Nat
    BY <2>1, EngineFacts DEF EngineOK, ActiveOK
  <2>4. ASSUME NEW i \in 1 .. Len(t.log), t.log[i].id = t.active[k].id
        PROVE  OpenAbove(t.log, i, k, sev)
    <3>1. i # 1
      BY <1>1, <2>2, <2>3, <2>4 DEF Shifted
    <3>2. i \in 2 .. Len(t.log) /\ i - 1 \in 1 .. Len(s.log) /\ t.log[i] = s.log[i - 1]
      BY <1>2, <3>1 DEF Shifted
    <3>3. PICK j \in 1 .. i - 1 : s.log[j].key = k /\ ~s.log[j].resolved /\ s.log[j].sev = sev
      BY <2>1, <2>2, <2>4, <3>2 DEF OpenAbove
    <3>4. j + 1 \in 2 .. Len(t.log) /\ j + 1 \in 1 .. i /\ (j + 1) - 1 = j
      BY <1>2, <3>2, <3>3
    <3>5. t.log[j + 1] = s.log[j]
      BY <3>4 DEF Shifted
    <3> QED BY <3>3, <3>4, <3>5 DEF OpenAbove
  <2> QED BY <2>2, <2>4 DEF TroubleAt
<1> QED BY <1>3, <1>4 DEF Keeps

\* The new alert leaves the engine in order if the conditions are held active
\* as before or, the one it is about, by the new alert.
LEMMA ShiftOK ==
    ASSUME NEW s, EngineOK(s), NEW t \in Engines, Shifted(s, t),
           t.log[1].key \in Conditions => t.log[1].sev \in Grade(t.log[1].key),
           \A l \in Conditions :
              \/ SameActive(s, t, l)
              \/ /\ t.log[1].key = l /\ ~t.log[1].resolved
                 /\ t.active[l].id = s.next /\ t.active[l].sev = t.log[1].sev
    PROVE  EngineOK(t)
<1>1. Len(s.log) \in Nat /\ s.next \in Nat /\ \A i \in 1 .. Len(s.log) : s.log[i] \in Alerts
  BY EngineFacts
<1>2. Len(t.log) \in Nat /\ t.next = s.next + 1 /\ t.log \in Seq(Alerts)
  BY <1>1 DEF Shifted, Engines
<1>3. \A i \in 1 .. Len(s.log) : s.log[i].id \in Nat /\ s.log[i].id < s.next
  BY <1>1 DEF EngineOK, LogOK, Alerts
<1>4. ASSUME NEW i \in 1 .. Len(t.log), i # 1
      PROVE  i - 1 \in 1 .. Len(s.log) /\ t.log[i] = s.log[i - 1] /\ t.log[i].id < s.next
  BY <1>2, <1>3, <1>4 DEF Shifted
<1>5. LogOK(t.log, t.next)
  <2>1. ASSUME NEW i \in 1 .. Len(t.log)
        PROVE  /\ t.log[i].id < t.next
               /\ t.log[i].key \in Conditions => t.log[i].sev \in Grade(t.log[i].key)
    <3>1. CASE i = 1
      BY <1>1, <1>2, <3>1 DEF Shifted
    <3>2. CASE i # 1
      <4>1. i - 1 \in 1 .. Len(s.log) /\ t.log[i] = s.log[i - 1]
        BY <1>4, <3>2
      <4>2. s.log[i - 1].key \in Conditions => s.log[i - 1].sev \in Grade(s.log[i - 1].key)
        BY <4>1 DEF EngineOK, LogOK
      <4>3. t.log[i].id < t.next
        BY <1>1, <1>2, <1>3, <4>1
      <4> QED BY <4>1, <4>2, <4>3
    <3> QED BY <3>1, <3>2
  <2>2. ASSUME NEW i \in 1 .. Len(t.log), NEW j \in 1 .. Len(t.log), t.log[i].id = t.log[j].id
        PROVE  i = j
    <3>1. CASE i # 1 /\ j # 1
      <4>1. i - 1 \in 1 .. Len(s.log) /\ t.log[i] = s.log[i - 1]
        BY <1>4, <3>1
      <4>2. j - 1 \in 1 .. Len(s.log) /\ t.log[j] = s.log[j - 1]
        BY <1>4, <3>1
      <4>3. i - 1 = j - 1
        BY <2>2, <4>1, <4>2 DEF EngineOK, LogOK
      <4> QED BY <1>2, <4>3
    <3>2. CASE i = 1 /\ j # 1
      <4>1. t.log[j].id < s.next
        BY <1>4, <3>2
      <4> QED BY <1>1, <2>2, <3>2, <4>1 DEF Shifted
    <3>3. CASE i # 1 /\ j = 1
      <4>1. t.log[i].id < s.next
        BY <1>4, <3>3
      <4> QED BY <1>1, <2>2, <3>3, <4>1 DEF Shifted
    <3> QED BY <3>1, <3>2, <3>3
  <2> QED BY <1>2, <2>1, <2>2 DEF LogOK, Shifted
<1>6. ASSUME NEW l \in Conditions, t.active[l] # None
      PROVE  \/ /\ SameActive(s, t, l) /\ s.active[l] # None /\ t.active[l].id < s.next
                /\ t.active[l].id \in Nat
             \/ /\ t.log[1].key = l /\ ~t.log[1].resolved
                /\ t.active[l].id = s.next /\ t.active[l].sev = t.log[1].sev
  <2>1. CASE SameActive(s, t, l)
    <3>1. s.active[l] # None /\ t.active[l].id = s.active[l].id
      BY <1>6, <2>1 DEF SameActive
    <3>2. s.active[l].id < s.next /\ s.active[l].id \in Nat
      BY <3>1, EngineFacts DEF EngineOK, ActiveOK
    <3> QED BY <2>1, <3>1, <3>2
  <2> QED BY <2>1
<1>7. ASSUME NEW k \in Conditions, t.active[k] # None
      PROVE  /\ t.active[k].id < t.next /\ t.active[k].sev \in Grade(k)
             /\ \A i \in 1 .. Len(t.log) : t.log[i].id = t.active[k].id =>
                  t.log[i].key = k /\ ~t.log[i].resolved /\ t.log[i].sev = t.active[k].sev
  <2>1. CASE SameActive(s, t, k) /\ s.active[k] # None /\ t.active[k].id < s.next
             /\ t.active[k].id \in Nat
    <3>1. t.active[k].id = s.active[k].id /\ t.active[k].sev = s.active[k].sev
      BY <2>1 DEF SameActive
    <3>2. /\ s.active[k].sev \in Grade(k)
          /\ \A i \in 1 .. Len(s.log) : s.log[i].id = s.active[k].id =>
               s.log[i].key = k /\ ~s.log[i].resolved /\ s.log[i].sev = s.active[k].sev
      BY <2>1 DEF EngineOK, ActiveOK
    <3>3. ASSUME NEW i \in 1 .. Len(t.log), t.log[i].id = t.active[k].id
          PROVE  t.log[i].key = k /\ ~t.log[i].resolved /\ t.log[i].sev = t.active[k].sev
      <4>1. i # 1
        BY <1>1, <2>1, <3>3 DEF Shifted
      <4>2. i - 1 \in 1 .. Len(s.log) /\ t.log[i] = s.log[i - 1]
        BY <1>4, <4>1
      <4> QED BY <3>1, <3>2, <3>3, <4>2
    <3>4. t.active[k].id < t.next
      BY <1>1, <1>2, <2>1
    <3> QED BY <3>1, <3>2, <3>3, <3>4
  <2>2. CASE t.log[1].key = k /\ ~t.log[1].resolved
             /\ t.active[k].id = s.next /\ t.active[k].sev = t.log[1].sev
    <3>1. ASSUME NEW i \in 1 .. Len(t.log), t.log[i].id = t.active[k].id
          PROVE  i = 1
      <4>1. CASE i # 1
        <5>1. t.log[i].id < s.next
          BY <1>4, <4>1
        <5> QED BY <1>1, <2>2, <3>1, <5>1
      <4> QED BY <4>1
    <3>2. t.active[k].id < t.next
      BY <1>1, <1>2, <2>2
    <3> QED BY <2>2, <3>1, <3>2
  <2> QED BY <1>6, <1>7, <2>1, <2>2
<1>8. ASSUME NEW k \in Conditions, NEW l \in Conditions,
             t.active[k] # None, t.active[l] # None, t.active[l].id = t.active[k].id
      PROVE  l = k
  <2>1. CASE /\ SameActive(s, t, l) /\ s.active[l] # None
             /\ SameActive(s, t, k) /\ s.active[k] # None
    BY <1>8, <2>1 DEF SameActive, EngineOK, ActiveOK
  <2>2. CASE t.active[k].id = s.next
    <3>1. t.log[1].key = k
      BY <1>1, <1>6, <1>8, <2>2
    <3>2. t.log[1].key = l
      BY <1>1, <1>6, <1>8, <2>2
    <3> QED BY <3>1, <3>2
  <2> QED BY <1>6, <1>8, <2>1, <2>2
<1> QED BY <1>5, <1>7, <1>8 DEF EngineOK, ActiveOK

\* createAlertLocked: the log moves down, and every pointer goes stale.
LEMMA CreateFacts ==
    ASSUME NEW s, EngineOK(s), NEW key \in AlertKeys, NEW sev \in Severities \cup {"info"},
           NEW now \in Nat, NEW t, t = createAlertLocked(s, key, sev, now)
    PROVE  /\ t \in Engines /\ Shifted(s, t)
           /\ t.log[1] = NewAlert(s.next, key, sev, now) /\ t.log[1] \in Alerts
           /\ \A l \in Conditions : SameActive(s, t, l)
<1>0. PICK a, log : a = NewAlert(s.next, key, sev, now) /\ log = Truncate(<<a>> \o s.log)
  OBVIOUS
<1> DEFINE active == [k \in Conditions |->
                        IF s.active[k] = None THEN None ELSE [s.active[k] EXCEPT !.live = FALSE]]
<1>1. /\ s.next \in Nat /\ s.log \in Seq(Alerts)
      /\ s.active \in [Conditions -> Pointers \cup {None}]
  BY EngineFacts
<1>2. a \in Alerts /\ a.id = s.next
  BY <1>0, <1>1 DEF NewAlert, Alerts
<1>3. t = [log |-> log, active |-> active, next |-> s.next + 1]
  BY <1>0 DEF createAlertLocked
<1>4. /\ log \in Seq(Alerts) /\ Len(log) <= AlertCapacity
      /\ Len(log) \in 1 .. Len(s.log) + 1 /\ log[1] = a
      /\ \A i \in 2 .. Len(log) : i - 1 \in 1 .. Len(s.log) /\ log[i] = s.log[i - 1]
  <2>1. PICK old : old = s.log
    OBVIOUS
  <2>2. old \in Seq(Alerts) /\ a \in Alerts /\ log = Truncate(<<a>> \o old)
    BY <1>0, <1>1, <1>2, <2>1
  <2> HIDE DEF active
  <2>3. /\ log \in Seq(Alerts) /\ Len(log) <= AlertCapacity
        /\ Len(log) \in 1 .. Len(old) + 1 /\ log[1] = a
        /\ \A i \in 2 .. Len(log) : i - 1 \in 1 .. Len(old) /\ log[i] = old[i - 1]
    <3>1. log \in Seq(Alerts) /\ Len(log) <= AlertCapacity
      BY <2>2, PrependFacts
    <3>2. Len(log) \in 1 .. Len(old) + 1 /\ log[1] = a
      BY <2>2, PrependFacts
    <3>3. \A i \in 2 .. Len(log) : i - 1 \in 1 .. Len(old) /\ log[i] = old[i - 1]
      BY <2>2, PrependFacts
    <3> QED BY <3>1, <3>2, <3>3
  <2> QED BY <2>1, <2>3
<1>5. ASSUME NEW k \in Conditions
      PROVE  /\ active[k] \in Pointers \cup {None}
             /\ active[k] = None <=> s.active[k] = None
             /\ s.active[k] # None =>
                  active[k].id = s.active[k].id /\ active[k].sev = s.active[k].sev
  <2>1. CASE s.active[k] = None
    BY <2>1
  <2>2. CASE s.active[k] # None
    <3>1. s.active[k] \in Pointers
      BY <1>1, <2>2
    <3>2. active[k] = [s.active[k] EXCEPT !.live = FALSE]
      BY <2>2
    <3>3. active[k] \in Pointers /\ active[k].id = s.active[k].id /\ active[k].sev = s.active[k].sev
      BY <3>1, <3>2 DEF Pointers
    <3> QED BY <2>2, <3>3, NoneAssumption
  <2> QED BY <2>1, <2>2
<1>6. active \in [Conditions -> Pointers \cup {None}]
  BY <1>5
<1> HIDE DEF active
<1>7. t \in Engines
  BY <1>1, <1>3, <1>4, <1>6 DEF Engines
<1>8. Shifted(s, t)
  BY <1>2, <1>3, <1>4 DEF Shifted
<1> QED BY <1>0, <1>2, <1>3, <1>4, <1>5, <1>7, <1>8 DEF SameActive

\* An alert that is raised stands for its condition from then on.
LEMMA RaiseFacts ==
    ASSUME NEW s, EngineOK(s), NEW k \in Conditions, NEW sev \in Grade(k), NEW now \in Nat,
           NEW t, t = Raise(s, k, sev, now)
    PROVE  /\ About(s, t, {k}) /\ TroubleAt(t, k, sev)
           /\ t.active[k] # None /\ t.active[k].sev = sev
<1>1. sev \in Severities
  BY DEF Grade, Severities
<1>2. k \in AlertKeys /\ sev \in Severities \cup {"info"}
  BY <1>1 DEF AlertKeys
<1>3. PICK c : c = createAlertLocked(s, k, sev, now)
  OBVIOUS
<1>4. /\ c \in Engines /\ Shifted(s, c)
      /\ c.log[1] = NewAlert(s.next, k, sev, now) /\ c.log[1] \in Alerts
      /\ \A l \in Conditions : SameActive(s, c, l)
  BY <1>2, <1>3, CreateFacts
<1>5. PICK p : p = [id |-> s.next, sev |-> sev, live |-> TRUE]
  OBVIOUS
<1>6. s.next \in Nat /\ Len(s.log) \in Nat
  BY EngineFacts
<1>7. p \in Pointers /\ p # None /\ p.id = s.next /\ p.sev = sev
  <2>1. p \in Pointers /\ p.id = s.next /\ p.sev = sev
    BY <1>1, <1>5, <1>6 DEF Pointers
  <2> QED BY <2>1, NoneAssumption
<1>8. t = [c EXCEPT !.active[k] = p]
  BY <1>3, <1>5 DEF Raise
<1>9. /\ t \in Engines /\ t.log = c.log /\ t.next = c.next /\ t.active[k] = p
      /\ \A l \in Conditions \ {k} : t.active[l] = c.active[l]
  BY <1>4, <1>7, <1>8 DEF Engines
<1>10. t.log[1].key = k /\ ~t.log[1].resolved /\ t.log[1].sev = sev /\ t.log[1].id = s.next
  BY <1>4, <1>9 DEF NewAlert
<1>11. Shifted(s, t)
  BY <1>4, <1>9 DEF Shifted
<1>12. \A l \in Conditions \ {k} : SameActive(s, t, l)
  BY <1>4, <1>9 DEF SameActive
<1>13. EngineOK(t)
  BY <1>7, <1>9, <1>10, <1>11, <1>12, ShiftOK
<1>14. \A l \in Conditions \ {k} : Keeps(s, t, l)
  BY <1>10, <1>11, <1>12, ShiftKeeps
<1>15. TroubleAt(t, k, sev)
  <2>1. ASSUME NEW i \in 1 .. Len(t.log), t.log[i].id = t.active[k].id
        PROVE  OpenAbove(t.log, i, k, sev)
    <3>1. Len(t.log) \in Nat /\ 1 \in 1 .. i
      BY <1>6, <1>11 DEF Shifted
    <3> QED BY <1>10, <3>1 DEF OpenAbove
  <2> QED BY <1>7, <1>9, <2>1 DEF TroubleAt
<1>16. s.next <= t.next
  BY <1>6, <1>11 DEF Shifted
<1> QED BY <1>7, <1>9, <1>13, <1>14, <1>15, <1>16 DEF About

\* An alert that only informs is about no condition.
LEMMA NoteFacts ==
    ASSUME NEW s, EngineOK(s), NEW key \in AlertKeys \ Conditions, NEW now \in Nat,
           NEW t, t = Note(s, key, now)
    PROVE  About(s, t, {})
<1>1. PICK c : c = createAlertLocked(s, key, "info", now)
  OBVIOUS
<1>2. /\ c \in Engines /\ Shifted(s, c)
      /\ c.log[1] = NewAlert(s.next, key, "info", now) /\ c.log[1] \in Alerts
      /\ \A l \in Conditions : SameActive(s, c, l)
  BY <1>1, CreateFacts
<1>3. s.next \in Nat /\ Len(s.log) \in Nat /\ Len(c.log) \in Nat /\ c.log \in Seq(Alerts)
  BY <1>2, EngineFacts DEF Shifted, Engines
<1>4. t = [c EXCEPT !.log = ResolveId(c.log, s.next)]
  BY <1>1 DEF Note
<1>5. t.log = ResolveId(c.log, s.next) /\ t.next = c.next /\ t.active = c.active
  BY <1>2, <1>4 DEF Engines
<1>6. /\ t.log \in Seq(Alerts) /\ Len(t.log) = Len(c.log)
      /\ \A i \in 1 .. Len(c.log) :
           /\ t.log[i] = IF c.log[i].id = s.next THEN [c.log[i] EXCEPT !.resolved = TRUE] ELSE c.log[i]
           /\ t.log[i].id = c.log[i].id /\ t.log[i].key = c.log[i].key
  BY <1>3, <1>5, ResolveFacts
<1>7. t \in Engines
  BY <1>2, <1>4, <1>5, <1>6 DEF Engines
<1>8. t.log[1].id = s.next /\ t.log[1].key = key
  <2>1. 1 \in 1 .. Len(c.log)
    BY <1>2, <1>3 DEF Shifted
  <2>2. c.log[1].id = s.next /\ c.log[1].key = key
    BY <1>2 DEF NewAlert
  <2> QED BY <1>6, <2>1, <2>2
<1>9. ASSUME NEW i \in 2 .. Len(t.log)
      PROVE  i - 1 \in 1 .. Len(s.log) /\ t.log[i] = s.log[i - 1]
  <2>1. i \in 2 .. Len(c.log) /\ i \in 1 .. Len(c.log)
    BY <1>3, <1>6
  <2>2. i - 1 \in 1 .. Len(s.log) /\ c.log[i] = s.log[i - 1]
    BY <1>2, <2>1 DEF Shifted
  <2>3. s.log[i - 1].id < s.next /\ s.log[i - 1] \in Alerts
    BY <2>2, EngineFacts DEF EngineOK, LogOK
  <2>4. c.log[i].id # s.next
    BY <1>3, <2>2, <2>3 DEF Alerts
  <2> QED BY <1>6, <2>1, <2>2, <2>4
<1>10. Shifted(s, t)
  BY <1>2, <1>5, <1>6, <1>8, <1>9 DEF Shifted
<1>11. \A l \in Conditions : SameActive(s, t, l)
  BY <1>2, <1>5 DEF SameActive
<1>12. EngineOK(t)
  BY <1>7, <1>8, <1>10, <1>11, ShiftOK
<1>13. \A l \in Conditions : Keeps(s, t, l)
  BY <1>8, <1>10, <1>11, ShiftKeeps
<1>14. s.next <= t.next
  BY <1>3, <1>10 DEF Shifted
<1> QED BY <1>12, <1>13, <1>14 DEF About
-----------------------------------------------------------------------------
(* Resolving an alert. *)

\* Resolving alerts keeps the log in order, and what it says of every
\* condition but those they are about.
LEMMA ResolveKeeps ==
    ASSUME NEW s, EngineOK(s), NEW t \in Engines, NEW K,
           t.next = s.next, Len(t.log) = Len(s.log),
           \A i \in 1 .. Len(s.log) :
              t.log[i].id = s.log[i].id /\ t.log[i].key = s.log[i].key /\ t.log[i].sev = s.log[i].sev,
           \A l \in Conditions :
              \/ t.active[l] = None
              \/ /\ t.active[l] = s.active[l]
                 /\ \A i \in 1 .. Len(s.log) : s.log[i].id = s.active[l].id => t.log[i] = s.log[i],
           \A l \in Conditions \ K :
              /\ t.active[l] = s.active[l]
              /\ \A i \in 1 .. Len(s.log) : s.log[i].key = l /\ ~s.log[i].resolved => t.log[i] = s.log[i]
    PROVE  About(s, t, K) /\ \A l \in Conditions : NothingNew(s, t, l)
<1>1. /\ s.log \in Seq(Alerts) /\ Len(s.log) \in Nat /\ s.next \in Nat
      /\ \A i \in 1 .. Len(s.log) : s.log[i] \in Alerts
  BY EngineFacts
<1>2. LogOK(t.log, t.next)
  <2>1. t.log \in Seq(Alerts) /\ Len(t.log) <= AlertCapacity
    BY DEF Engines, EngineOK, LogOK
  <2>2. ASSUME NEW i \in 1 .. Len(t.log)
        PROVE  /\ t.log[i].id < t.next
               /\ t.log[i].key \in Conditions => t.log[i].sev \in Grade(t.log[i].key)
               /\ \A j \in 1 .. Len(t.log) : t.log[i].id = t.log[j].id => i = j
    BY DEF EngineOK, LogOK
  <2> QED BY <2>1, <2>2 DEF LogOK
<1>3. ASSUME NEW k \in Conditions, t.active[k] # None
      PROVE  ActiveOK(t, k)
  <2>1. /\ t.active[k] = s.active[k]
        /\ \A i \in 1 .. Len(s.log) : s.log[i].id = s.active[k].id => t.log[i] = s.log[i]
    BY <1>3
  <2>2. /\ s.active[k].id < s.next /\ s.active[k].sev \in Grade(k)
        /\ \A i \in 1 .. Len(s.log) : s.log[i].id = s.active[k].id =>
             s.log[i].key = k /\ ~s.log[i].resolved /\ s.log[i].sev = s.active[k].sev
        /\ \A l \in Conditions : s.active[l] # None /\ s.active[l].id = s.active[k].id => l = k
    BY <1>3, <2>1 DEF EngineOK, ActiveOK
  <2>3. ASSUME NEW i \in 1 .. Len(t.log), t.log[i].id = t.active[k].id
        PROVE  t.log[i].key = k /\ ~t.log[i].resolved /\ t.log[i].sev = t.active[k].sev
    <3>1. s.log[i].id = s.active[k].id /\ t.log[i] = s.log[i]
      BY <2>1, <2>3
    <3> QED BY <2>1, <2>2, <3>1
  <2>4. ASSUME NEW l \in Conditions, t.active[l] # None, t.active[l].id = t.active[k].id
        PROVE  l = k
    BY <2>1, <2>2, <2>4
  <2> QED BY <2>1, <2>2, <2>3, <2>4 DEF ActiveOK
<1>4. EngineOK(t)
  BY <1>2, <1>3 DEF EngineOK, ActiveOK
<1>5. ASSUME NEW k \in Conditions
      PROVE  NothingNew(s, t, k)
  BY DEF NothingNew
<1>6. ASSUME NEW k \in Conditions \ K, NEW sev \in Severities, TroubleAt(s, k, sev)
      PROVE  TroubleAt(t, k, sev)
  <2>1. /\ s.active[k] # None
        /\ \A i \in 1 .. Len(s.log) : s.log[i].id = s.active[k].id => OpenAbove(s.log, i, k, sev)
    BY <1>6, NoneAssumption DEF TroubleAt
  <2>2. t.active[k] = s.active[k]
    OBVIOUS
  <2>3. ASSUME NEW i \in 1 .. Len(t.log), t.log[i].id = t.active[k].id
        PROVE  OpenAbove(t.log, i, k, sev)
    <3>1. i \in 1 .. Len(s.log) /\ s.log[i].id = s.active[k].id
      BY <2>2, <2>3
    <3>2. PICK j \in 1 .. i : s.log[j].key = k /\ ~s.log[j].resolved /\ s.log[j].sev = sev
      BY <2>1, <3>1 DEF OpenAbove
    <3>3. j \in 1 .. Len(s.log)
      BY <1>1, <3>1
    <3>4. t.log[j] = s.log[j]
      BY <3>2, <3>3
    <3> QED BY <3>2, <3>4 DEF OpenAbove
  <2> QED BY <2>1, <2>2, <2>3 DEF TroubleAt
<1>7. \A l \in Conditions \ K : Keeps(s, t, l)
  BY <1>5, <1>6 DEF Keeps, SameActive
<1> QED BY <1>1, <1>4, <1>5, <1>7 DEF About

\* Where the log stays as it is, so does what it says.
LEMMA SameKeeps ==
    ASSUME NEW s, EngineOK(s)
    PROVE  About(s, s, {}) /\ \A l \in Conditions : NothingNew(s, s, l)
<1>1. \A l \in Conditions : NothingNew(s, s, l) /\ SameActive(s, s, l)
  BY DEF NothingNew, SameActive
<1>2. s.next <= s.next
  BY EngineFacts
<1> QED BY <1>1, <1>2 DEF About, Keeps

\* Clearing a condition resolves its alert if the pointer still leads to the
\* log, and leaves it open there otherwise; the other conditions stay.
LEMMA ClearFacts ==
    ASSUME NEW s, EngineOK(s), NEW k \in Conditions, NEW t, t = Clear(s, k)
    PROVE  /\ About(s, t, {k}) /\ t.active[k] = None /\ t.next = s.next
           /\ NothingNew(s, t, k)
<1>1. /\ s \in Engines /\ s.log \in Seq(Alerts)
      /\ s.active \in [Conditions -> Pointers \cup {None}]
  BY EngineFacts
<1>2. CASE s.active[k] = None
  <2>1. t = s
    BY <1>2 DEF Clear
  <2>2. About(s, t, {k}) /\ NothingNew(s, t, k)
    BY <2>1, SameKeeps DEF About
  <2> QED BY <1>2, <2>1, <2>2
<1>3. CASE s.active[k] # None /\ s.active[k].live
  <2>1. PICK id, log : id = s.active[k].id /\ log = ResolveId(s.log, id)
    OBVIOUS
  <2>2. log \in Seq(Alerts) /\ Len(log) = Len(s.log)
    BY <1>1, <2>1, ResolveFacts
  <2>3. ASSUME NEW i \in 1 .. Len(s.log)
        PROVE  /\ log[i].id = s.log[i].id /\ log[i].key = s.log[i].key /\ log[i].sev = s.log[i].sev
               /\ s.log[i].id # id => log[i] = s.log[i]
    BY <1>1, <2>1, ResolveEach
  <2>4. t = [[s EXCEPT !.log = log] EXCEPT !.active[k] = None]
    BY <1>3, <2>1 DEF Clear, ThroughPointer
  <2>5. /\ t \in Engines /\ t.log = log /\ t.next = s.next /\ t.active[k] = None
        /\ \A l \in Conditions \ {k} : t.active[l] = s.active[l]
    BY <1>1, <2>2, <2>4 DEF Engines
  <2>6. ASSUME NEW l \in Conditions \ {k}
        PROVE  /\ \A i \in 1 .. Len(s.log) : s.log[i].key = l => log[i] = s.log[i]
               /\ s.active[l] # None =>
                    \A i \in 1 .. Len(s.log) : s.log[i].id = s.active[l].id => log[i] = s.log[i]
    <3>1. \A i \in 1 .. Len(s.log) : s.log[i].id = id => s.log[i].key = k
      BY <1>3, <2>1 DEF EngineOK, ActiveOK
    <3>2. s.active[l] # None => s.active[l].id # id
      BY <1>3, <2>1 DEF EngineOK, ActiveOK
    <3> QED BY <2>3, <3>1, <3>2
  <2>7. About(s, t, {k}) /\ \A l \in Conditions : NothingNew(s, t, l)
    <3>1. PICK K : K = {k}
      OBVIOUS
    <3>2. \A l \in Conditions \ K :
              /\ t.active[l] = s.active[l]
              /\ \A i \in 1 .. Len(s.log) : s.log[i].key = l /\ ~s.log[i].resolved => t.log[i] = s.log[i]
      BY <2>5, <2>6, <3>1
    <3>3. \A l \in Conditions :
              \/ t.active[l] = None
              \/ /\ t.active[l] = s.active[l]
                 /\ \A i \in 1 .. Len(s.log) : s.log[i].id = s.active[l].id => t.log[i] = s.log[i]
      BY <2>5, <2>6
    <3>4. Len(t.log) = Len(s.log) /\ \A i \in 1 .. Len(s.log) :
            t.log[i].id = s.log[i].id /\ t.log[i].key = s.log[i].key /\ t.log[i].sev = s.log[i].sev
      BY <2>2, <2>3, <2>5
    <3>5. About(s, t, K) /\ \A l \in Conditions : NothingNew(s, t, l)
      BY <2>5, <3>2, <3>3, <3>4, ResolveKeeps
    <3> QED BY <3>1, <3>5
  <2> QED BY <2>5, <2>7
<1>4. CASE s.active[k] # None /\ ~s.active[k].live
  <2>1. t = [s EXCEPT !.active[k] = None]
    BY <1>4 DEF Clear, ThroughPointer
  <2>2. /\ t \in Engines /\ t.log = s.log /\ t.next = s.next /\ t.active[k] = None
        /\ \A l \in Conditions \ {k} : t.active[l] = s.active[l]
    BY <1>1, <2>1 DEF Engines
  <2>3. EngineOK(t)
    <3>1. LogOK(t.log, t.next)
      BY <2>2 DEF EngineOK
    <3>2. ActiveOK(t, k)
      BY <2>2 DEF ActiveOK
    <3>3. ASSUME NEW l \in Conditions \ {k}
          PROVE  ActiveOK(t, l)
      BY <2>2 DEF EngineOK, ActiveOK
    <3> QED BY <2>2, <3>1, <3>2, <3>3 DEF EngineOK
  <2>4. ASSUME NEW l \in Conditions \ {k}
        PROVE  Keeps(s, t, l)
    BY <2>2 DEF Keeps, SameActive, NothingNew, TroubleAt
  <2>5. NothingNew(s, t, k)
    BY <2>2 DEF NothingNew
  <2>6. s.next <= t.next
    BY <2>2, EngineFacts
  <2> QED BY <2>2, <2>3, <2>4, <2>5, <2>6 DEF About
<1> QED BY <1>2, <1>3, <1>4

\* Raising an alert in place of the one that stood for the condition is the
\* same as clearing the condition first.
LEMMA ReplaceIsClearAndRaise ==
    ASSUME NEW s, EngineOK(s), NEW k \in Conditions, s.active[k] # None, NEW sev, NEW now
    PROVE  Raise(ThroughPointer(s, k), k, sev, now) = Raise(Clear(s, k), k, sev, now)
<1>1. PICK p : p = ThroughPointer(s, k)
  OBVIOUS
<1>2. s \in Engines /\ s.active \in [Conditions -> Pointers \cup {None}]
  BY EngineFacts
<1>3. PICK c : c = Clear(s, k)
  OBVIOUS
<1>4. c = [p EXCEPT !.active[k] = None]
  BY <1>1, <1>3 DEF Clear
<1>5. p = s \/ p = [s EXCEPT !.log = ResolveId(s.log, s.active[k].id)]
  BY <1>1 DEF ThroughPointer
<1>6. /\ c.log = p.log /\ c.next = p.next /\ DOMAIN p.active = Conditions
      /\ \A l \in Conditions \ {k} : c.active[l] = p.active[l]
  BY <1>2, <1>4, <1>5 DEF Engines
<1>7. PICK x, y : /\ x = createAlertLocked(p, k, sev, now)
                  /\ y = createAlertLocked(c, k, sev, now)
  OBVIOUS
<1>8. /\ x = [log |-> x.log, active |-> x.active, next |-> x.next]
      /\ y = [log |-> x.log, active |-> y.active, next |-> x.next]
      /\ DOMAIN x.active = Conditions /\ DOMAIN y.active = Conditions
  BY <1>6, <1>7 DEF createAlertLocked
<1>9. ASSUME NEW l \in Conditions \ {k}
      PROVE  x.active[l] = y.active[l]
  BY <1>6, <1>7 DEF createAlertLocked
<1>10. PICK q : q = [id |-> p.next, sev |-> sev, live |-> TRUE]
  OBVIOUS
<1>11. [x.active EXCEPT ![k] = q] = [y.active EXCEPT ![k] = q]
  BY <1>8, <1>9
<1>12. [x EXCEPT !.active[k] = q] = [log |-> x.log, active |-> [x.active EXCEPT ![k] = q], next |-> x.next]
  BY <1>8
<1>13. [y EXCEPT !.active[k] = q] = [log |-> x.log, active |-> [y.active EXCEPT ![k] = q], next |-> x.next]
  BY <1>8
<1>14. /\ Raise(p, k, sev, now) = [x EXCEPT !.active[k] = q]
       /\ Raise(c, k, sev, now) = [y EXCEPT !.active[k] = q]
  BY <1>6, <1>7, <1>10 DEF Raise
<1> QED BY <1>1, <1>3, <1>11, <1>12, <1>13, <1>14
-----------------------------------------------------------------------------
(* Putting steps together. *)

LEMMA KeepsTrans ==
    ASSUME NEW r, NEW s, NEW t, NEW k, Keeps(r, s, k), Keeps(s, t, k)
    PROVE  Keeps(r, t, k)
<1>1. SameActive(r, t, k)
  BY DEF Keeps, SameActive
<1>2. NothingNew(r, t, k)
  <2> SUFFICES ASSUME NEW i \in 1 .. Len(t.log), t.log[i].key = k
               PROVE  \E j \in 1 .. Len(r.log) : r.log[j].id = t.log[i].id /\ r.log[j].key = k
    BY DEF NothingNew
  <2>1. PICK j \in 1 .. Len(s.log) : s.log[j].id = t.log[i].id /\ s.log[j].key = k
    BY DEF Keeps, NothingNew
  <2> QED BY <2>1 DEF Keeps, NothingNew
<1>3. \A sev \in Severities : TroubleAt(r, k, sev) => TroubleAt(t, k, sev)
  BY DEF Keeps
<1> QED BY <1>1, <1>2, <1>3 DEF Keeps

LEMMA NothingNewTrans ==
    ASSUME NEW r, NEW s, NEW t, NEW k, NothingNew(r, s, k), NothingNew(s, t, k)
    PROVE  NothingNew(r, t, k)
<1> SUFFICES ASSUME NEW i \in 1 .. Len(t.log), t.log[i].key = k
             PROVE  \E j \in 1 .. Len(r.log) : r.log[j].id = t.log[i].id /\ r.log[j].key = k
  BY DEF NothingNew
<1>1. PICK j \in 1 .. Len(s.log) : s.log[j].id = t.log[i].id /\ s.log[j].key = k
  BY DEF NothingNew
<1> QED BY <1>1 DEF NothingNew

LEMMA AboutTrans ==
    ASSUME NEW r, EngineOK(r), NEW s, NEW t, NEW K, NEW L, About(r, s, K), About(s, t, L)
    PROVE  About(r, t, K \cup L)
<1>1. EngineOK(s) /\ EngineOK(t)
  BY DEF About
<1>2. r.next \in Nat /\ s.next \in Nat /\ t.next \in Nat
  BY <1>1, EngineFacts
<1>3. r.next <= t.next
  BY <1>2 DEF About
<1>4. ASSUME NEW l \in Conditions \ (K \cup L)
      PROVE  Keeps(r, t, l)
  <2>1. Keeps(r, s, l) /\ Keeps(s, t, l)
    BY DEF About
  <2> QED BY <2>1, KeepsTrans
<1> QED BY <1>1, <1>3, <1>4 DEF About

\* What is found of a condition is not affected by what is done about others
\* before or afterwards.
LEMMA FindsLater ==
    ASSUME NEW r, NEW s, NEW t, NEW k, NEW sev, Keeps(r, s, k), Finds(s, t, k, sev)
    PROVE  Finds(r, t, k, sev)
<1>1. ASSUME r.active[k] # None, r.active[k].sev = sev
      PROVE  NothingNew(r, t, k)
  <2>1. s.active[k] # None /\ s.active[k].sev = sev /\ NothingNew(r, s, k)
    BY <1>1 DEF Keeps, SameActive
  <2>2. NothingNew(s, t, k)
    BY <2>1 DEF Finds, Reports
  <2> QED BY <2>1, <2>2, NothingNewTrans
<1> QED BY <1>1 DEF Finds, Reports

LEMMA FindsEarlier ==
    ASSUME NEW r, NEW s, NEW t, NEW k, NEW sev \in Severities \cup {None},
           Finds(r, s, k, sev), Keeps(s, t, k)
    PROVE  Finds(r, t, k, sev)
<1>1. ASSUME r.active[k] # None, r.active[k].sev = sev
      PROVE  NothingNew(r, t, k)
  <2>1. NothingNew(r, s, k) /\ NothingNew(s, t, k)
    BY <1>1 DEF Finds, Reports, Keeps
  <2> QED BY <2>1, NothingNewTrans
<1>2. t.active[k] = None <=> sev = None
  BY DEF Finds, Reports, Keeps, SameActive
<1>3. TroubleAt(t, k, sev)
  <2>1. CASE sev = None
    BY <2>1 DEF TroubleAt
  <2>2. CASE sev \in Severities
    BY <2>2 DEF Finds, Reports, Keeps
  <2> QED BY <2>1, <2>2
<1> QED BY <1>1, <1>2, <1>3 DEF Finds, Reports
-----------------------------------------------------------------------------
(* The checks. *)

\* A condition that is active at the severity found stays as it is.
LEMMA StaysFound ==
    ASSUME NEW s, EngineOK(s), NEW k \in Conditions, s.active[k] # None
    PROVE  Finds(s, s, k, s.active[k].sev)
<1>1. s.active[k].sev # None
  BY EngineFacts, NoneAssumption
<1>2. NothingNew(s, s, k)
  BY SameKeeps
<1>3. ASSUME NEW i \in 1 .. Len(s.log), s.log[i].id = s.active[k].id
      PROVE  OpenAbove(s.log, i, k, s.active[k].sev)
  <2>1. s.log[i].key = k /\ ~s.log[i].resolved /\ s.log[i].sev = s.active[k].sev
    BY <1>3 DEF EngineOK, ActiveOK
  <2>2. i \in 1 .. i
    BY EngineFacts
  <2> QED BY <2>1, <2>2 DEF OpenAbove
<1> QED BY <1>1, <1>2, <1>3 DEF Finds, Reports, TroubleAt

LEMMA ClearFinds ==
    ASSUME NEW s, EngineOK(s), NEW k \in Conditions, NEW t, t = Clear(s, k)
    PROVE  About(s, t, {k}) /\ Finds(s, t, k, None)
BY ClearFacts DEF Finds, Reports, TroubleAt

\* Raising an alert, at a severity the condition was not active at.
LEMMA RaiseFinds ==
    ASSUME NEW s, EngineOK(s), NEW k \in Conditions, NEW sev \in Grade(k), NEW now \in Nat,
           s.active[k] # None => s.active[k].sev # sev,
           NEW t, t = Raise(s, k, sev, now)
    PROVE  About(s, t, {k}) /\ Finds(s, t, k, sev)
<1>1. sev # None
  BY NoneAssumption DEF Grade, Severities
<1> QED BY <1>1, RaiseFacts DEF Finds, Reports

LEMMA TrackFacts ==
    ASSUME NEW s, EngineOK(s), NEW k \in Conditions, NEW sev \in Grade(k) \cup {None},
           NEW now \in Nat, NEW t, t = Track(s, k, sev, now)
    PROVE  About(s, t, {k}) /\ Finds(s, t, k, sev)
<1>1. CASE sev = None
  BY <1>1, ClearFinds DEF Track
<1>2. CASE sev # None /\ s.active[k] = None
  <2>1. t = Raise(s, k, sev, now) /\ sev \in Grade(k)
    BY <1>2 DEF Track
  <2> QED BY <1>2, <2>1, RaiseFinds
<1>3. CASE sev # None /\ s.active[k] # None /\ s.active[k].sev = sev
  <2>1. t = s
    BY <1>3 DEF Track
  <2>2. About(s, s, {k})
    BY SameKeeps DEF About
  <2> QED BY <1>3, <2>1, <2>2, StaysFound
<1>4. CASE sev # None /\ s.active[k] # None /\ s.active[k].sev # sev
  <2>1. PICK c : c = Clear(s, k)
    OBVIOUS
  <2>2. About(s, c, {k}) /\ EngineOK(c) /\ c.active[k] = None
    BY <2>1, ClearFacts DEF About
  <2>3. t = Raise(c, k, sev, now) /\ sev \in Grade(k)
    BY <1>4, <2>1, ReplaceIsClearAndRaise DEF Track
  <2>4. About(c, t, {k}) /\ Finds(c, t, k, sev)
    BY <2>2, <2>3, RaiseFinds
  <2>5. About(s, t, {k})
    <3>1. About(s, t, {k} \cup {k})
      BY <2>2, <2>4, AboutTrans
    <3> QED BY <3>1
  <2> QED BY <1>4, <2>4, <2>5 DEF Finds, Reports
<1> QED BY <1>1, <1>2, <1>3, <1>4

LEMMA OfflineFacts ==
    ASSUME NEW s, EngineOK(s), NEW n \in FsIDs, NEW now \in Nat, NEW k, k = Condition("offline", n),
           NEW t, t = CheckOffline(s, n, now)
    PROVE  /\ About(s, t, {k}) /\ Finds(s, t, k, "critical")
           /\ t.active[k].sev = "critical"
<1>1. k \in Conditions /\ Grade(k) = {"critical"}
  BY DEF Condition, Conditions, NodeKinds, Grade
<1>2. CASE s.active[k] = None
  <2>1. t = Raise(s, k, "critical", now)
    BY <1>2 DEF CheckOffline
  <2> QED BY <1>1, <1>2, <2>1, RaiseFinds, RaiseFacts
<1>3. CASE s.active[k] # None
  <2>1. t = s
    BY <1>3 DEF CheckOffline
  <2>2. s.active[k].sev = "critical"
    BY <1>1, <1>3 DEF EngineOK, ActiveOK
  <2>3. About(s, s, {k})
    BY SameKeeps DEF About
  <2> QED BY <1>1, <1>3, <2>1, <2>2, <2>3, StaysFound
<1> QED BY <1>2, <1>3

LEMMA OnlineFacts ==
    ASSUME NEW s, EngineOK(s), NEW n \in FsIDs, NEW now \in Nat, NEW k, k = Condition("offline", n),
           NEW t, t = CheckOnline(s, n, now)
    PROVE  About(s, t, {k}) /\ Finds(s, t, k, None)
<1>1. k \in Conditions
  BY DEF Condition, Conditions, NodeKinds
<1>2. CASE s.active[k] = None
  <2>1. t = s
    BY <1>2 DEF CheckOnline
  <2>2. About(s, s, {k}) /\ NothingNew(s, s, k)
    BY <1>1, SameKeeps DEF About
  <2> QED BY <1>2, <2>1, <2>2 DEF Finds, Reports, TroubleAt
<1>3. CASE s.active[k] # None
  <2>1. PICK c, key : c = Clear(s, k) /\ key = Condition("online", n)
    OBVIOUS
  <2>2. key \in AlertKeys \ Conditions
    BY <2>1 DEF Condition, Conditions, NodeKinds, AlertKeys
  <2>3. About(s, c, {k}) /\ Finds(s, c, k, None) /\ EngineOK(c)
    BY <1>1, <2>1, ClearFinds DEF About
  <2>4. t = Note(c, key, now)
    BY <1>3, <2>1 DEF CheckOnline
  <2>5. About(c, t, {})
    BY <2>2, <2>3, <2>4, NoteFacts
  <2>6. About(s, t, {k})
    <3>1. About(s, t, {k} \cup {})
      BY <2>3, <2>5, AboutTrans
    <3> QED BY <3>1
  <2>7. Finds(s, t, k, None)
    BY <1>1, <2>3, <2>5, FindsEarlier DEF About
  <2> QED BY <2>6, <2>7
<1> QED BY <1>2, <1>3

\* checkUserQuota.
LEMMA UserQuotaFacts ==
    ASSUME NEW s, EngineOK(s), NEW u \in Users, NEW exceeded, NEW now \in Nat,
           NEW k, k = Condition("quota", u), NEW t, t = UserQuota(s, u, exceeded, now)
    PROVE  /\ About(s, t, {k}) /\ Finds(s, t, k, IF exceeded THEN "warning" ELSE None)
           /\ k \in Conditions
<1>1. k \in Conditions /\ Grade(k) = {"warning"}
  BY DEF Condition, Conditions, NodeKinds, Grade
<1>2. CASE ~exceeded
  <2>1. t = Clear(s, k)
    BY <1>2 DEF UserQuota
  <2> QED BY <1>1, <1>2, <2>1, ClearFinds
<1>3. CASE exceeded /\ s.active[k] = None
  <2>1. t = Raise(s, k, "warning", now)
    BY <1>3 DEF UserQuota
  <2> QED BY <1>1, <1>3, <2>1, RaiseFinds
<1>4. CASE exceeded /\ s.active[k] # None
  <2>1. t = s
    BY <1>4 DEF UserQuota
  <2>2. s.active[k].sev = "warning"
    BY <1>1, <1>4 DEF EngineOK, ActiveOK
  <2>3. About(s, s, {k})
    BY SameKeeps DEF About
  <2>4. Finds(s, s, k, "warning")
    BY <1>1, <1>4, <2>2, StaysFound
  <2> QED BY <1>1, <1>4, <2>1, <2>3, <2>4
<1> QED BY <1>2, <1>3, <1>4

LEMMA TrackNode ==
    ASSUME NEW s, EngineOK(s), NEW n \in FsIDs, NEW kind \in {"storage", "temp", "error"},
           NEW sev \in Severities \cup {None}, NEW now \in Nat,
           NEW k, k = Condition(kind, n), NEW t, t = Track(s, k, sev, now)
    PROVE  About(s, t, {k}) /\ Finds(s, t, k, sev)
<1>1. k \in Conditions /\ Grade(k) = Severities
  BY DEF Condition, Conditions, NodeKinds, Grade
<1> QED BY <1>1, TrackFacts

\* CheckNodeHealth, of a node that answers: each of the four conditions is
\* looked at, one after the other, and a restart is noted at the end.
LEMMA HealthyFacts ==
    ASSUME NEW s, EngineOK(s), NEW n \in FsIDs, NEW h, h.status # "offline", NEW now \in Nat,
           NEW t, t = NodeHealth(s, n, h, now)
    PROVE  /\ About(s, t, {Condition(kind, n) : kind \in NodeKinds})
           /\ Finds(s, t, Condition("offline", n), None)
           /\ Finds(s, t, Condition("storage", n), StorageSeverity(h.metrics.disk))
           /\ Finds(s, t, Condition("temp", n), TempSeverity(h.metrics.temp))
           /\ Finds(s, t, Condition("error", n), ErrorSeverity(h.errPct))
<1>1. PICK k1, k2, k3, k4 :
        /\ k1 = Condition("offline", n) /\ k2 = Condition("storage", n)
        /\ k3 = Condition("temp", n) /\ k4 = Condition("error", n)
  OBVIOUS
<1>2. /\ {k1, k2, k3, k4} \subseteq Conditions
      /\ k1 # k2 /\ k1 # k3 /\ k1 # k4 /\ k2 # k3 /\ k2 # k4 /\ k3 # k4
  BY <1>1 DEF Condition, Conditions, NodeKinds
<1>3. PICK d, c, e :
        d = StorageSeverity(h.metrics.disk) /\ c = TempSeverity(h.metrics.temp) /\ e = ErrorSeverity(h.errPct)
  OBVIOUS
<1>4. {d, c, e} \subseteq Severities \cup {None}
  BY <1>3 DEF StorageSeverity, TempSeverity, ErrorSeverity, Severities
<1>5. PICK s1 : s1 = CheckOnline(s, n, now)
  OBVIOUS
<1>6. PICK s2 : s2 = Track(s1, k2, d, now)
  OBVIOUS
<1>7. PICK s3 : s3 = Track(s2, k3, c, now)
  OBVIOUS
<1>8. PICK s4 : s4 = Track(s3, k4, e, now)
  OBVIOUS
<1>9. t = IF h.restarted THEN Note(s4, Condition("restart", n), now) ELSE s4
  BY <1>1, <1>3, <1>5, <1>6, <1>7, <1>8 DEF NodeHealth
<1>10. About(s, s1, {k1}) /\ Finds(s, s1, k1, None) /\ EngineOK(s1)
  BY <1>1, <1>5, OnlineFacts DEF About
<1>11. About(s1, s2, {k2}) /\ Finds(s1, s2, k2, d) /\ EngineOK(s2)
  BY <1>1, <1>4, <1>6, <1>10, TrackNode DEF About
<1>12. About(s2, s3, {k3}) /\ Finds(s2, s3, k3, c) /\ EngineOK(s3)
  BY <1>1, <1>4, <1>7, <1>11, TrackNode DEF About
<1>13. About(s3, s4, {k4}) /\ Finds(s3, s4, k4, e) /\ EngineOK(s4)
  BY <1>1, <1>4, <1>8, <1>12, TrackNode DEF About
<1>14. About(s4, t, {})
  <2>1. CASE h.restarted
    <3>1. PICK key : key = Condition("restart", n)
      OBVIOUS
    <3>2. key \in AlertKeys \ Conditions
      BY <3>1 DEF Condition, Conditions, NodeKinds, AlertKeys
    <3>3. t = Note(s4, key, now)
      BY <1>9, <2>1, <3>1
    <3> QED BY <1>13, <3>2, <3>3, NoteFacts
  <2>2. CASE ~h.restarted
    BY <1>9, <1>13, <2>2, SameKeeps
  <2> QED BY <2>1, <2>2
<1>15. About(s, t, {k1, k2, k3, k4})
  <2>1. About(s, s2, {k1} \cup {k2})
    BY <1>10, <1>11, AboutTrans
  <2>2. About(s, s3, {k1} \cup {k2} \cup {k3})
    BY <1>12, <2>1, AboutTrans
  <2>3. About(s, s4, {k1} \cup {k2} \cup {k3} \cup {k4})
    BY <1>13, <2>2, AboutTrans
  <2>4. About(s, t, {k1} \cup {k2} \cup {k3} \cup {k4} \cup {})
    BY <1>14, <2>3, AboutTrans
  <2>5. {k1} \cup {k2} \cup {k3} \cup {k4} \cup {} = {k1, k2, k3, k4}
    OBVIOUS
  <2> QED BY <2>4, <2>5
<1>16. Finds(s, t, k1, None)
  <2>1. Finds(s, s2, k1, None)
    BY <1>2, <1>10, <1>11, FindsEarlier DEF About
  <2>2. Finds(s, s3, k1, None)
    BY <1>2, <1>12, <2>1, FindsEarlier DEF About
  <2>3. Finds(s, s4, k1, None)
    BY <1>2, <1>13, <2>2, FindsEarlier DEF About
  <2> QED BY <1>2, <1>14, <2>3, FindsEarlier DEF About
<1>17. Finds(s, t, k2, d)
  <2>1. Finds(s, s2, k2, d)
    BY <1>2, <1>10, <1>11, FindsLater DEF About
  <2>2. Finds(s, s3, k2, d)
    BY <1>2, <1>4, <1>12, <2>1, FindsEarlier DEF About
  <2>3. Finds(s, s4, k2, d)
    BY <1>2, <1>4, <1>13, <2>2, FindsEarlier DEF About
  <2> QED BY <1>2, <1>4, <1>14, <2>3, FindsEarlier DEF About
<1>18. Finds(s, t, k3, c)
  <2>1. Keeps(s, s2, k3)
    <3>1. Keeps(s, s1, k3) /\ Keeps(s1, s2, k3)
      BY <1>2, <1>10, <1>11 DEF About
    <3> QED BY <3>1, KeepsTrans
  <2>2. Finds(s, s3, k3, c)
    BY <1>12, <2>1, FindsLater
  <2>3. Finds(s, s4, k3, c)
    BY <1>2, <1>4, <1>13, <2>2, FindsEarlier DEF About
  <2> QED BY <1>2, <1>4, <1>14, <2>3, FindsEarlier DEF About
<1>19. Finds(s, t, k4, e)
  <2>1. Keeps(s, s2, k4)
    <3>1. Keeps(s, s1, k4) /\ Keeps(s1, s2, k4)
      BY <1>2, <1>10, <1>11 DEF About
    <3> QED BY <3>1, KeepsTrans
  <2>2. Keeps(s, s3, k4)
    <3>1. Keeps(s2, s3, k4)
      BY <1>2, <1>12 DEF About
    <3> QED BY <2>1, <3>1, KeepsTrans
  <2>3. Finds(s, s4, k4, e)
    BY <1>13, <2>2, FindsLater
  <2> QED BY <1>2, <1>4, <1>14, <2>3, FindsEarlier DEF About
<1>20. {Condition(kind, n) : kind \in NodeKinds} = {k1, k2, k3, k4}
  BY <1>1 DEF NodeKinds
<1> QED BY <1>1, <1>3, <1>15, <1>16, <1>17, <1>18, <1>19, <1>20
-----------------------------------------------------------------------------
(* The methods as steps. *)

\* While a condition is active at the severity that is found no alert of it
\* enters the log.
NoneAdded ==
    \A k \in Conditions : am.active[k] # None /\ am.active[k].sev = trouble'[k] =>
        \A i \in 1 .. Len(am'.log) : am'.log[i].key = k => am'.log[i].id < am.next

\* The file follows the log, or is known not to.
LEMMA SavedFacts ==
    ASSUME AlertInv, NEW t, am' = t, EngineOK(t), am.next <= t.next,
           \/ SaveAlerts
           \/ KeepFile /\ ToSet(t.log) = ToSet(am.log)
    PROVE  /\ LogOK(alertFile', t.next)
           /\ unsaved' \in BOOLEAN /\ (unsaved' \/ ToSet(alertFile') = ToSet(t.log))
<1>1. am.next \in Nat /\ t.next \in Nat
  BY EngineFacts DEF AlertInv
<1>2. LogOK(alertFile, t.next)
  <2>1. ASSUME NEW i \in 1 .. Len(alertFile)
        PROVE  alertFile[i].id \in Nat
    <3>1. alertFile[i] \in Alerts
      BY ElementOfSeq DEF AlertInv, LogOK
    <3> QED BY <3>1 DEF Alerts
  <2> QED BY <1>1, <2>1 DEF AlertInv, LogOK
<1>3. CASE SaveAlerts
  <2>1. CASE alertFile' = am'.log /\ unsaved' = FALSE
    BY <2>1 DEF EngineOK
  <2>2. CASE unsaved' = TRUE /\ UNCHANGED alertFile
    BY <1>2, <2>2
  <2> QED BY <1>3, <2>1, <2>2 DEF SaveAlerts
<1>4. CASE KeepFile /\ ToSet(t.log) = ToSet(am.log)
  BY <1>2, <1>4 DEF KeepFile, AlertInv
<1> QED BY <1>3, <1>4

\* What a method finds is what is recorded: the invariant holds afterwards,
\* and nothing is reported twice.
LEMMA MethodStep ==
    ASSUME AlertInv, NEW t, am' = t, NEW K, About(am, t, K),
           trouble' \in [Conditions -> Severities \cup {None}],
           \A l \in Conditions \ K : trouble'[l] = trouble[l],
           \A l \in K : Reports(am, t, l, trouble'[l]),
           \/ SaveAlerts
           \/ KeepFile /\ ToSet(t.log) = ToSet(am.log)
    PROVE  AlertInv' /\ NoneAdded
<1>1. EngineOK(am) /\ EngineOK(t) /\ am.next <= t.next
  BY DEF AlertInv, About
<1>2. ASSUME NEW k \in Conditions
      PROVE  TroubleAt(t, k, trouble'[k])
  <2>1. CASE k \in K
    BY <2>1 DEF Reports
  <2>2. CASE k \notin K /\ trouble'[k] = None
    BY <2>2 DEF TroubleAt
  <2>3. CASE k \notin K /\ trouble'[k] # None
    <3>1. trouble'[k] = trouble[k] /\ trouble'[k] \in Severities
      BY <2>3
    <3>2. TroubleAt(am, k, trouble'[k])
      BY <3>1 DEF AlertInv
    <3>3. Keeps(am, t, k)
      BY <2>3 DEF About
    <3> QED BY <3>1, <3>2, <3>3 DEF Keeps
  <2> QED BY <2>1, <2>2, <2>3
<1>3. /\ LogOK(alertFile', t.next)
      /\ unsaved' \in BOOLEAN /\ (unsaved' \/ ToSet(alertFile') = ToSet(t.log))
  BY <1>1, SavedFacts
<1>4. AlertInv'
  BY <1>1, <1>2, <1>3 DEF AlertInv
<1>5. ASSUME NEW k \in Conditions, am.active[k] # None, am.active[k].sev = trouble'[k]
      PROVE  NothingNew(am, t, k)
  <2>1. CASE k \in K
    BY <1>5, <2>1 DEF Reports
  <2>2. CASE k \notin K
    BY <2>2 DEF About, Keeps
  <2> QED BY <2>1, <2>2
<1>6. ASSUME NEW k \in Conditions, NothingNew(am, t, k), NEW i \in 1 .. Len(t.log), t.log[i].key = k
      PROVE  t.log[i].id < am.next
  BY <1>1, <1>6 DEF NothingNew, EngineOK, LogOK
<1>7. NoneAdded
  BY <1>5, <1>6 DEF NoneAdded
<1> QED BY <1>4, <1>7

LEMMA CheckNodeHealthStep ==
    ASSUME AlertInv, NEW n \in FsIDs, NEW h, h.status # "offline" => h.metrics # None,
           NEW now \in Nat, CheckNodeHealth(n, h, now)
    PROVE  AlertInv' /\ NoneAdded
<1>1. EngineOK(am)
  BY DEF AlertInv
<1>2. PICK t : t = NodeHealth(am, n, h, now)
  OBVIOUS
<1>3. am' = t /\ SaveAlerts
  BY <1>2 DEF CheckNodeHealth
<1>4. CASE h.status = "offline"
  <2>1. PICK k : k = Condition("offline", n)
    OBVIOUS
  <2>2. k \in Conditions
    BY <2>1 DEF Condition, Conditions, NodeKinds
  <2>3. t = CheckOffline(am, n, now)
    BY <1>2, <1>4 DEF NodeHealth
  <2>4. About(am, t, {k}) /\ Finds(am, t, k, "critical")
    BY <1>1, <2>1, <2>3, OfflineFacts
  <2>5. trouble' = [trouble EXCEPT ![k] = "critical"]
    BY <1>4, <2>1 DEF CheckNodeHealth, Answers
  <2>6. /\ trouble' \in [Conditions -> Severities \cup {None}] /\ trouble'[k] = "critical"
        /\ \A l \in Conditions \ {k} : trouble'[l] = trouble[l]
    BY <2>2, <2>5 DEF AlertInv, Severities
  <2>7. \A l \in {k} : Reports(am, t, l, trouble'[l])
    BY <2>4, <2>6 DEF Finds
  <2> QED BY <1>3, <2>4, <2>6, <2>7, MethodStep
<1>5. CASE h.status # "offline"
  <2>1. PICK k1, k2, k3, k4 :
        /\ k1 = Condition("offline", n) /\ k2 = Condition("storage", n)
        /\ k3 = Condition("temp", n) /\ k4 = Condition("error", n)
    OBVIOUS
  <2>2. /\ {k1, k2, k3, k4} \subseteq Conditions
        /\ k1 # k2 /\ k1 # k3 /\ k1 # k4 /\ k2 # k3 /\ k2 # k4 /\ k3 # k4
    BY <2>1 DEF Condition, Conditions, NodeKinds
  <2>3. PICK d, c, e :
        d = StorageSeverity(h.metrics.disk) /\ c = TempSeverity(h.metrics.temp) /\ e = ErrorSeverity(h.errPct)
    OBVIOUS
  <2>4. {d, c, e} \subseteq Severities \cup {None}
    BY <2>3 DEF StorageSeverity, TempSeverity, ErrorSeverity, Severities
  <2>5. {Condition(kind, n) : kind \in NodeKinds} = {k1, k2, k3, k4}
    BY <2>1 DEF NodeKinds
  <2>6. /\ About(am, t, {k1, k2, k3, k4})
        /\ Finds(am, t, k1, None) /\ Finds(am, t, k2, d) /\ Finds(am, t, k3, c) /\ Finds(am, t, k4, e)
    BY <1>1, <1>2, <1>5, <2>1, <2>3, <2>5, HealthyFacts
  <2>7. trouble' = [trouble EXCEPT ![k1] = None, ![k2] = d, ![k3] = c, ![k4] = e]
    BY <1>5, <2>1, <2>3 DEF CheckNodeHealth, Answers
  <2>8. trouble \in [Conditions -> Severities \cup {None}]
    BY DEF AlertInv
  <2>9. trouble' \in [Conditions -> Severities \cup {None}]
    BY <2>2, <2>4, <2>7, <2>8
  <2>10. trouble'[k1] = None /\ trouble'[k2] = d /\ trouble'[k3] = c /\ trouble'[k4] = e
    BY <2>2, <2>7, <2>8
  <2>11. ASSUME NEW l \in Conditions \ {k1, k2, k3, k4}
         PROVE  trouble'[l] = trouble[l]
    BY <2>2, <2>7, <2>8
  <2>12. \A l \in {k1, k2, k3, k4} : Reports(am, t, l, trouble'[l])
    BY <2>6, <2>10 DEF Finds
  <2> QED BY <1>3, <2>6, <2>9, <2>11, <2>12, MethodStep
<1> QED BY <1>4, <1>5

LEMMA CheckUserQuotaStep ==
    ASSUME AlertInv, NEW u \in Users, NEW exceeded, NEW now \in Nat,
           CheckUserQuota(u, exceeded, now)
    PROVE  AlertInv' /\ NoneAdded
<1>1. EngineOK(am)
  BY DEF AlertInv
<1>2. PICK t, k, sev : /\ t = UserQuota(am, u, exceeded, now) /\ k = Condition("quota", u)
                       /\ sev = IF exceeded THEN "warning" ELSE None
  OBVIOUS
<1>3. am' = t /\ trouble' = [trouble EXCEPT ![k] = sev] /\ (SaveAlerts \/ (KeepFile /\ t = am))
  BY <1>2 DEF CheckUserQuota
<1>4. About(am, t, {k}) /\ Finds(am, t, k, sev) /\ k \in Conditions
  BY <1>1, <1>2, UserQuotaFacts
<1>5. sev \in Severities \cup {None}
  BY <1>2 DEF Severities
<1>6. /\ trouble' \in [Conditions -> Severities \cup {None}] /\ trouble'[k] = sev
      /\ \A l \in Conditions \ {k} : trouble'[l] = trouble[l]
  BY <1>3, <1>4, <1>5 DEF AlertInv
<1>7. \A l \in {k} : Reports(am, t, l, trouble'[l])
  BY <1>4, <1>6 DEF Finds
<1>8. SaveAlerts \/ (KeepFile /\ ToSet(t.log) = ToSet(am.log))
  BY <1>3
<1> QED BY <1>3, <1>4, <1>6, <1>7, <1>8, MethodStep

\* An operator resolves an alert: what it reports is forgotten, and a
\* condition whose own alert it is not stays as it is.
LEMMA ResolveAlertStep ==
    ASSUME AlertInv, NEW id, ResolveAlert(id)
    PROVE  /\ AlertInv' /\ NoneAdded
           /\ \A l \in Conditions : am'.active[l] # am.active[l] => am'.active[l] = None
           /\ \A k, l \in Conditions :
                am'.active[k] # am.active[k] /\ am'.active[l] # am.active[l] => k = l
<1>1. /\ EngineOK(am) /\ am \in Engines /\ am.log \in Seq(Alerts) /\ Len(am.log) \in Nat
      /\ am.active \in [Conditions -> Pointers \cup {None}]
  BY EngineFacts DEF AlertInv
<1>2. PICK t, K, A : /\ K = ReportedBy(id)
                     /\ A = {k \in Conditions : am.active[k] # None /\ am.active[k].id = id}
                     /\ t = [am EXCEPT !.log = ResolveId(am.log, id), !.active = Forget(A, am.active)]
  OBVIOUS
<1>3. am' = t /\ trouble' = Forget(K, trouble) /\ (SaveAlerts \/ (KeepFile /\ id \notin Ids(am.log)))
  BY <1>2 DEF ResolveAlert
<1>4. A \subseteq K /\ K \subseteq Conditions
  BY <1>2 DEF ReportedBy
<1>5. ResolveId(am.log, id) \in Seq(Alerts)
  BY <1>1, ResolveFacts
<1>6. Forget(A, am.active) \in [Conditions -> Pointers \cup {None}]
  BY <1>1 DEF Forget
<1>7. /\ t \in Engines /\ t.log = ResolveId(am.log, id) /\ t.next = am.next
      /\ t.active = Forget(A, am.active)
  BY <1>1, <1>2, <1>5, <1>6 DEF Engines
<1>8. /\ \A l \in A : t.active[l] = None
      /\ \A l \in Conditions \ A : t.active[l] = am.active[l]
  BY <1>4, <1>7 DEF Forget
<1>9. \A l \in Conditions :
        /\ l \in K => trouble'[l] = None
        /\ l \notin K => trouble'[l] = trouble[l]
  BY <1>3 DEF Forget
<1>10. trouble' \in [Conditions -> Severities \cup {None}]
  BY <1>3 DEF Forget, AlertInv
<1>11. ASSUME NEW k \in A, NEW l \in A
       PROVE  l = k
  BY <1>1, <1>2 DEF EngineOK, ActiveOK
<1>12. PICK log : log = ResolveId(am.log, id)
  OBVIOUS
<1>13. t.log = log /\ Len(log) = Len(am.log)
  BY <1>1, <1>7, <1>12, ResolveFacts
<1>14. ASSUME NEW i \in 1 .. Len(am.log)
       PROVE  /\ log[i].id = am.log[i].id /\ log[i].key = am.log[i].key /\ log[i].sev = am.log[i].sev
              /\ am.log[i].id # id => log[i] = am.log[i]
  BY <1>1, <1>12, ResolveEach
<1>15. ASSUME NEW l \in Conditions
       PROVE  \/ t.active[l] = None
              \/ /\ t.active[l] = am.active[l]
                 /\ \A i \in 1 .. Len(am.log) : am.log[i].id = am.active[l].id => t.log[i] = am.log[i]
  BY <1>2, <1>8, <1>13, <1>14
<1>16. ASSUME NEW l \in Conditions \ K
       PROVE  /\ t.active[l] = am.active[l]
              /\ \A i \in 1 .. Len(am.log) :
                   am.log[i].key = l /\ ~am.log[i].resolved => t.log[i] = am.log[i]
  <2>1. \A i \in 1 .. Len(am.log) : am.log[i].key = l /\ ~am.log[i].resolved => am.log[i].id # id
    <3>1. \A i \in Unresolved(am.log, l) : am.log[i].id # id
      BY <1>2 DEF ReportedBy
    <3>2. DOMAIN am.log = 1 .. Len(am.log)
      BY <1>1, LenProperties
    <3> QED BY <3>1, <3>2 DEF Unresolved
  <2> QED BY <1>4, <1>8, <1>13, <1>14, <2>1
<1>17. About(am, t, K) /\ \A l \in Conditions : NothingNew(am, t, l)
  <2>1. PICK s : s = am
    OBVIOUS
  <2>2. /\ EngineOK(s) /\ t \in Engines /\ t.next = s.next /\ Len(t.log) = Len(s.log)
        /\ \A i \in 1 .. Len(s.log) :
              t.log[i].id = s.log[i].id /\ t.log[i].key = s.log[i].key /\ t.log[i].sev = s.log[i].sev
    BY <1>1, <1>7, <1>13, <1>14, <2>1
  <2>3. \A l \in Conditions :
              \/ t.active[l] = None
              \/ /\ t.active[l] = s.active[l]
                 /\ \A i \in 1 .. Len(s.log) : s.log[i].id = s.active[l].id => t.log[i] = s.log[i]
    BY <1>15, <2>1
  <2>4. \A l \in Conditions \ K :
              /\ t.active[l] = s.active[l]
              /\ \A i \in 1 .. Len(s.log) : s.log[i].key = l /\ ~s.log[i].resolved => t.log[i] = s.log[i]
    BY <1>16, <2>1
  <2>5. About(s, t, K) /\ \A l \in Conditions : NothingNew(s, t, l)
    BY <2>2, <2>3, <2>4, ResolveKeeps
  <2> QED BY <2>1, <2>5
<1>18. ASSUME NEW l \in K
       PROVE  Reports(am, t, l, trouble'[l])
  <2>1. TroubleAt(t, l, None)
    BY DEF TroubleAt
  <2>2. trouble'[l] = None /\ NothingNew(am, t, l)
    BY <1>4, <1>9, <1>17
  <2> QED BY <2>1, <2>2 DEF Reports
<1>19. SaveAlerts \/ (KeepFile /\ ToSet(t.log) = ToSet(am.log))
  <2>1. CASE id \notin Ids(am.log)
    <3>1. DOMAIN am.log = 1 .. Len(am.log) /\ DOMAIN log = 1 .. Len(log)
      BY <1>1, <1>5, <1>12, LenProperties
    <3>2. \A i \in 1 .. Len(am.log) : log[i] = am.log[i]
      BY <1>14, <2>1, <3>1 DEF Ids
    <3>3. ToSet(log) = ToSet(am.log)
      BY <1>13, <3>1, <3>2 DEF ToSet
    <3> QED BY <1>3, <1>13, <3>3
  <2> QED BY <1>3, <2>1
<1>20. AlertInv' /\ NoneAdded
  BY <1>3, <1>9, <1>10, <1>17, <1>18, <1>19, MethodStep
<1>21. \A l \in Conditions : am'.active[l] # am.active[l] => am'.active[l] = None
  BY <1>3, <1>8
<1>22. ASSUME NEW k \in Conditions, NEW l \in Conditions,
              am'.active[k] # am.active[k], am'.active[l] # am.active[l]
       PROVE  k = l
  BY <1>3, <1>8, <1>11, <1>22
<1> QED BY <1>20, <1>21, <1>22

\* An operator resolves every alert: no condition is active any more.
LEMMA ResolveAllStep ==
    ASSUME AlertInv, ResolveAll
    PROVE  AlertInv' /\ NoneAdded /\ am'.active = Calm
<1>1. /\ EngineOK(am) /\ am \in Engines /\ am.log \in Seq(Alerts) /\ Len(am.log) \in Nat
      /\ DOMAIN am.log = 1 .. Len(am.log)
      /\ \A i \in 1 .. Len(am.log) : am.log[i] \in Alerts
  BY EngineFacts, LenProperties DEF AlertInv
<1>2. PICK t, log : /\ log = [i \in DOMAIN am.log |-> [am.log[i] EXCEPT !.resolved = TRUE]]
                    /\ t = [am EXCEPT !.log = log, !.active = Calm]
  OBVIOUS
<1>3. /\ am' = t /\ trouble' = Calm
      /\ SaveAlerts \/ (KeepFile /\ \A i \in DOMAIN am.log : am.log[i].resolved)
  BY <1>2 DEF ResolveAll
<1>4. ASSUME NEW i \in 1 .. Len(am.log)
      PROVE  /\ log[i] = [am.log[i] EXCEPT !.resolved = TRUE] /\ log[i] \in Alerts
             /\ log[i].id = am.log[i].id /\ log[i].key = am.log[i].key /\ log[i].sev = am.log[i].sev
             /\ am.log[i].resolved => log[i] = am.log[i]
  <2>1. log[i] = [am.log[i] EXCEPT !.resolved = TRUE] /\ am.log[i] \in Alerts
    BY <1>1, <1>2
  <2>2. am.log[i].resolved = TRUE => [am.log[i] EXCEPT !.resolved = TRUE] = am.log[i]
    BY <2>1 DEF Alerts
  <2>3. am.log[i].resolved \in BOOLEAN
    BY <2>1 DEF Alerts
  <2> QED BY <2>1, <2>2, <2>3 DEF Alerts
<1>5. log \in [1 .. Len(am.log) -> Alerts]
  BY <1>1, <1>2, <1>4
<1>6. log \in Seq(Alerts)
  BY <1>1, <1>5, SeqDef
<1>7. Len(log) = Len(am.log) /\ DOMAIN log = DOMAIN am.log
  <2>1. DOMAIN log = 1 .. Len(log) /\ Len(log) \in Nat
    BY <1>6, LenProperties
  <2> QED BY <1>1, <1>5, <2>1
<1>8. Calm \in [Conditions -> Pointers \cup {None}]
  BY DEF Calm
<1>9. t \in Engines /\ t.log = log /\ t.active = Calm /\ t.next = am.next
  BY <1>1, <1>2, <1>6, <1>8 DEF Engines
<1>10. About(am, t, Conditions) /\ \A l \in Conditions : NothingNew(am, t, l)
  <2>1. PICK s, K : s = am /\ K = Conditions
    OBVIOUS
  <2>2. /\ EngineOK(s) /\ t \in Engines /\ t.next = s.next /\ Len(t.log) = Len(s.log)
        /\ \A i \in 1 .. Len(s.log) :
              t.log[i].id = s.log[i].id /\ t.log[i].key = s.log[i].key /\ t.log[i].sev = s.log[i].sev
    BY <1>1, <1>4, <1>7, <1>9, <2>1
  <2>3. \A l \in Conditions :
              \/ t.active[l] = None
              \/ /\ t.active[l] = s.active[l]
                 /\ \A i \in 1 .. Len(s.log) : s.log[i].id = s.active[l].id => t.log[i] = s.log[i]
    BY <1>9 DEF Calm
  <2>4. \A l \in Conditions \ K :
              /\ t.active[l] = s.active[l]
              /\ \A i \in 1 .. Len(s.log) : s.log[i].key = l /\ ~s.log[i].resolved => t.log[i] = s.log[i]
    BY <2>1
  <2>5. About(s, t, K) /\ \A l \in Conditions : NothingNew(s, t, l)
    BY <2>2, <2>3, <2>4, ResolveKeeps
  <2> QED BY <2>1, <2>5
<1>11. ASSUME NEW l \in Conditions
       PROVE  Reports(am, t, l, trouble'[l])
  <2>1. TroubleAt(t, l, None)
    BY DEF TroubleAt
  <2>2. trouble'[l] = None /\ NothingNew(am, t, l)
    BY <1>3, <1>10 DEF Calm
  <2> QED BY <2>1, <2>2 DEF Reports
<1>12. trouble' \in [Conditions -> Severities \cup {None}]
  BY <1>3 DEF Calm
<1>13. SaveAlerts \/ (KeepFile /\ ToSet(t.log) = ToSet(am.log))
  <2>1. CASE KeepFile /\ \A i \in DOMAIN am.log : am.log[i].resolved
    <3>1. \A i \in DOMAIN am.log : log[i] = am.log[i]
      BY <1>1, <1>4, <2>1
    <3> QED BY <1>7, <1>9, <2>1, <3>1 DEF ToSet
  <2> QED BY <1>3, <2>1
<1>14. AlertInv' /\ NoneAdded
  BY <1>3, <1>10, <1>11, <1>12, <1>13, MethodStep
<1> QED BY <1>3, <1>9, <1>14
-----------------------------------------------------------------------------
(* Loading. *)

\* The order of the natural numbers as a relation, of which the library says
\* that it is well-founded.
LEMMA LessRelation ==
    \E R : IsWellFoundedOn(R, Nat) /\ \A x, y \in Nat : <<x, y>> \in R <=> x < y
<1> DEFINE R == OpToRel(<, Nat)
<1>1. \A x, y \in Nat : <<x, y>> \in R <=> x < y
  BY DEF OpToRel
<1>2. IsWellFoundedOn(R, Nat)
  BY NatLessThanWellFounded, Zenon
<1> HIDE DEF R
<1> QED BY <1>1, <1>2, Zenon

\* A set of positions of a sequence has a last one.
LEMMA LastPosition ==
    ASSUME NEW n \in Nat, NEW S, S \subseteq 1 .. n, S # {}
    PROVE  \E x \in S : \A y \in S : y <= x
<1>1. PICK R : IsWellFoundedOn(R, Nat) /\ \A x, y \in Nat : <<x, y>> \in R <=> x < y
  BY LessRelation, Zenon
<1>2. PICK T : T = {n - x : x \in S}
  OBVIOUS
<1>3. T \subseteq Nat /\ T # {}
  <2>1. \A x \in S : n - x \in Nat
    OBVIOUS
  <2>2. T # {}
    BY <1>2
  <2> QED BY <1>2, <2>1, <2>2
<1>4. PICK m \in T : \A y \in T : ~(<<y, m>> \in R)
  <2>1. IsWellFoundedOn(R, Nat)
    BY <1>1, Zenon
  <2> QED BY <1>3, <2>1, WFMin
<1>5. \A y \in T : ~(y < m)
  BY <1>1, <1>3, <1>4
<1>6. PICK x \in S : m = n - x
  BY <1>2, <1>4
<1>7. ASSUME NEW y \in S
      PROVE  y <= x
  <2>1. n - y \in T
    BY <1>2
  <2>2. ~(n - y < n - x)
    BY <1>5, <1>6, <2>1
  <2> QED BY <2>2
<1> QED BY <1>7

\* Sorting a log whose alerts are apart puts each of them somewhere, and none
\* twice.
LEMMA SortedFacts ==
    ASSUME NEW file, NEW next, LogOK(file, next), NEW log \in Sorted(file)
    PROVE  /\ LogOK(log, next) /\ ToSet(log) = ToSet(file)
           /\ Truncate(log) = log /\ DOMAIN log = 1 .. Len(log) /\ Len(log) \in Nat
<1>1. /\ file \in Seq(Alerts) /\ Len(file) \in Nat /\ DOMAIN file = 1 .. Len(file)
      /\ file \in [1 .. Len(file) -> Alerts]
  BY LenProperties DEF LogOK
<1>2. PICK S : S = ToSet(file)
  OBVIOUS
<1>3. file \in Surjection(1 .. Len(file), S)
  BY <1>1, <1>2 DEF ToSet, Surjection
<1>4. IsFiniteSet(1 .. Len(file)) /\ Cardinality(1 .. Len(file)) = Len(file)
  BY <1>1, FS_Interval
<1>5. IsFiniteSet(S) /\ Cardinality(S) <= Len(file)
  BY <1>3, <1>4, FS_Surjection
<1>6. Cardinality(S) \in Nat
  BY <1>5, FS_CardinalityType
<1>7. PICK n : n = Cardinality(S)
  OBVIOUS
<1>8. log \in [1 .. n -> S] /\ \A i, j \in 1 .. n : i # j => log[i] # log[j]
  BY <1>2, <1>7 DEF Sorted, SetToSeqs
<1>9. S \subseteq Alerts
  BY <1>1, <1>2 DEF ToSet
<1>10. log \in Seq(Alerts)
  <2>1. log \in [1 .. n -> Alerts]
    BY <1>8, <1>9
  <2> QED BY <1>6, <1>7, <2>1, SeqDef
<1>11. Len(log) = n /\ DOMAIN log = 1 .. n
  <2>1. DOMAIN log = 1 .. Len(log) /\ Len(log) \in Nat
    BY <1>10, LenProperties
  <2> QED BY <1>6, <1>7, <1>8, <2>1
<1>12. log \in Surjection(1 .. n, S)
  <2>1. log \in Injection(1 .. n, S)
    BY <1>8 DEF Injection, IsInjective
  <2>2. Cardinality(1 .. n) = n
    BY <1>6, <1>7, FS_Interval
  <2> QED BY <1>5, <1>7, <2>1, <2>2, FS_Injection
<1>13. ToSet(log) = S
  BY <1>8, <1>11, <1>12 DEF ToSet, Surjection
<1>14. n <= AlertCapacity
  BY <1>1, <1>5, <1>6, <1>7, AlertAssumption DEF LogOK
<1>15. Truncate(log) = log
  <2>1. Truncate(log) = SubSeq(log, 1, Len(log))
    BY <1>6, <1>7, <1>11, <1>14, AlertAssumption DEF Truncate
  <2> QED BY <1>10, <2>1, SubSeqFull
<1>16. ASSUME NEW i \in 1 .. n
       PROVE  \E j \in 1 .. Len(file) : log[i] = file[j]
  BY <1>1, <1>2, <1>8 DEF ToSet
<1>17. ASSUME NEW i \in 1 .. n
       PROVE  /\ log[i].id < next
              /\ log[i].key \in Conditions => log[i].sev \in Grade(log[i].key)
  BY <1>16 DEF LogOK
<1>18. ASSUME NEW i \in 1 .. n, NEW j \in 1 .. n, log[i].id = log[j].id
       PROVE  i = j
  <2>1. PICK a \in 1 .. Len(file) : log[i] = file[a]
    BY <1>16
  <2>2. PICK b \in 1 .. Len(file) : log[j] = file[b]
    BY <1>16
  <2>3. a = b
    BY <1>18, <2>1, <2>2 DEF LogOK
  <2> QED BY <1>8, <2>1, <2>2, <2>3
<1>19. LogOK(log, next)
  BY <1>10, <1>11, <1>14, <1>17, <1>18 DEF LogOK
<1> QED BY <1>2, <1>6, <1>7, <1>11, <1>13, <1>15, <1>19

\* The conditions are rebuilt from the open alerts of the log, the oldest of
\* which stands for its condition.
LEMMA RebuiltFacts ==
    ASSUME NEW log, NEW next \in Nat, LogOK(log, next), NEW t,
           t = [log |-> log, active |-> Rebuilt(log), next |-> next]
    PROVE  /\ EngineOK(t)
           /\ \A k \in Conditions, sev \in Severities :
                (\E i \in 1 .. Len(log) : log[i].key = k /\ ~log[i].resolved /\ log[i].sev = sev)
                => TroubleAt(t, k, sev)
<1>1. /\ log \in Seq(Alerts) /\ Len(log) \in Nat /\ DOMAIN log = 1 .. Len(log)
      /\ \A i \in 1 .. Len(log) : log[i] \in Alerts
  BY LenProperties, ElementOfSeq DEF LogOK
<1>2. t.log = log /\ t.next = next /\ t.active = Rebuilt(log)
  OBVIOUS
<1>3. ASSUME NEW k \in Conditions
      PROVE  \/ Unresolved(log, k) = {} /\ t.active[k] = None
             \/ \E i \in Unresolved(log, k) :
                  /\ \A j \in Unresolved(log, k) : j <= i
                  /\ t.active[k] = [id |-> log[i].id, sev |-> log[i].sev, live |-> TRUE]
  <2>1. CASE Unresolved(log, k) = {}
    BY <1>2, <2>1 DEF Rebuilt
  <2>2. CASE Unresolved(log, k) # {}
    <3>1. Unresolved(log, k) \subseteq 1 .. Len(log)
      BY <1>1 DEF Unresolved
    <3>2. \E i \in Unresolved(log, k) : \A j \in Unresolved(log, k) : j <= i
      BY <1>1, <2>2, <3>1, LastPosition
    <3>3. PICK i : i = CHOOSE x \in Unresolved(log, k) : \A j \in Unresolved(log, k) : j <= x
      OBVIOUS
    <3>4. i \in Unresolved(log, k) /\ \A j \in Unresolved(log, k) : j <= i
      BY <3>2, <3>3
    <3>5. t.active[k] = [id |-> log[i].id, sev |-> log[i].sev, live |-> TRUE]
      BY <1>2, <2>2, <3>3 DEF Rebuilt
    <3> QED BY <3>4, <3>5
  <2> QED BY <2>1, <2>2
<1>4. ASSUME NEW k \in Conditions, NEW i \in Unresolved(log, k)
      PROVE  /\ i \in 1 .. Len(log) /\ log[i].key = k /\ ~log[i].resolved
             /\ log[i].sev \in Grade(k) /\ log[i].id < next
             /\ [id |-> log[i].id, sev |-> log[i].sev, live |-> TRUE] \in Pointers
  <2>1. i \in 1 .. Len(log) /\ log[i].key = k /\ ~log[i].resolved
    BY <1>1 DEF Unresolved
  <2>2. log[i].sev \in Grade(k) /\ log[i].id < next
    BY <2>1 DEF LogOK
  <2>3. log[i].id \in Nat
    BY <1>1, <2>1 DEF Alerts
  <2>4. log[i].sev \in Severities
    BY <2>2 DEF Grade, Severities
  <2> QED BY <2>1, <2>2, <2>3, <2>4 DEF Pointers
<1>5. t \in Engines
  <2>1. ASSUME NEW k \in Conditions
        PROVE  t.active[k] \in Pointers \cup {None}
    <3>1. CASE t.active[k] = None
      BY <3>1
    <3>2. CASE \E i \in Unresolved(log, k) :
                  t.active[k] = [id |-> log[i].id, sev |-> log[i].sev, live |-> TRUE]
      <4>1. PICK i \in Unresolved(log, k) :
                  t.active[k] = [id |-> log[i].id, sev |-> log[i].sev, live |-> TRUE]
        BY <3>2
      <4>2. [id |-> log[i].id, sev |-> log[i].sev, live |-> TRUE] \in Pointers
        BY <1>4
      <4> QED BY <4>1, <4>2
    <3> QED BY <1>3, <3>1, <3>2
  <2>2. t.active = [k \in Conditions |-> t.active[k]]
    BY <1>2 DEF Rebuilt
  <2>3. t.active \in [Conditions -> Pointers \cup {None}]
    BY <2>1, <2>2
  <2>4. t = [log |-> log, active |-> t.active, next |-> next]
    BY <1>2
  <2> QED BY <1>1, <2>3, <2>4 DEF Engines
<1>6. ASSUME NEW k \in Conditions, t.active[k] # None
      PROVE  \E i \in Unresolved(log, k) :
                /\ \A j \in Unresolved(log, k) : j <= i
                /\ t.active[k].id = log[i].id /\ t.active[k].sev = log[i].sev
  <2>1. PICK i \in Unresolved(log, k) :
                /\ \A j \in Unresolved(log, k) : j <= i
                /\ t.active[k] = [id |-> log[i].id, sev |-> log[i].sev, live |-> TRUE]
    BY <1>3, <1>6
  <2>2. t.active[k].id = log[i].id /\ t.active[k].sev = log[i].sev
    BY <2>1
  <2> QED BY <2>1, <2>2
<1>7. ASSUME NEW k \in Conditions, t.active[k] # None
      PROVE  ActiveOK(t, k)
  <2>1. PICK i \in Unresolved(log, k) : t.active[k].id = log[i].id /\ t.active[k].sev = log[i].sev
    BY <1>6, <1>7
  <2>2. /\ i \in 1 .. Len(log) /\ log[i].key = k /\ ~log[i].resolved
        /\ log[i].sev \in Grade(k) /\ log[i].id < next
    BY <1>4
  <2>3. \A j \in 1 .. Len(log) : log[j].id = log[i].id => j = i
    BY <2>2 DEF LogOK
  <2>4. ASSUME NEW l \in Conditions, t.active[l] # None, t.active[l].id = t.active[k].id
        PROVE  l = k
    <3>1. PICK j \in Unresolved(log, l) : t.active[l].id = log[j].id
      BY <1>6, <2>4
    <3>2. j \in 1 .. Len(log) /\ log[j].key = l
      BY <1>4
    <3> QED BY <2>1, <2>2, <2>3, <2>4, <3>1, <3>2
  <2> QED BY <1>2, <2>1, <2>2, <2>3, <2>4 DEF ActiveOK
<1>8. EngineOK(t)
  BY <1>2, <1>5, <1>7 DEF EngineOK, ActiveOK
<1>9. ASSUME NEW k \in Conditions, NEW sev \in Severities, NEW p \in 1 .. Len(log),
             log[p].key = k /\ ~log[p].resolved /\ log[p].sev = sev
      PROVE  TroubleAt(t, k, sev)
  <2>1. p \in Unresolved(log, k)
    BY <1>1, <1>9 DEF Unresolved
  <2>2. t.active[k] # None
    <3>1. PICK i \in Unresolved(log, k) :
            t.active[k] = [id |-> log[i].id, sev |-> log[i].sev, live |-> TRUE]
      BY <1>3, <2>1
    <3> QED BY <1>4, <3>1, NoneAssumption
  <2>3. PICK i \in Unresolved(log, k) :
                /\ \A j \in Unresolved(log, k) : j <= i
                /\ t.active[k].id = log[i].id
    BY <1>6, <2>2
  <2>4. ASSUME NEW x \in 1 .. Len(log), log[x].id = t.active[k].id
        PROVE  OpenAbove(log, x, k, sev)
    <3>1. x = i
      <4>1. i \in 1 .. Len(log)
        BY <1>4
      <4> QED BY <2>3, <2>4, <4>1 DEF LogOK
    <3>2. p \in 1 .. x
      BY <1>1, <2>1, <2>3, <3>1
    <3> QED BY <1>9, <3>2 DEF OpenAbove
  <2> QED BY <1>2, <2>2, <2>4 DEF TroubleAt
<1> QED BY <1>8, <1>9

\* A restart: what had been found before is on record again if it was saved
\* and had not been pushed out of the log.
LEMMA LoadAlertsStep ==
    ASSUME AlertInv, LoadAlerts
    PROVE  AlertInv' /\ NoneAdded
<1>1. PICK log \in Sorted(alertFile) :
        /\ am' = [log |-> Truncate(log), active |-> Rebuilt(Truncate(log)), next |-> am.next]
        /\ trouble' = [k \in Conditions |->
              IF unsaved \/ (am.active[k] # None /\ am.active[k].id \notin Ids(am.log))
              THEN None ELSE trouble[k]]
        /\ unsaved' = FALSE
        /\ UNCHANGED <<alertFile, alertFaults>>
  BY DEF LoadAlerts
<1>2. EngineOK(am) /\ LogOK(alertFile, am.next) /\ am.next \in Nat
  BY EngineFacts DEF AlertInv
<1>3. /\ LogOK(log, am.next) /\ ToSet(log) = ToSet(alertFile)
      /\ Truncate(log) = log /\ DOMAIN log = 1 .. Len(log) /\ Len(log) \in Nat
  BY <1>2, SortedFacts
<1>4. PICK t, next : t = [log |-> log, active |-> Rebuilt(log), next |-> next] /\ next = am.next
  OBVIOUS
<1>5. am' = t /\ t.log = log /\ t.next = am.next
  BY <1>1, <1>3, <1>4
<1>6. EngineOK(t)
  BY <1>2, <1>3, <1>4, RebuiltFacts
<1>7. ASSUME NEW k \in Conditions, NEW sev \in Severities, NEW i \in 1 .. Len(log),
             log[i].key = k /\ ~log[i].resolved /\ log[i].sev = sev
      PROVE  TroubleAt(t, k, sev)
  BY <1>2, <1>3, <1>4, <1>7, RebuiltFacts
<1>8. trouble' \in [Conditions -> Severities \cup {None}]
  BY <1>1 DEF AlertInv
<1>9. ASSUME NEW k \in Conditions, trouble'[k] # None
      PROVE  TroubleAt(t, k, trouble'[k])
  <2>1. /\ ~unsaved /\ (am.active[k] # None => am.active[k].id \in Ids(am.log))
        /\ trouble'[k] = trouble[k]
    BY <1>1, <1>9
  <2>2. PICK sev \in Severities : sev = trouble'[k]
    BY <1>8, <1>9
  <2>3. /\ am.active[k] # None
        /\ \A i \in 1 .. Len(am.log) : am.log[i].id = am.active[k].id => OpenAbove(am.log, i, k, sev)
    BY <1>9, <2>1, <2>2 DEF AlertInv, TroubleAt
  <2>4. Len(am.log) \in Nat /\ DOMAIN am.log = 1 .. Len(am.log)
    BY <1>2, EngineFacts, LenProperties
  <2>5. PICK i \in 1 .. Len(am.log) : am.log[i].id = am.active[k].id
    BY <2>1, <2>3, <2>4 DEF Ids
  <2>6. PICK j \in 1 .. i : am.log[j].key = k /\ ~am.log[j].resolved /\ am.log[j].sev = sev
    BY <2>3, <2>5 DEF OpenAbove
  <2>7. am.log[j] \in ToSet(am.log)
    BY <2>4 DEF ToSet
  <2>8. am.log[j] \in ToSet(log)
    BY <1>3, <2>1, <2>7 DEF AlertInv
  <2>9. PICK p \in 1 .. Len(log) : log[p] = am.log[j]
    BY <1>3, <2>8 DEF ToSet
  <2>10. TroubleAt(t, k, sev)
    BY <1>7, <2>6, <2>9
  <2> QED BY <2>2, <2>10
<1>10. \A k \in Conditions : TroubleAt(t, k, trouble'[k])
  BY <1>9 DEF TroubleAt
<1>11. AlertInv'
  BY <1>1, <1>2, <1>3, <1>5, <1>6, <1>8, <1>10 DEF AlertInv
<1>12. NoneAdded
  BY <1>3, <1>5 DEF NoneAdded, LogOK
<1> QED BY <1>11, <1>12

LEMMA AlertsStart ==
    ASSUME AlertInit
    PROVE  AlertInv
<1>1. <<>> \in Seq(Alerts) /\ Len(<<>>) = 0
  BY EmptySeq
<1>2. LogOK(<<>>, 0)
  BY <1>1, AlertAssumption DEF LogOK
<1>3. Calm \in [Conditions -> Pointers \cup {None}] /\ Calm \in [Conditions -> Severities \cup {None}]
      /\ \A k \in Conditions : Calm[k] = None
  BY DEF Calm
<1>4. am = [log |-> <<>>, active |-> Calm, next |-> 0]
  BY DEF AlertInit
<1>5. am.log = <<>> /\ am.active = Calm /\ am.next = 0
  BY <1>4
<1>6. am \in Engines
  BY <1>1, <1>3, <1>4 DEF Engines
<1>7. EngineOK(am)
  BY <1>2, <1>3, <1>5, <1>6 DEF EngineOK, ActiveOK
<1>8. trouble = Calm /\ alertFile = <<>> /\ unsaved = FALSE
  BY DEF AlertInit
<1>9. \A k \in Conditions : TroubleAt(am, k, trouble[k])
  BY <1>3, <1>8 DEF TroubleAt
<1> QED BY <1>2, <1>3, <1>5, <1>7, <1>8, <1>9 DEF AlertInv

\* A step that does not concern the engine.
LEMMA AlertsUntouched ==
    ASSUME AlertInv, UNCHANGED alertVars
    PROVE  AlertInv' /\ NoneAdded
<1>1. UNCHANGED <<am, alertFile, trouble, unsaved>>
  BY DEF alertVars
<1>2. AlertInv'
  BY <1>1 DEF AlertInv
<1>3. NoneAdded
  BY <1>1 DEF NoneAdded, AlertInv, EngineOK, LogOK
<1> QED BY <1>2, <1>3
-----------------------------------------------------------------------------
(* What the invariant says. *)

LEMMA AlertsTyped ==
    ASSUME AlertInv
    PROVE  AlertTypeOK
<1>1. EngineOK(am)
  BY DEF AlertInv
<1> QED BY <1>1, EngineFacts DEF AlertInv, AlertTypeOK, LogOK

LEMMA AlertsOpen ==
    ASSUME AlertInv
    PROVE  ActiveAlertsAreOpen
<1>1. EngineOK(am) /\ DOMAIN am.log = 1 .. Len(am.log)
  BY EngineFacts, LenProperties DEF AlertInv
<1> QED BY <1>1 DEF ActiveAlertsAreOpen, EngineOK, ActiveOK

LEMMA AlertsListed ==
    ASSUME AlertInv
    PROVE  TroubleIsListed
<1>1. /\ EngineOK(am) /\ DOMAIN am.log = 1 .. Len(am.log) /\ Len(am.log) \in Nat
  BY EngineFacts, LenProperties DEF AlertInv
<1> SUFFICES ASSUME NEW k \in Conditions, trouble[k] # None,
                    am.active[k] # None => am.active[k].id \in Ids(am.log)
             PROVE  \E i \in Unresolved(am.log, k) : am.log[i].sev = trouble[k]
  BY DEF TroubleIsListed
<1>2. /\ am.active[k] # None
      /\ \A i \in 1 .. Len(am.log) :
           am.log[i].id = am.active[k].id => OpenAbove(am.log, i, k, trouble[k])
  BY DEF AlertInv, TroubleAt
<1>3. PICK i \in 1 .. Len(am.log) : am.log[i].id = am.active[k].id
  BY <1>1, <1>2 DEF Ids
<1>4. PICK j \in 1 .. i : am.log[j].key = k /\ ~am.log[j].resolved /\ am.log[j].sev = trouble[k]
  BY <1>2, <1>3 DEF OpenAbove
<1>5. j \in DOMAIN am.log
  BY <1>1, <1>3
<1> QED BY <1>4, <1>5 DEF Unresolved
=============================================================================
