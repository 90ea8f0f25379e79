---------------------------- MODULE AlertManager ----------------------------
(***************************************************************************)
(* The alert engine of the admin backend (internal/admin/alerts.go): the   *)
(* bounded log of alerts, newest first, the map from conditions to the     *)
(* alert that reported them, and the file.                                 *)
(*                                                                         *)
(* activeConditions holds pointers into the array behind the log.          *)
(* createAlertLocked prepends by copying the log into a new array, so      *)
(* every pointer taken before leads to an old copy from then on: what is   *)
(* written through it does not reach the log.  A pointer is a record       *)
(* [id, sev, live]: the fields that are read through it, and whether it    *)
(* still leads into the log.                                               *)
(*                                                                         *)
(* Each exported method is one critical section of am.mu and one operator  *)
(* on the record [log, active, next]; titles and texts are left out.       *)
(***************************************************************************)
EXTENDS AdminTypes, Integers, Sequences, FiniteSets, SequencesExt

CONSTANT AlertCapacity  \* length of the log

ASSUME AlertAssumption == AlertCapacity \in Nat \ {0}

VARIABLES
    am,             \* [log, active, next]
    alertFile,      \* the log as stored
    trouble,        \* history: condition -> the severity its last check found
    unsaved,        \* history: the last write of the file failed
    alertFaults     \* bound: how many writes of the file may still fail

alertVars == <<am, alertFile, trouble, unsaved, alertFaults>>

NodeKinds == {"offline", "storage", "temp", "error"}
Condition(kind, of) == [kind |-> kind, of |-> of]
Conditions == [kind : NodeKinds, of : FsIDs] \cup [kind : {"quota"}, of : Users]
Severities == {"warning", "critical"}
Pointers == [id : Nat, sev : Severities, live : BOOLEAN]
Calm == [k \in Conditions |-> None]

\* "No entry" is neither a severity nor a pointer.
ASSUME NoneAssumption == None \notin Severities \cup Pointers

Ids(log) == {log[i].id : i \in DOMAIN log}
Unresolved(log, k) == {i \in DOMAIN log : log[i].key = k /\ ~log[i].resolved}
-----------------------------------------------------------------------------
(* The log and the pointers into it. *)

NewAlert(id, key, sev, at) ==
    [id |-> id, key |-> key, sev |-> sev, at |-> at, resolved |-> FALSE]

\* Mutant: the log is allowed one alert too many.
TruncateLate(log) == IF Len(log) > AlertCapacity + 1 THEN SubSeq(log, 1, AlertCapacity) ELSE log
Truncate(log) == SubSeq(log, 1, IF Len(log) > AlertCapacity THEN AlertCapacity ELSE Len(log))

createAlertLocked(s, key, sev, now) ==
    [log    |-> Truncate(<<NewAlert(s.next, key, sev, now)>> \o s.log),
     active |-> [k \in Conditions |->
                    IF s.active[k] = None THEN None ELSE [s.active[k] EXCEPT !.live = FALSE]],
     next   |-> s.next + 1]

ResolveId(log, id) ==
    [i \in DOMAIN log |-> IF log[i].id = id THEN [log[i] EXCEPT !.resolved = TRUE] ELSE log[i]]

\* An alert that is created already resolved: a recovery, a restart.
Note(s, key, now) ==
    [createAlertLocked(s, key, "info", now) EXCEPT !.log = ResolveId(@, s.next)]

\* active.Resolved = true, through the pointer.
ThroughPointer(s, k) ==
    IF s.active[k].live THEN [s EXCEPT !.log = ResolveId(@, s.active[k].id)] ELSE s

Raise(s, k, sev, now) ==
    [createAlertLocked(s, k, sev, now) EXCEPT !.active[k] = [id |-> s.next, sev |-> sev, live |-> TRUE]]
Clear(s, k) ==
    IF s.active[k] = None THEN s ELSE [ThroughPointer(s, k) EXCEPT !.active[k] = None]
\* Mutant: an alert of the same condition is raised again only after it cleared.
TrackOnce(s, k, sev, now) ==
    IF sev = None THEN Clear(s, k)
    ELSE IF s.active[k] # None THEN s ELSE Raise(s, k, sev, now)
\* The pattern of the storage, temperature and error checks: a change of
\* severity resolves the alert and raises another.
Track(s, k, sev, now) ==
    IF sev = None THEN Clear(s, k)
    ELSE IF s.active[k] = None THEN Raise(s, k, sev, now)
    ELSE IF s.active[k].sev = sev THEN s
    ELSE Raise(ThroughPointer(s, k), k, sev, now)
-----------------------------------------------------------------------------
(* Checks.  A node report h is [status, metrics, errPct, restarted].       *)

StorageSeverity(pct) == IF pct >= 95 THEN "critical" ELSE IF pct >= 80 THEN "warning" ELSE None
TempSeverity(c) == IF c >= 85 THEN "critical" ELSE IF c >= 65 THEN "warning" ELSE None
ErrorSeverity(pct) == IF pct >= 20 THEN "critical" ELSE IF pct >= 5 THEN "warning" ELSE None

CheckOffline(s, n, now) ==
    LET k == Condition("offline", n) IN
    IF s.active[k] = None THEN Raise(s, k, "critical", now) ELSE s
\* Mutant: a recovery is noted but the condition stays active.
CheckOnlineKept(s, n, now) ==
    IF s.active[Condition("offline", n)] = None THEN s ELSE Note(s, Condition("online", n), now)
CheckOnline(s, n, now) ==
    LET k == Condition("offline", n) IN
    IF s.active[k] = None THEN s ELSE Note(Clear(s, k), Condition("online", n), now)

\* Only a node that answers has its disk, temperature and errors looked at.
Answers(h) == h.status # "offline" /\ h.metrics # None

NodeHealth(s, n, h, now) ==
    IF h.status = "offline" THEN CheckOffline(s, n, now)
    ELSE LET online == CheckOnline(s, n, now)
             storage == Track(online, Condition("storage", n), StorageSeverity(h.metrics.disk), now)
             temp == Track(storage, Condition("temp", n), TempSeverity(h.metrics.temp), now)
             error == Track(temp, Condition("error", n), ErrorSeverity(h.errPct), now)
         IN  IF h.restarted THEN Note(error, Condition("restart", n), now) ELSE error

UserQuota(s, u, exceeded, now) ==
    LET k == Condition("quota", u) IN
    IF ~exceeded THEN Clear(s, k)
    ELSE IF s.active[k] = None THEN Raise(s, k, "warning", now) ELSE s
-----------------------------------------------------------------------------
(* The methods as steps. *)

KeepFile == UNCHANGED <<alertFile, unsaved, alertFaults>>
\* saveLocked replaces the file by renaming a temporary one over it, or fails
\* and leaves it; the callers ignore the error.
SaveAlerts ==
    \/ alertFile' = am'.log /\ unsaved' = FALSE /\ UNCHANGED alertFaults
    \/ /\ alertFaults > 0 /\ alertFaults' = alertFaults - 1
       /\ unsaved' = TRUE /\ UNCHANGED alertFile

CheckNodeHealth(n, h, now) ==
    /\ am' = NodeHealth(am, n, h, now)
    /\ trouble' =
         IF Answers(h)
         THEN [trouble EXCEPT ![Condition("offline", n)] = None,
                              ![Condition("storage", n)] = StorageSeverity(h.metrics.disk),
                              ![Condition("temp", n)] = TempSeverity(h.metrics.temp),
                              ![Condition("error", n)] = ErrorSeverity(h.errPct)]
         ELSE [trouble EXCEPT ![Condition("offline", n)] = "critical"]
    /\ SaveAlerts

\* Nothing is saved for a user who has nothing new to report.
CheckUserQuota(u, exceeded, now) ==
    /\ am' = UserQuota(am, u, exceeded, now)
    /\ trouble' = [trouble EXCEPT ![Condition("quota", u)] = IF exceeded THEN "warning" ELSE None]
    /\ IF am' = am THEN KeepFile ELSE SaveAlerts

\* The conditions an alert is, or is held to be, the report of.
ReportedBy(id) ==
    {k \in Conditions : \/ \E i \in Unresolved(am.log, k) : am.log[i].id = id
                        \/ am.active[k] # None /\ am.active[k].id = id}
Forget(K, f) == [k \in Conditions |-> IF k \in K THEN None ELSE f[k]]
\* Mutant: the condition stays active.
ResolveLogOnly(id) ==
    /\ id \in Ids(am.log)
    /\ am' = [am EXCEPT !.log = ResolveId(@, id)]
    /\ trouble' = Forget(ReportedBy(id), trouble)
    /\ SaveAlerts
\* The operator resolves one alert, which may have been pushed out of the log
\* meanwhile; its condition, if it is this alert that stands for it, is
\* forgotten and will be raised again by the next check.
ResolveAlert(id) ==
    /\ am' = [am EXCEPT !.log = ResolveId(@, id),
                        !.active = Forget({k \in Conditions : @[k] # None /\ @[k].id = id}, @)]
    /\ trouble' = Forget(ReportedBy(id), trouble)
    /\ IF id \in Ids(am.log) THEN SaveAlerts ELSE KeepFile

ResolveAll ==
    /\ am' = [am EXCEPT !.log = [i \in DOMAIN @ |-> [@[i] EXCEPT !.resolved = TRUE]],
                        !.active = Calm]
    /\ trouble' = Calm
    /\ IF \E i \in DOMAIN am.log : ~am.log[i].resolved
       THEN SaveAlerts ELSE KeepFile

\* sort.Slice by time, newest first, is not stable.
Sorted(log) == {s \in SetToSeqs(ToSet(log)) : \A i, j \in DOMAIN s : i < j => s[i].at >= s[j].at}

\* Mutant: a restart starts without active conditions.
RebuiltEmpty(log) == Calm
\* Later entries overwrite earlier ones, so the oldest unresolved alert of a
\* condition stands for it.
Rebuilt(log) ==
    [k \in Conditions |->
        IF Unresolved(log, k) = {} THEN None
        ELSE LET a == log[CHOOSE i \in Unresolved(log, k) : \A j \in Unresolved(log, k) : j <= i]
             IN  [id |-> a.id, sev |-> a.sev, live |-> TRUE]]

\* NewAlertManager and load.  What the last check had found is on record
\* unless it was not saved, or had been pushed out of the log.
LoadAlerts ==
    \E log \in Sorted(alertFile) :
        /\ am' = [log |-> Truncate(log), active |-> Rebuilt(Truncate(log)), next |-> am.next]
        /\ trouble' = [k \in Conditions |->
              IF unsaved \/ (am.active[k] # None /\ am.active[k].id \notin Ids(am.log))
              THEN None ELSE trouble[k]]
        /\ unsaved' = FALSE
        /\ UNCHANGED <<alertFile, alertFaults>>

AlertInit ==
    /\ am = [log |-> <<>>, active |-> Calm, next |-> 0]
    /\ alertFile = <<>> /\ trouble = Calm /\ unsaved = FALSE
-----------------------------------------------------------------------------
(* Properties. *)

AlertKeys == Conditions \cup [kind : {"online", "restart"}, of : FsIDs]
Alerts == [id : Nat, key : AlertKeys, sev : Severities \cup {"info"},
           at : Nat, resolved : BOOLEAN]
AlertTypeOK ==
    /\ am.log \in Seq(Alerts) /\ Len(am.log) <= AlertCapacity
    /\ am.active \in [Conditions -> Pointers \cup {None}]
    /\ alertFile \in Seq(Alerts) /\ trouble \in [Conditions -> Severities \cup {None}]

\* Whatever the last check of a condition found wrong is in the log as an open
\* alert of that severity, unless an operator has resolved it since or it has
\* been pushed out of the log: across pointers that have gone stale, changes
\* of severity, and restarts ("active and resolved alerts ... survive
\* restarts").
TroubleIsListed ==
    \A k \in Conditions :
        /\ trouble[k] # None
        /\ am.active[k] # None => am.active[k].id \in Ids(am.log)
        => \E i \in Unresolved(am.log, k) : am.log[i].sev = trouble[k]

\* No condition that an operator has resolved, or whose alert is shown as
\* resolved, is held active: it would never be reported again.
ActiveAlertsAreOpen ==
    \A k \in Conditions : am.active[k] # None =>
        \A i \in DOMAIN am.log : am.log[i].id = am.active[k].id => ~am.log[i].resolved
=============================================================================
