--------------------------- MODULE MCAdminServer ---------------------------
(***************************************************************************)
(* Instances of AdminServer for TLC: for each workload what may happen how *)
(* often, and what a scrape may find.                                      *)
(***************************************************************************)
EXTENDS AdminServer

CONSTANTS m1, m2

Events == {"register", "heartbeat", "tick", "poll", "snapshot", "remove", "tear",
           "quota", "resolve", "act", "crash"}
Nothing == [e \in Events |-> 0]

Reading(disk, temp, err, used, anew) ==
    [disk |-> disk, temp |-> temp, err |-> err, used |-> [u \in Users |-> used], anew |-> anew]
Calmly == Reading(0, 0, 0, 0, FALSE)

\* Scrapes that find one thing or another, at the thresholds, and operators
\* who resolve what they show.
Alerting ==
    [registered |-> <<m1>>,
     readings |-> {None, Calmly, Reading(95, 65, 5, 0, FALSE), Reading(80, 85, 20, 0, FALSE),
                   Reading(0, 0, 0, 0, TRUE)},
     budget |-> [Nothing EXCEPT !["poll"] = 2, !["tick"] = 1, !["resolve"] = 1, !["crash"] = 1],
     alertFaults |-> 0, historyFaults |-> 0]

\* The same with a write of the alert file that fails.
Unsaved ==
    [registered |-> <<m1>>,
     readings |-> {None, Calmly, Reading(95, 65, 5, 0, FALSE)},
     budget |-> [Nothing EXCEPT !["poll"] = 1, !["resolve"] = 1, !["crash"] = 1],
     alertFaults |-> 1, historyFaults |-> 0]

\* Two removals at a time, of nodes that register and heartbeat again.
Membership ==
    [registered |-> <<m1>>,
     readings |-> {Calmly},
     budget |-> [Nothing EXCEPT !["register"] = 1, !["heartbeat"] = 1, !["tick"] = 1,
                    !["remove"] = 2],
     alertFaults |-> 0, historyFaults |-> 0]

\* A removal and a restart, with a tombstone file that may be torn.
Forgetting ==
    [registered |-> <<m1>>,
     readings |-> {None, Calmly},
     budget |-> [Nothing EXCEPT !["heartbeat"] = 1, !["tick"] = 1, !["remove"] = 1, !["poll"] = 1,
                    !["tear"] = 1, !["snapshot"] = 1, !["crash"] = 1],
     alertFaults |-> 0, historyFaults |-> 0]

\* Quotas that are set while scrapes are under way and the node is removed.
Quotas ==
    [registered |-> <<m1>>,
     readings |-> {Reading(0, 0, 0, 1, FALSE)},
     budget |-> [Nothing EXCEPT !["poll"] = 1, !["quota"] = 2, !["remove"] = 1],
     alertFaults |-> 0, historyFaults |-> 0]

\* Actions with overlapping targets, more of them than the history holds.
Acting ==
    [registered |-> <<m1, m2>>,
     readings |-> {Calmly},
     budget |-> [Nothing EXCEPT !["act"] = 3],
     alertFaults |-> 0, historyFaults |-> 0]

\* Actions that a restart interrupts.
Interrupted ==
    [registered |-> <<m1, m2>>,
     readings |-> {Calmly},
     budget |-> [Nothing EXCEPT !["act"] = 2, !["crash"] = 1],
     alertFaults |-> 0, historyFaults |-> 1]

\* The loop of load, one Push for each record, leaves what LoadRing says.
PushAll(records) ==
    LET n == IF Len(records) > HistoryLimit THEN HistoryLimit ELSE Len(records)
        Fill[i \in 0 .. n] == IF i = 0 THEN EmptyRing ELSE Push(Fill[i-1], records[n + 1 - i])
    IN  Fill[n]
ASSUME LoadRingPushes ==
    \A n \in 0 .. HistoryLimit + 1 : LET r == [i \in 1 .. n |-> i] IN LoadRing(r) = PushAll(r)

Everything == {Alerting, Unsaved, Membership, Forgetting, Quotas, Acting, Interrupted}
Removals == {Membership}
\* Requests are interchangeable.
Symmetry == Permutations(Operators) \cup Permutations(Callers)
=============================================================================
