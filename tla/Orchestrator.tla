---------------------------- MODULE Orchestrator ----------------------------
(***************************************************************************)
(* Actions of the administrator on the machines of the cluster             *)
(* (internal/admin/actions.go): Execute runs a command over SSH on several *)
(* nodes in parallel, after it has locked them in activeNodes, a sync.Map  *)
(* without any other lock, one node after the other; a node that is taken  *)
(* makes it give back those it holds.  The record of the action goes to    *)
(* the command history when all nodes have ended.                          *)
(*                                                                         *)
(* Callers are HTTP requests and the goroutines of WebSocket messages.     *)
(* Every LoadOrStore and every Delete is a step of its own.                *)
(***************************************************************************)
EXTENDS AdminTypes, RingBuffer, FiniteSets, SequencesExt

CONSTANTS
    Callers,        \* requests that may be under way at a time
    MaxTargets      \* bound on the targets of an action

ASSUME OrchestratorAssumption == MaxTargets \in Nat

VARIABLES
    activeNodes,    \* node id -> the action that has locked it, or None
    acts,           \* caller -> how far its action is
    history,        \* the command history
    historyFile,    \* the records as stored, newest first
    begun,          \* how many actions have been started
    finished,       \* history: the records of finished actions, newest first
    historyFaults   \* bound: how many writes of the file may still fail

actionVars == <<activeNodes, acts, history, historyFile, begun, finished, historyFaults>>

Idle == [pc |-> "idle", id |-> None, todo |-> <<>>, held |-> {}, running |-> {},
         targets |-> {}, failed |-> {}]

\* TargetNodeIDs as the client sent them, which may repeat a node; those that
\* the console does not list are not run, but they are locked.
StartAction(c, listed) ==
    /\ acts[c].pc = "idle"
    /\ \E todo \in SeqOf(FsIDs, MaxTargets) \ {<<>>} :
         /\ ToSet(todo) \cap listed # {}
         /\ acts' = [acts EXCEPT ![c] = [Idle EXCEPT !.pc = "lock", !.id = begun, !.todo = todo,
                                                     !.targets = ToSet(todo) \cap listed]]
    /\ begun' = begun + 1
    /\ UNCHANGED <<activeNodes, history, historyFile, finished, historyFaults>>

\* LoadOrStore for the next target.
LockNode(c) ==
    /\ acts[c].pc = "lock" /\ acts[c].todo # <<>>
    /\ LET n == Head(acts[c].todo) IN
       IF activeNodes[n] = None
       THEN /\ activeNodes' = [activeNodes EXCEPT ![n] = acts[c].id]
            /\ acts' = [acts EXCEPT ![c].todo = Tail(@), ![c].held = @ \cup {n}]
       ELSE /\ acts' = [acts EXCEPT ![c].pc = "release"]
            /\ UNCHANGED activeNodes
    /\ UNCHANGED <<history, historyFile, begun, finished, historyFaults>>

\* All targets are locked: one goroutine per node that was found.
RunAction(c) ==
    /\ acts[c].pc = "lock" /\ acts[c].todo = <<>>
    /\ acts' = [acts EXCEPT ![c].pc = "run", ![c].running = acts[c].targets]
    /\ UNCHANGED <<activeNodes, history, historyFile, begun, finished, historyFaults>>

\* What RemoteSSHExecutor.Run returns: an exit code, or an error of the key,
\* the connection, the timeout or the client's departure, which cancels the
\* context.
SSHRun == {"zero", "nonzero", "error"}
NodeFinishes(c, n, result) ==
    /\ acts[c].pc = "run" /\ n \in acts[c].running
    /\ acts' = [acts EXCEPT ![c].running = @ \ {n},
                            ![c].failed = IF result = "zero" THEN @ ELSE @ \cup {n}]
    /\ UNCHANGED <<activeNodes, history, historyFile, begun, finished, historyFaults>>

CommandRecord(a) ==
    [id |-> a.id, nodes |-> a.held, status |-> IF a.failed = {} THEN "success" ELSE "failed"]
\* saveLocked replaces the file, or fails, which Push ignores.
SaveHistory ==
    \/ historyFile' = GetAll(history') /\ UNCHANGED historyFaults
    \/ historyFaults > 0 /\ historyFaults' = historyFaults - 1 /\ UNCHANGED historyFile
\* wg.Wait returns; the record is pushed and the history saved.
RecordAction(c) ==
    /\ acts[c].pc = "run" /\ acts[c].running = {}
    /\ history' = Push(history, CommandRecord(acts[c]))
    /\ finished' = <<CommandRecord(acts[c])>> \o finished
    /\ SaveHistory
    /\ acts' = [acts EXCEPT ![c].pc = "release"]
    /\ UNCHANGED <<activeNodes, begun>>

\* Mutant: the rollback gives back all targets, not only those it got.
ReleaseTargets(c) ==
    /\ acts[c].pc = "release"
    /\ activeNodes' = [n \in FsIDs |-> IF n \in acts[c].held \cup ToSet(acts[c].todo)
                                      THEN None ELSE activeNodes[n]]
    /\ acts' = [acts EXCEPT ![c] = Idle]
    /\ UNCHANGED <<history, historyFile, begun, finished, historyFaults>>
\* The rollback and the deferred function delete the locks one by one.
ReleaseNode(c) ==
    /\ acts[c].pc = "release"
    /\ IF acts[c].held = {}
       THEN acts' = [acts EXCEPT ![c] = Idle] /\ UNCHANGED activeNodes
       ELSE \E n \in acts[c].held :
              /\ activeNodes' = [activeNodes EXCEPT ![n] = None]
              /\ acts' = [acts EXCEPT ![c].held = @ \ {n}]
    /\ UNCHANGED <<history, historyFile, begun, finished, historyFaults>>

ActionStep(c) == \/ LockNode(c) \/ RunAction(c) \/ RecordAction(c) \/ ReleaseNode(c)
                 \/ \E n \in FsIDs, result \in SSHRun : NodeFinishes(c, n, result)

\* The process is gone: locks are in memory only, the history is loaded.
LoadHistory ==
    /\ activeNodes' = [n \in FsIDs |-> None] /\ acts' = [c \in Callers |-> Idle]
    /\ history' = LoadRing(historyFile)
    /\ finished' = historyFile
    /\ UNCHANGED <<historyFile, begun, historyFaults>>

ActionInit ==
    /\ activeNodes = [n \in FsIDs |-> None] /\ acts = [c \in Callers |-> Idle]
    /\ history = EmptyRing /\ historyFile = <<>>
    /\ begun = 0 /\ finished = <<>>
-----------------------------------------------------------------------------
(* Properties. *)

ActionTypeOK ==
    /\ activeNodes \in [FsIDs -> 0 .. begun - 1 \cup {None}]
    /\ \A c \in Callers : /\ acts[c].pc \in {"idle", "lock", "run", "release"}
                          /\ acts[c].running \subseteq acts[c].targets
                          /\ acts[c].held \subseteq FsIDs
    /\ history.head \in Slots /\ history.count \in 0 .. HistoryLimit

\* activeNodes names for every node the one action that holds it, whatever
\* actions with overlapping targets take and give back in between: no action
\* frees a node of another, none stays locked without an owner, and a command
\* runs only on nodes its action holds, so never beside another one.
NodeLocksAreOwned ==
    /\ \A n \in FsIDs, a \in 0 .. begun - 1 :
          activeNodes[n] = a <=> \E c \in Callers : acts[c].id = a /\ n \in acts[c].held
    /\ \A c, d \in Callers : c # d => acts[c].held \cap acts[d].held = {}
    /\ \A c \in Callers : acts[c].running \subseteq acts[c].held

\* The history shows the latest actions that have ended, newest first and as
\* many as fit, also after the buffer has gone round and been reloaded.
HistoryIsExact ==
    GetAll(history) = SubSeq(finished, 1, IF Len(finished) < HistoryLimit
                                          THEN Len(finished) ELSE HistoryLimit)
=============================================================================
