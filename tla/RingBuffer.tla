----------------------------- MODULE RingBuffer -----------------------------
(***************************************************************************)
(* The fixed-size circular buffer of the admin backend: CommandHistory     *)
(* (internal/admin/history.go) with its file, and RingBuffer               *)
(* (internal/admin/ringbuffer.go), which has no file and whose GetAll      *)
(* returns the entries from the oldest to the newest: GetAll here is that  *)
(* of CommandHistory, the newest first.  A buffer is [data, head, count],  *)
(* data a function from slots to entries, head the slot of the next write. *)
(***************************************************************************)
EXTENDS Integers, Sequences

CONSTANTS
    HistoryLimit,   \* capacity of the buffer (the -history_limit flag)
    NoEntry         \* a slot that was never written

ASSUME RingAssumption == HistoryLimit \in Nat \ {0}

Slots == 0 .. HistoryLimit - 1

EmptyRing == [data |-> [i \in Slots |-> NoEntry], head |-> 0, count |-> 0]

\* Mutant: the write position does not wrap around in step with the count.
PushStuck(rb, x) ==
    [data  |-> [rb.data EXCEPT ![rb.head] = x],
     head  |-> IF rb.count < HistoryLimit THEN (rb.head + 1) % HistoryLimit ELSE rb.head,
     count |-> IF rb.count < HistoryLimit THEN rb.count + 1 ELSE rb.count]
\* The oldest entry is overwritten when the buffer is full.
Push(rb, x) ==
    [data  |-> [rb.data EXCEPT ![rb.head] = x],
     head  |-> (rb.head + 1) % HistoryLimit,
     count |-> IF rb.count < HistoryLimit THEN rb.count + 1 ELSE rb.count]

\* All entries, newest first: what the API returns and what is saved.
GetAll(rb) ==
    [i \in 1 .. rb.count |-> rb.data[(rb.head - i + HistoryLimit) % HistoryLimit]]

\* load: the records of the file, newest first, are pushed in the order they
\* were made; a file longer than the buffer keeps its newest ones.
LoadRing(records) ==
    LET n == IF Len(records) > HistoryLimit THEN HistoryLimit ELSE Len(records)
    IN  [data  |-> [i \in Slots |-> IF i < n THEN records[n - i] ELSE NoEntry],
         head  |-> n % HistoryLimit,
         count |-> n]
=============================================================================
