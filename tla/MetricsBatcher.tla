--------------------------- MODULE MetricsBatcher ---------------------------
(***************************************************************************)
(* The metrics batcher (batcher.go): the readers of all agents add entries  *)
(* to a bounded channel, one goroutine moves them to its buffer and writes  *)
(* the buffer to SQLite in one transaction, when it is full, on a ticker    *)
(* and when it is stopped.  Entries are numbered in the order of Add.       *)
(***************************************************************************)
EXTENDS Naturals, Sequences, FiniteSets, Lists

CONSTANTS
  BatchBufferSize,  \* batchBufferSize: of the channel and of the buffer
  MaxEntries        \* bound on calls of Add

ASSUME BatcherAssumptions == BatchBufferSize \in Nat \ {0} /\ MaxEntries \in Nat

VARIABLES
  added,    \* calls of Add so far
  channel,  \* b.ch
  buf,      \* the buffer of run
  stored,   \* rows of the metrics table, in the order of their INSERTs
  lost,     \* entries dropped by a full channel or by a failing flush
  running   \* "yes", "stopping": b.done is closed, "no": run has returned

batVars == <<added, channel, buf, stored, lost, running>>

BatTypeOK ==
  /\ added \in 0..MaxEntries
  /\ Len(channel) <= BatchBufferSize
  \* A full buffer is flushed before the next entry is taken.
  /\ running # "no" => Len(buf) < BatchBufferSize
  /\ Elements(channel) \cup Elements(buf) \cup Elements(stored) \cup lost = 1..added
  /\ running \in {"yes", "stopping", "no"}

BatInit ==
  /\ added = 0 /\ channel = <<>> /\ buf = <<>> /\ stored = <<>> /\ lost = {}
  /\ running = "yes"

Add ==
  /\ added < MaxEntries /\ added' = added + 1
  /\ IF Len(channel) < BatchBufferSize
     THEN channel' = Append(channel, added') /\ UNCHANGED lost
     ELSE lost' = lost \cup {added'} /\ UNCHANGED channel
  /\ UNCHANGED <<buf, stored, running>>

\* flush: one transaction.  Single INSERTs may fail, or the whole transaction.
Flush(entries) ==
  \E failed \in SUBSET Elements(entries) :
    /\ stored' = stored \o Filter(entries, Elements(entries) \ failed)
    /\ lost' = lost \cup failed

MutTakeEntry ==                        \* the buffer is not emptied after a flush
  /\ running # "no" /\ channel # <<>>
  /\ channel' = Tail(channel)
  /\ LET grown == Append(buf, Head(channel)) IN
     /\ buf' = grown
     /\ IF Len(grown) >= BatchBufferSize THEN Flush(grown) ELSE UNCHANGED <<stored, lost>>
  /\ UNCHANGED <<added, running>>

TakeEntry ==
  /\ running # "no" /\ channel # <<>>
  /\ channel' = Tail(channel)
  /\ LET grown == Append(buf, Head(channel)) IN
     IF Len(grown) >= BatchBufferSize
     THEN Flush(grown) /\ buf' = <<>>
     ELSE buf' = grown /\ UNCHANGED <<stored, lost>>
  /\ UNCHANGED <<added, running>>

TickerFires ==
  /\ running # "no" /\ buf # <<>>
  /\ Flush(buf) /\ buf' = <<>>
  /\ UNCHANGED <<added, channel, running>>

\* Stop: the tests call it; the server never does and runs until it is killed.
Stop ==
  /\ running = "yes" /\ running' = "stopping"
  /\ UNCHANGED <<added, channel, buf, stored, lost>>

\* run sees b.done: the select may first serve the other cases; then the channel
\* is drained and everything is flushed.
Drain ==
  /\ running = "stopping" /\ running' = "no"
  /\ channel' = <<>> /\ buf' = <<>>
  /\ Flush(buf \o channel)
  /\ UNCHANGED added

BatNext == Add \/ TakeEntry \/ TickerFires \/ Stop \/ Drain

BatSpec == BatInit /\ [][BatNext]_batVars

-----------------------------------------------------------------------------
(* Properties.                                                              *)

\* Whatever is flushed when, and whichever flush fails, the entries reach the
\* table in the order in which they were added and none of them twice
\* (batcher.go:54-76).
RowsInOrder ==
  LET all == stored \o buf \o channel IN
  \A i, k \in DOMAIN all : i < k => all[i] < all[k]

=============================================================================
