------------------------------- MODULE EventBus -------------------------------
(***************************************************************************)
(* ThreadEventBus of src/src/app-server/event-bus.ts: the bounded replay   *)
(* log of one thread.  Publishing numbers an event, appends its record and *)
(* evicts from the front until both bounds hold.                           *)
(***************************************************************************)
EXTENDS Naturals, SequencesExt

CONSTANTS
  MaxReplayEvents, \* maxReplayEvents
  MaxReplayBytes,  \* maxReplayBytes
  Sizes            \* what eventByteSize may give

ASSUME BusAssumption ==
  /\ MaxReplayEvents \in Nat \ {0}
  /\ MaxReplayBytes \in Nat \ {0}
  /\ Sizes \subseteq Nat

VARIABLES
  records,       \* this.records
  nextSequence,  \* this.nextSequence
  retainedBytes  \* this.retainedBytes

busVars == <<records, nextSequence, retainedBytes>>

Record == [sequence : Nat \ {0}, size : Nat]

BusTypeOK ==
  /\ records \in Seq(Record)
  /\ nextSequence \in Nat \ {0}
  /\ retainedBytes \in Nat

BusInit == records = <<>> /\ nextSequence = 1 /\ retainedBytes = 0

-------------------------------------------------------------------------------
(* The bytes of recs. *)
Weight(recs) ==
  LET sum[i \in 0..Len(recs)] == IF i = 0 THEN 0 ELSE sum[i - 1] + recs[i].size
  IN  sum[Len(recs)]

(* Mutant of BytesLeft: what is dropped keeps its weight. *)
BytesKept(recs, bytes, k) == bytes

(* The bytes retained when the first k of recs are dropped; never negative. *)
BytesLeft(recs, bytes, k) ==
  LET dropped == Weight(SubSeq(recs, 1, k))
  IN  IF dropped <= bytes THEN bytes - dropped ELSE 0

(* Mutant of OverLimit: one record too many. *)
OverLimitByOne(length, bytes) ==
  \/ length > MaxReplayEvents + 1
  \/ bytes > MaxReplayBytes /\ length > 1

(* The condition of the eviction loop. *)
OverLimit(length, bytes) ==
  \/ length > MaxReplayEvents
  \/ bytes > MaxReplayBytes /\ length > 1

(* The loop drops one record at a time: it drops the first k when the condition
   holds after fewer and no longer after k. *)
Evicts(recs, bytes, k) ==
  /\ \A j \in 0..(k - 1) : OverLimit(Len(recs) - j, BytesLeft(recs, bytes, j))
  /\ ~OverLimit(Len(recs) - k, BytesLeft(recs, bytes, k))

(* publish(), without the subscribers. *)
Retain(size) ==
  LET all == Append(records, [sequence |-> nextSequence, size |-> size])
      bytes == retainedBytes + size
  IN  /\ nextSequence' = nextSequence + 1
      /\ \E k \in 0..Len(all) :
           /\ Evicts(all, bytes, k)
           /\ records' = SubSeq(all, k + 1, Len(all))
           /\ retainedBytes' = BytesLeft(all, bytes, k)

Earliest == IF records = <<>> THEN nextSequence ELSE Head(records).sequence
Latest == IF records = <<>> THEN nextSequence - 1 ELSE Last(records).sequence

(* Mutant of Truncated: a cursor just before the window counts as inside it, and
   so does one further back. *)
TruncatedLate(after) == after > 0 /\ after < Earliest - 2

Truncated(after) == after > 0 /\ after + 1 < Earliest

(* filter: those of the sequence numbers that are above n, in their order. *)
Above(sequences, n) ==
  LET kept[i \in 0..Len(sequences)] ==
        IF i = 0 THEN <<>>
        ELSE IF sequences[i] > n THEN Append(kept[i - 1], sequences[i]) ELSE kept[i - 1]
  IN  kept[Len(sequences)]

(* replayAfter(): the events by their sequence numbers. *)
ReplayAfter(after) ==
  [events |-> Above([i \in DOMAIN records |-> records[i].sequence], after),
   latest |-> Latest, truncated |-> Truncated(after)]

BusNext == \E size \in Sizes : Retain(size)
BusSpec == BusInit /\ [][BusNext]_busVars

-------------------------------------------------------------------------------
(* The log is a window on the sequence: it ends with the newest event, has no hole
   and no repetition, is never empty once something was published, and keeps to the
   count bound; both bounds hold whatever sizes the events have. *)
WindowContiguous ==
  /\ Len(records) <= MaxReplayEvents
  /\ \A i \in 1..Len(records) : records[i].sequence + Len(records) = nextSequence + i - 1
  /\ nextSequence > 1 => records # <<>>

(* The running count of bytes never drifts from what the log holds, and the log is
   within the byte bound unless its one record is larger than that. *)
WindowWeight ==
  /\ retainedBytes = Weight(records)
  /\ retainedBytes > MaxReplayBytes => Len(records) = 1
===============================================================================
