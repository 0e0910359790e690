-------------------------------- MODULE LWW --------------------------------
(***************************************************************************)
(* The vocabulary of the replicated sensor state: records, the last-writer-*)
(* wins order of NodeStateWorker.merge_update, and the textual sensor key  *)
(* "origin:sensor_id" that pop_replication_updates writes and the          *)
(* publisher parses back.                                                  *)
(*                                                                         *)
(* Node ids are naturals whose order is the lexicographic order of the     *)
(* NODE_ID strings, the only thing the tie-break looks at.  A string is    *)
(* seen as the sequence of its ":"-separated parts, the only structure the *)
(* key conversion looks at.  A record's "meta" (unit, period_ms) is part   *)
(* of its value: no decision of the code reads it.                         *)
(***************************************************************************)
EXTENDS Integers, Sequences

CONSTANTS
  Nodes,      \* node ids (config.node_id), ordered as the strings are
  Parts,      \* ":"-free pieces of strings
  IdParts,    \* IdParts[n]: the parts of n's NODE_ID string
  Sensors,    \* every sensor_id that can occur, as a sequence of parts
  Values,     \* sensor readings
  MaxClock,   \* bound: the largest millisecond a clock shows
  NoRecord    \* dict.get() returned None

ASSUME LWWAssumption ==
  /\ Nodes \subseteq Nat
  /\ IdParts \in [Nodes -> Seq(Parts) \ {<<>>}]
  /\ Sensors \subseteq Seq(Parts) \ {<<>>}
  /\ MaxClock \in Nat

Time == 0..MaxClock

Record == [value : Values, ts_ms : Time, origin : Nodes]

ASSUME NoRecordAssumption == NoRecord \notin Record

\* What one key of _state, _updates_ui or _updates_replication may hold.
Slot == Record \cup {NoRecord}

\* A dict from sensor_id to record with no key.
NoRecords == [s \in Sensors |-> NoRecord]

\* A tie-break that lets the later arrival win, and one that ignores ties.
NewerLastArrival(u, prev) ==
  prev = NoRecord \/ u.ts_ms >= prev.ts_ms

NewerNoTieBreak(u, prev) ==
  prev = NoRecord \/ u.ts_ms > prev.ts_ms

(***************************************************************************)
(* merge_update's decision: insert, newer timestamp, or the same timestamp *)
(* and a larger origin.                                                    *)
(***************************************************************************)
newer(u, prev) ==
  \/ prev = NoRecord
  \/ u.ts_ms > prev.ts_ms
  \/ u.ts_ms = prev.ts_ms /\ u.origin > prev.origin

\* Slot `held` makes record u redundant: merging u would change nothing.
covers(held, u) == ~newer(u, held)

SameStamp(u, v) == u.ts_ms = v.ts_ms /\ u.origin = v.origin

-----------------------------------------------------------------------------
\* f"{origin}:{sensor_id}" of pop_replication_updates.
global_sensor_id(origin, s) == IdParts[origin] \o s

\* The key is published as it was popped.
WholeKey(g) == g

\* global_sensor_id.split(":", 1)[1] of _publish_once.
local_sensor_id(g) == Tail(g)

\* The sensor_id a SENSOR_UPDATE carries for node n's record under key s.
published_id(n, s) == local_sensor_id(global_sensor_id(n, s))

\* No NODE_ID contains a ":".
ColonFree == \A n \in Nodes : Len(IdParts[n]) = 1
=============================================================================
