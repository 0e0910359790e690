-------------------------------- MODULE Web --------------------------------
(***************************************************************************)
(* The Web API of a set of nodes and one page of web/index.html that polls *)
(* one of them: GET /api/state and GET /api/updates, each in a thread of   *)
(* its own on the node, and the page's polls, which overlap when an answer *)
(* is slow (setInterval does not wait) and which outlive a change of the   *)
(* node polled.                                                            *)
(*                                                                         *)
(* A row of the page, and an entry of its log, belong to an origin and a   *)
(* sensor.  Time is left out: a poll may start whenever a slot is free.    *)
(***************************************************************************)
EXTENDS LWW, SequencesExt

CONSTANTS
  Bases,        \* the nodes whose URL the page is given
  Readings,     \* what is merged: triples of a node, a sensor and a record
  Polls,        \* bound: polls in flight at once
  LogMax,       \* LOG_MAX
  Awaited,      \* an answer that is still to come
  Failed,       \* an answer that will not come
  MaxLosses,    \* bound: answers lost or taken by another client
  MaxSwitches   \* bound: changes of the node polled

ASSUME WebAssumption ==
  /\ Bases \subseteq Nodes /\ Readings \subseteq Bases \X Sensors \X Record
  /\ LogMax \in Nat \ {0} /\ MaxLosses \in Nat /\ MaxSwitches \in Nat
  /\ IsFiniteSet(Sensors) /\ Awaited # Failed

VARIABLES
  state,       \* NodeStateWorker._state of each node
  updates_ui,  \* NodeStateWorker._updates_ui of each node
  base,        \* currentBaseUrl
  polls,       \* polls[i]: the node asked, and its two answers
  rows,        \* sensorRows: what each row shows
  logSeen, logBuffer,
  losses, switches

page == <<rows, logSeen, logBuffer>>
bounds == <<losses, switches>>
vars == <<state, updates_ui, base, polls, page, bounds>>

\* A slot with no poll.
Idle == [at |-> NoRecord, state |-> Failed, updates |-> Failed]

Init ==
  /\ state = [n \in Bases |-> NoRecords] /\ updates_ui = state
  /\ base \in Bases
  /\ polls = [i \in Polls |-> Idle]
  /\ rows = {} /\ logSeen = {} /\ logBuffer = <<>>
  /\ losses = 0 /\ switches = 0

-----------------------------------------------------------------------------
\* A sensor or a peer brings a reading: merge_update, as in Replication.
merge_update(n, s, u) ==
  /\ ~covers(state[n][s], u)
  /\ state' = [state EXCEPT ![n][s] = u]
  /\ updates_ui' = [updates_ui EXCEPT ![n][s] = u]
  /\ UNCHANGED <<base, polls, page, bounds>>

\* _snapshot_grouped_for_ui, without the level of the local node's id (its keys
\* are distinct when no NODE_ID contains a ":").
snapshot_grouped_for_ui(map) ==
  {[id |-> global_sensor_id(map[s].origin, s), rec |-> map[s]] :
      s \in {t \in Sensors : map[t] # NoRecord}}

ASSUME AnswerAssumption ==
  \A map \in [Sensors -> Slot] : snapshot_grouped_for_ui(map) \notin {Awaited, Failed}

Answer(i, part, answer) ==
  /\ polls[i][part] = Awaited
  /\ polls' = [polls EXCEPT ![i] = [@ EXCEPT ![part] = answer]]

\* _handle_state.
handle_state(i) ==
  /\ Answer(i, "state", snapshot_grouped_for_ui(state[polls[i].at]))
  /\ UNCHANGED <<state, updates_ui, base, page, bounds>>

\* _handle_updates: get_updates_snapshot reads and clears under the lock, before
\* the answer is written.
handle_updates(i) ==
  /\ Answer(i, "updates", snapshot_grouped_for_ui(updates_ui[polls[i].at]))
  /\ updates_ui' = [updates_ui EXCEPT ![polls[i].at] = NoRecords]
  /\ UNCHANGED <<state, base, page, bounds>>

\* An answer does not arrive: the node is not there, it says 500, or the
\* connection breaks while the answer is written.
fail(i, part) ==
  /\ losses < MaxLosses /\ losses' = losses + 1
  /\ polls[i] # Idle /\ polls[i][part] # Failed
  /\ polls' = [polls EXCEPT ![i] = [@ EXCEPT ![part] = Failed]]
  /\ UNCHANGED <<state, updates_ui, base, page, switches>>

\* Another page, or curl, reads the updates of node n.
other_client(n) ==
  /\ losses < MaxLosses /\ losses' = losses + 1
  /\ updates_ui[n] # NoRecords
  /\ updates_ui' = [updates_ui EXCEPT ![n] = NoRecords]
  /\ UNCHANGED <<state, base, polls, page, switches>>

-----------------------------------------------------------------------------
\* splitGlobalSensorId: cut at the first ":".  An id that begins with ":" gives
\* null, and normalizeGroupedByOrigin skips the entry: only a NODE_ID that begins
\* with ":" makes one, and the ids here have a first part that is not empty.
splitGlobalSensorId(id) == [origin |-> Head(id), sensorId |-> Tail(id)]

normalizeGroupedByOrigin(payload) ==
  {[row |-> splitGlobalSensorId(x.id), rec |-> x.rec] : x \in payload}

\* Only what is in the updates is rendered.
RenderUpdates(shown, st, updates) ==
  {x \in shown : \A y \in updates : y.row # x.row} \cup updates

\* A row is added whenever a sensor is rendered.
RenderAppends(shown, st, updates) == shown \cup st

\* renderState: every row of the state is written; rows of other origins stay.
renderState(shown, st, updates) ==
  {x \in shown : \A y \in st : y.row # x.row} \cup st

\* A key without the timestamp.
KeyWithoutTs(x) == [row |-> x.row, ts |-> 0]

\* `${nodeId}|${sensorId}|${ts_ms}`, taken apart: two keys are equal when their
\* fields are, as the strings are as long as no id contains a "|".  The same holds
\* of the key of a row.
logKey(x) == [row |-> x.row, ts |-> x.rec.ts_ms]

\* pushLog on [seen, buffer]: new entries go to the front, the oldest leave,
\* and can be logged again.
pushLog(log, x) ==
  LET k == logKey(x)
      full == Len(log.buffer) = LogMax
  IN IF k \in log.seen THEN log
     ELSE [seen |-> (log.seen \cup {k}) \
                      (IF full THEN {logKey(log.buffer[LogMax])} ELSE {}),
           buffer |-> <<x>> \o (IF full THEN Front(log.buffer) ELSE log.buffer)]

\* The loop over the updates of an answer.
pushAll(log, order) ==
  LET after[i \in 0..Len(order)] ==
        IF i = 0 THEN log ELSE pushLog(after[i - 1], order[i])
  IN after[Len(order)]

Sent(n) == [at |-> n, state |-> Awaited, updates |-> Awaited]

\* The interval timer calls poll: both requests are sent.
poll(i) ==
  /\ polls[i] = Idle
  /\ polls' = [polls EXCEPT ![i] = Sent(base)]
  /\ UNCHANGED <<state, updates_ui, base, page, bounds>>

\* Promise.all: with both answers the page is rendered and the log extended; with
\* one missing the other is dropped.
poll_ends(i) ==
  LET p == polls[i]
  IN /\ p # Idle /\ Awaited \notin {p.state, p.updates}
     /\ polls' = [polls EXCEPT ![i] = Idle]
     /\ IF Failed \in {p.state, p.updates}
          THEN UNCHANGED page
          ELSE LET updates == normalizeGroupedByOrigin(p.updates)
               IN /\ rows' = renderState(rows, normalizeGroupedByOrigin(p.state), updates)
                  /\ \E order \in SetToSeqs(updates) :
                       LET log == pushAll([seen |-> logSeen, buffer |-> logBuffer], order)
                       IN logSeen' = log.seen /\ logBuffer' = log.buffer
     /\ UNCHANGED <<state, updates_ui, base, bounds>>

\* The set of keys seen is not cleared.
ResetKeepsSeen == rows' = {} /\ logBuffer' = <<>> /\ UNCHANGED logSeen

resetUI == rows' = {} /\ logBuffer' = <<>> /\ logSeen' = {}

\* start, on Apply with the URL of another node: the page is emptied and polls
\* that node at once.  Polls in flight stay in flight.  (With the same URL it
\* only polls, and adds a timer.)
start(n, i) ==
  /\ n # base /\ switches < MaxSwitches /\ switches' = switches + 1
  /\ base' = n /\ resetUI
  /\ polls[i] = Idle /\ polls' = [polls EXCEPT ![i] = Sent(n)]
  /\ UNCHANGED <<state, updates_ui, losses>>

answers(i) == handle_state(i) \/ handle_updates(i)

Next ==
  \/ \E x \in Readings : merge_update(x[1], x[2], x[3])
  \/ \E i \in Polls : answers(i) \/ poll(i) \/ poll_ends(i)
  \/ \E i \in Polls, part \in {"state", "updates"} : fail(i, part)
  \/ \E n \in Bases : other_client(n) \/ \E i \in Polls : start(n, i)

Spec == Init /\ [][Next]_vars

\* The timer ticks, the node's threads answer, answers arrive or fail.
FairSpec ==
  /\ Spec
  /\ \A i \in Polls : WF_vars(answers(i)) /\ WF_vars(poll(i)) /\ WF_vars(poll_ends(i))

-----------------------------------------------------------------------------
\* A row shows one record, and the log has at most LOG_MAX lines.
TypeOK ==
  /\ state \in [Bases -> [Sensors -> Slot]] /\ updates_ui \in [Bases -> [Sensors -> Slot]]
  /\ base \in Bases
  /\ \A i \in Polls : polls[i] = Idle \/ polls[i].at \in Bases
  /\ \A x \in rows : x.rec \in Record /\ \A y \in rows : x.row = y.row => x = y
  /\ Len(logBuffer) <= LogMax
  /\ losses \in 0..MaxLosses /\ switches \in 0..MaxSwitches

\* logSeen holds exactly the keys of logBuffer, none twice, whatever was trimmed,
\* reset or repeated by another node: a line is never repeated while it is there,
\* and a key left behind would keep a reading out of the log for ever.
LogConsistent ==
  /\ logSeen = {logKey(x) : x \in Range(logBuffer)}
  /\ \A i, j \in 1..Len(logBuffer) : i # j => logKey(logBuffer[i]) # logKey(logBuffer[j])

\* As long as no answer was lost, no other client reads, the page stays with one
\* node and the log is not full, every reading that node holds is logged, or waits
\* under its sensor in the node's updates, or is in an answer of the node: clearing
\* the updates when they are read, overlapping polls and the deletion of repeated
\* keys lose none.  What a lost answer held never reaches the log (only the rows,
\* UiCatchesUp), and a full log drops its oldest lines.
ReadingsReachLog ==
  losses = 0 /\ switches = 0 /\ Len(logBuffer) < LogMax =>
     \A x \in normalizeGroupedByOrigin(snapshot_grouped_for_ui(state[base])) :
        \/ x \in Range(logBuffer)
        \/ x \in normalizeGroupedByOrigin(snapshot_grouped_for_ui(updates_ui[base]))
        \/ \E i \in Polls : /\ polls[i].updates \notin {Awaited, Failed}
                            /\ x \in normalizeGroupedByOrigin(polls[i].updates)

Shown(n) ==
  normalizeGroupedByOrigin(snapshot_grouped_for_ui(state[n])) \subseteq rows

\* When readings stop, the page shows what the node it polls holds and keeps
\* showing it, although updates were lost, an older answer arrived last, or an
\* answer of the node polled before came after the switch.  (Rows of other origins
\* that such an answer left are not removed: the page shows at least the state.)
UiCatchesUp == \A n \in Bases : <>[](base = n) => <>[](Shown(n))
=============================================================================
