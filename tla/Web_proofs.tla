----------------------------- MODULE Web_proofs -----------------------------
(***************************************************************************)
(* Proofs about the Web API and the page, for every set of nodes, sensors, *)
(* readings and polls and every size of the log.                           *)
(***************************************************************************)
EXTENDS Web, LWW_proofs, FiniteSetTheorems

\* NODE_IDs are distinct strings.
DistinctIds == \A m, n \in Nodes : IdParts[m] = IdParts[n] => m = n

\* What the page makes of a record of sensor s.
Entry(s, r) == [row |-> splitGlobalSensorId(global_sensor_id(r.origin, s)), rec |-> r]
Entries == {Entry(s, r) : s \in Sensors, r \in Record}

\* The answers of GET /api/state and GET /api/updates.
Payloads == {snapshot_grouped_for_ui(map) : map \in [Sensors -> Slot]}
Part == Payloads \cup {Awaited, Failed}

\* Polls are well formed.
Polled ==
  /\ polls \in [Polls -> [at : Bases \cup {NoRecord}, state : Part, updates : Part]]
  /\ \A i \in Polls : polls[i] = Idle \/ polls[i].at \in Bases

\* The logs that pushLog keeps within: at most LOG_MAX entries, no key twice, and
\* the keys of the buffer are those seen.
GoodLog(log) ==
  /\ log.buffer \in Seq(Entries) /\ Len(log.buffer) <= LogMax
  /\ log.seen = {logKey(x) : x \in Range(log.buffer)}
  /\ \A i, j \in 1..Len(log.buffer) : i # j => logKey(log.buffer[i]) # logKey(log.buffer[j])

Log == [seen |-> logSeen, buffer |-> logBuffer]
Logged == GoodLog(Log)

\* Poll i brings entry x to the log.
Carries(i, x) ==
  /\ polls[i].updates \notin {Awaited, Failed}
  /\ x \in normalizeGroupedByOrigin(polls[i].updates)

\* A record of sensor s that the polled node holds, or that is on its way to the
\* page or in its log.
Past(s, r) ==
  \/ state[base][s] = r \/ updates_ui[base][s] = r
  \/ Entry(s, r) \in Range(logBuffer)
  \/ \E i \in Polls : Carries(i, Entry(s, r))

\* While the page stays with one node, that node's record makes all these
\* redundant, and no two of them have the same stamp.
Coherent ==
  switches = 0 => \A s \in Sensors, r \in Record :
     Past(s, r) => /\ covers(state[base][s], r)
                   /\ \A q \in Record : Past(s, q) /\ SameStamp(r, q) => r = q

\* While the page stays with one node its polls ask that node, and an answer is
\* missing only when it was lost.
Loyal ==
  \A i \in Polls : polls[i] # Idle =>
     /\ switches = 0 => polls[i].at = base
     /\ losses = 0 => Failed \notin {polls[i].state, polls[i].updates}

\* ReadingsReachLog, sensor by sensor.
Reached ==
  losses = 0 /\ switches = 0 /\ Len(logBuffer) < LogMax =>
     \A s \in Sensors : state[base][s] # NoRecord =>
        \/ Entry(s, state[base][s]) \in Range(logBuffer)
        \/ updates_ui[base][s] = state[base][s]
        \/ \E i \in Polls : Carries(i, Entry(s, state[base][s]))

-----------------------------------------------------------------------------
\* A set of naturals has a least element: what induction over the entries of an
\* answer rests on.
LEMMA LeastElement ==
  ASSUME NEW T, T \subseteq Nat, T # {}
  PROVE  \E x \in T : \A y \in T : x <= y
<1> DEFINE R == OpToRel(<, Nat)
<1>1. IsWellFoundedOn(R, Nat)
  BY NatLessThanWellFounded
<1>2. \A x, y \in Nat : x < y => <<x, y>> \in R
  BY DEF OpToRel
<1> HIDE DEF R
<1>3. PICK x \in T : \A y \in T : <<y, x>> \notin R
  BY <1>1, WFMin
<1>4. ASSUME NEW y \in T PROVE x <= y
  <2>1. x \in Nat /\ y \in Nat
    OBVIOUS
  <2>2. ~(y < x)
    BY <1>2, <1>3, <2>1
  <2> QED
    BY <2>1, <2>2
<1> QED
  BY <1>4

\* Elements of a sequence.
LEMMA RangeIs ==
  ASSUME NEW S, NEW q \in Seq(S)
  PROVE  Range(q) = {q[i] : i \in 1..Len(q)} /\ Range(q) \subseteq S
<1>1. DOMAIN q = 1..Len(q)
  BY LenProperties
<1>2. \A i \in 1..Len(q) : q[i] \in S
  BY ElementOfSeq
<1> QED
  BY <1>1, <1>2 DEF Range

\* pushLog keeps logs good; the log only grows until it is full, and takes x
\* unless it has an entry with x's key.
LEMMA PushLogEffect ==
  ASSUME NEW log, GoodLog(log), NEW x \in Entries
  PROVE  LET new == pushLog(log, x)
         IN /\ GoodLog(new)
            /\ Len(log.buffer) <= Len(new.buffer)
            /\ Range(new.buffer) \subseteq Range(log.buffer) \cup {x}
            /\ Len(new.buffer) < LogMax =>
                  /\ Range(log.buffer) \subseteq Range(new.buffer)
                  /\ \E y \in Range(new.buffer) : logKey(y) = logKey(x)
<1> DEFINE k == logKey(x)
           b == log.buffer
           new == pushLog(log, x)
<1>1. /\ b \in Seq(Entries) /\ Len(b) \in Nat /\ Len(b) <= LogMax /\ LogMax \in Nat /\ LogMax > 0
      /\ Range(b) = {b[i] : i \in 1..Len(b)} /\ \A i \in 1..Len(b) : b[i] \in Entries
  BY LenProperties, RangeIs, ElementOfSeq, WebAssumption DEF GoodLog
<1>2. log.seen = {logKey(b[i]) : i \in 1..Len(b)}
  BY <1>1 DEF GoodLog
<1>3. CASE k \in log.seen
  <2>1. new = log
    BY <1>3 DEF pushLog
  <2>2. \E y \in Range(b) : logKey(y) = k
    BY <1>3 DEF GoodLog
  <2> QED
    BY <1>1, <2>1, <2>2
<1>4. CASE k \notin log.seen
  <2> DEFINE full == Len(b) = LogMax
             f == IF full THEN Front(b) ELSE b
             m == Len(f)
             nb == <<x>> \o f
  <2>1. new = [seen |-> (log.seen \cup {k}) \ (IF full THEN {logKey(b[LogMax])} ELSE {}),
               buffer |-> nb]
    BY <1>4 DEF pushLog
  <2>2. /\ f \in Seq(Entries) /\ m = (IF full THEN LogMax - 1 ELSE Len(b))
        /\ \A i \in 1..m : f[i] = b[i]
    <3>1. CASE full
      <4>1. f = SubSeq(b, 1, LogMax - 1)
        BY <3>1 DEF Front
      <4> QED
        BY <1>1, <3>1, <4>1, SubSeqProperties
    <3>2. CASE ~full
      BY <1>1, <3>2
    <3> QED
      BY <3>1, <3>2
  <2>3. /\ m \in Nat /\ nb \in Seq(Entries) /\ Len(nb) = m + 1 /\ nb[1] = x
        /\ \A i \in 2..(m + 1) : nb[i] = b[i - 1]
    <3>1. <<x>> \in Seq(Entries) /\ Len(<<x>>) = 1 /\ <<x>>[1] = x
      OBVIOUS
    <3>2. m \in Nat
      BY <2>2, LenProperties
    <3>3. /\ nb \in Seq(Entries) /\ Len(nb) = 1 + m
          /\ \A i \in 1..(1 + m) : nb[i] = IF i <= 1 THEN <<x>>[i] ELSE f[i - 1]
      BY <2>2, <3>1, <3>2, ConcatProperties
    <3> QED
      BY <2>2, <3>1, <3>2, <3>3
  <2> HIDE DEF nb, f
  <2>4. new.buffer = nb /\ m <= Len(b) /\ (full \/ m = Len(b)) /\ m + 1 <= LogMax /\ Len(b) <= m + 1
    BY <1>1, <2>1, <2>2
  <2>5. Range(nb) = {x} \cup {b[i] : i \in 1..m}
    <3>1. Range(nb) = {nb[i] : i \in 1..(m + 1)}
      BY <2>3, RangeIs
    <3>2. {nb[i] : i \in 1..(m + 1)} = {nb[1]} \cup {nb[i] : i \in 2..(m + 1)}
      BY <2>3
    <3>3. {nb[i] : i \in 2..(m + 1)} = {b[i] : i \in 1..m}
      <4>1. ASSUME NEW i \in 1..m PROVE nb[i + 1] = b[i] /\ i + 1 \in 2..(m + 1)
        BY <2>3
      <4>2. ASSUME NEW i \in 2..(m + 1) PROVE nb[i] = b[i - 1] /\ i - 1 \in 1..m
        BY <2>3
      <4> QED
        BY <4>1, <4>2
    <3> QED
      BY <2>3, <3>1, <3>2, <3>3
  <2>6. \A i \in 1..Len(b) : logKey(b[i]) # k
    BY <1>2, <1>4
  <2>7. \A i, j \in 1..Len(nb) : i # j => logKey(nb[i]) # logKey(nb[j])
    <3>1. ASSUME NEW i \in 1..Len(nb), i # 1
          PROVE  nb[i] = b[i - 1] /\ i - 1 \in 1..Len(b)
      BY <1>1, <2>3, <2>4, <3>1
    <3>2. \A i \in 1..Len(nb) : i # 1 => logKey(nb[i]) # logKey(nb[1])
      BY <2>3, <2>6, <3>1
    <3>3. ASSUME NEW i \in 1..Len(nb), NEW j \in 1..Len(nb), i # 1, j # 1, i # j
          PROVE  logKey(nb[i]) # logKey(nb[j])
      <4>1. i - 1 \in 1..Len(b) /\ j - 1 \in 1..Len(b) /\ i - 1 # j - 1
        BY <2>3, <3>1, <3>3
      <4>2. logKey(b[i - 1]) # logKey(b[j - 1])
        BY <4>1 DEF GoodLog
      <4> QED
        BY <3>1, <3>3, <4>2
    <3> QED
      BY <3>2, <3>3
  <2>8. new.seen = {logKey(y) : y \in Range(nb)}
    <3>1. {logKey(y) : y \in Range(nb)} = {k} \cup {logKey(b[i]) : i \in 1..m}
      BY <2>5
    <3>2. CASE full
      <4>1. m = LogMax - 1 /\ LogMax \in 1..Len(b) /\ 1..Len(b) = (1..m) \cup {LogMax}
        BY <1>1, <2>2, <3>2
      <4>2. \A i \in 1..m : logKey(b[i]) # logKey(b[LogMax])
        BY <1>1, <4>1 DEF GoodLog
      <4>3. logKey(b[LogMax]) # k
        BY <2>6, <4>1
      <4>4. new.seen = (log.seen \cup {k}) \ {logKey(b[LogMax])}
        BY <2>1, <3>2
      <4> QED
        BY <1>2, <3>1, <4>1, <4>2, <4>3, <4>4
    <3>3. CASE ~full
      BY <1>2, <2>1, <2>4, <3>1, <3>3
    <3> QED
      BY <3>2, <3>3
  <2>9. GoodLog(new)
    BY <2>3, <2>4, <2>7, <2>8 DEF GoodLog
  <2>10. Range(nb) \subseteq Range(b) \cup {x} /\ x \in Range(nb)
    BY <1>1, <2>3, <2>4, <2>5
  <2>11. Len(nb) < LogMax => Range(b) \subseteq Range(nb)
    BY <1>1, <2>2, <2>3, <2>4, <2>5
  <2> QED
    BY <2>3, <2>4, <2>9, <2>10, <2>11
<1> QED
  BY <1>3, <1>4

-----------------------------------------------------------------------------
\* g[i] is the log after the first i entries of order.
Chain(g, log, order, n) ==
  g = [i \in 0..n |-> IF i = 0 THEN log ELSE pushLog(g[i - 1], order[i])]

\* There is a chain for every order: by the least length that had none.
LEMMA ChainExists ==
  ASSUME NEW log, NEW order, NEW n \in Nat
  PROVE  \E g : Chain(g, log, order, n)
<1> DEFINE T == {m \in 0..n : ~\E g : Chain(g, log, order, m)}
<1>1. ASSUME T # {} PROVE FALSE
  <2>0. T \subseteq Nat
    OBVIOUS
  <2>1. PICK m \in T : \A k \in T : m <= k
    <3> HIDE DEF T
    <3> QED
      BY <1>1, <2>0, LeastElement
  <2>2. m # 0
    <3> DEFINE g == [i \in 0..0 |-> log]
    <3>1. g = [i \in 0..0 |-> IF i = 0 THEN log ELSE pushLog(g[i - 1], order[i])]
      OBVIOUS
    <3>2. Chain(g, log, order, 0)
      BY <3>1 DEF Chain
    <3> QED
      BY <2>1, <3>2
  <2>3. m - 1 \in 0..n /\ m \in Nat /\ ~(m <= m - 1)
    BY <2>1, <2>2
  <2>4. PICK g : Chain(g, log, order, m - 1)
    BY <2>1, <2>3
  <2> DEFINE h == [i \in 0..m |-> IF i = m THEN pushLog(g[m - 1], order[m]) ELSE g[i]]
  <2>5. ASSUME NEW i \in 0..m
        PROVE  h[i] = IF i = 0 THEN log ELSE pushLog(h[i - 1], order[i])
    <3>1. CASE i = m
      <4>1. i # 0 /\ m - 1 \in 0..m /\ m - 1 # m
        BY <2>2, <2>3, <3>1
      <4>2. h[i - 1] = g[m - 1]
        BY <3>1, <4>1
      <4> QED
        BY <3>1, <4>1, <4>2
    <3>2. CASE i # m
      <4>1. i \in 0..(m - 1) /\ h[i] = g[i]
        BY <2>3, <3>2
      <4>2. g[i] = IF i = 0 THEN log ELSE pushLog(g[i - 1], order[i])
        BY <2>4, <4>1 DEF Chain
      <4>3. i # 0 => i - 1 \in 0..m /\ i - 1 # m
        BY <2>3, <4>1
      <4>4. i # 0 => h[i - 1] = g[i - 1]
        BY <4>3
      <4> QED
        BY <4>1, <4>2, <4>4
    <3> QED
      BY <3>1, <3>2
  <2>6. Chain(h, log, order, m)
    <3>1. h = [i \in 0..m |-> h[i]]
      OBVIOUS
    <3> HIDE DEF h
    <3>2. h = [i \in 0..m |-> IF i = 0 THEN log ELSE pushLog(h[i - 1], order[i])]
      BY <2>5, <3>1
    <3> QED
      BY <3>2 DEF Chain
  <2> QED
    BY <2>1, <2>6
<1>2. n \in 0..n
  OBVIOUS
<1> QED
  BY <1>1, <1>2

\* pushAll is the end of such a chain: its recursive definition has a solution.
LEMMA PushAllIsChain ==
  ASSUME NEW log, NEW order, Len(order) \in Nat
  PROVE  \E g : Chain(g, log, order, Len(order)) /\ pushAll(log, order) = g[Len(order)]
<1> DEFINE D(g) == [i \in 0..Len(order) |-> IF i = 0 THEN log ELSE pushLog(g[i - 1], order[i])]
           f == CHOOSE g : g = D(g)
<1>1. \E g : g = D(g)
  <2>1. PICK g : Chain(g, log, order, Len(order))
    BY ChainExists
  <2>2. g = D(g)
    BY <2>1 DEF Chain
  <2> QED
    BY <2>2
<1>2. f = D(f)
  BY <1>1
<1>3. pushAll(log, order) = f[Len(order)]
  BY DEF pushAll
<1> HIDE DEF f
<1>4. Chain(f, log, order, Len(order))
  BY <1>2 DEF Chain
<1> QED
  BY <1>3, <1>4

\* The whole loop keeps logs good; unless the log gets full it keeps all it had
\* and has the keys of all that came.
LEMMA PushAllEffect ==
  ASSUME NEW log, GoodLog(log), NEW order \in Seq(Entries)
  PROVE  LET new == pushAll(log, order)
         IN /\ GoodLog(new)
            /\ Range(new.buffer) \subseteq Range(log.buffer) \cup Range(order)
            /\ Len(new.buffer) < LogMax =>
                  /\ Len(log.buffer) < LogMax
                  /\ Range(log.buffer) \subseteq Range(new.buffer)
                  /\ \A x \in Range(order) : \E y \in Range(new.buffer) : logKey(y) = logKey(x)
<1> DEFINE n == Len(order)
<1>1. n \in Nat /\ Range(order) = {order[i] : i \in 1..n} /\ \A i \in 1..n : order[i] \in Entries
  BY LenProperties, ElementOfSeq, RangeIs
<1>2. PICK g : Chain(g, log, order, n) /\ pushAll(log, order) = g[n]
  BY <1>1, PushAllIsChain
<1> HIDE DEF n
<1>3. g[0] = log /\ \A i \in 1..n : g[i] = pushLog(g[i - 1], order[i])
  <2>1. \A i \in 0..n : g[i] = IF i = 0 THEN log ELSE pushLog(g[i - 1], order[i])
    BY <1>2 DEF Chain
  <2> QED
    BY <1>1, <2>1
<1> DEFINE P(i) ==
      /\ GoodLog(g[i])
      /\ Range(g[i].buffer) \subseteq Range(log.buffer) \cup Range(order)
      /\ Len(g[i].buffer) < LogMax =>
            /\ Len(log.buffer) < LogMax
            /\ Range(log.buffer) \subseteq Range(g[i].buffer)
            /\ \A j \in 1..i : \E y \in Range(g[i].buffer) : logKey(y) = logKey(order[j])
           T == {i \in 0..n : ~P(i)}
<1>4. P(0)
  BY <1>3
<1>5. ASSUME NEW i \in 1..n, P(i - 1) PROVE P(i)
  <2> DEFINE old == g[i - 1]
             new == g[i]
             x == order[i]
  <2>1. new = pushLog(old, x) /\ x \in Entries /\ x \in Range(order) /\ GoodLog(old)
    BY <1>1, <1>3, <1>5
  <2>2. /\ GoodLog(new)
        /\ Len(old.buffer) <= Len(new.buffer)
        /\ Range(new.buffer) \subseteq Range(old.buffer) \cup {x}
        /\ Len(new.buffer) < LogMax =>
              /\ Range(old.buffer) \subseteq Range(new.buffer)
              /\ \E y \in Range(new.buffer) : logKey(y) = logKey(x)
    <3> HIDE DEF old, new, x
    <3> QED
      BY <2>1, PushLogEffect
  <2>3. Len(old.buffer) \in Nat /\ Len(new.buffer) \in Nat /\ LogMax \in Nat
    BY <2>1, <2>2, LenProperties, WebAssumption DEF GoodLog
  <2>4. Range(new.buffer) \subseteq Range(log.buffer) \cup Range(order)
    BY <1>5, <2>1, <2>2
  <2>5. ASSUME Len(new.buffer) < LogMax
        PROVE  /\ Len(log.buffer) < LogMax
               /\ Range(log.buffer) \subseteq Range(new.buffer)
               /\ \A j \in 1..i : \E y \in Range(new.buffer) : logKey(y) = logKey(order[j])
    <3>1. Len(old.buffer) < LogMax
      BY <2>2, <2>3, <2>5
    <3>2. /\ Len(log.buffer) < LogMax /\ Range(log.buffer) \subseteq Range(old.buffer)
          /\ \A j \in 1..(i - 1) : \E y \in Range(old.buffer) : logKey(y) = logKey(order[j])
      BY <1>5, <3>1
    <3>3. \A j \in 1..i : j = i \/ j \in 1..(i - 1)
      BY <1>1
    <3> HIDE DEF old, new
    <3>4. ASSUME NEW j \in 1..i PROVE \E y \in Range(new.buffer) : logKey(y) = logKey(order[j])
      BY <2>2, <2>5, <3>2, <3>3
    <3> QED
      BY <2>2, <2>5, <3>2, <3>4
  <2> QED
    BY <2>2, <2>4, <2>5
<1> HIDE DEF P
<1>6. ASSUME T # {} PROVE FALSE
  <2>0. T \subseteq Nat
    BY <1>1
  <2>1. PICK m \in T : \A k \in T : m <= k
    <3> HIDE DEF T
    <3> QED
      BY <1>6, <2>0, LeastElement
  <2>2. m \in 1..n /\ m - 1 \in 0..n /\ ~(m <= m - 1)
    BY <1>1, <1>4, <2>1
  <2>3. P(m - 1)
    BY <2>1, <2>2
  <2> QED
    BY <1>5, <2>1, <2>2, <2>3
<1>7. P(n)
  <2>1. n \in 0..n
    BY <1>1
  <2> QED
    BY <1>6, <2>1
<1> QED
  BY <1>1, <1>2, <1>7 DEF P

-----------------------------------------------------------------------------
\* Cutting the global id at its first ":" gives back the origin and the sensor.
LEMMA SplitsBack ==
  ASSUME ColonFree, NEW s \in Sensors, NEW n \in Nodes
  PROVE  splitGlobalSensorId(global_sensor_id(n, s)) = [origin |-> IdParts[n][1], sensorId |-> s]
<1> DEFINE q == IdParts[n] \o s
<1>1. IdParts[n] \in Seq(Parts) /\ s \in Seq(Parts) /\ Len(IdParts[n]) = 1
  BY LWWAssumption DEF ColonFree
<1>2. Tail(q) = s
  BY <1>1, TailOfConcat
<1>3. Len(s) \in Nat
  BY <1>1, LenProperties
<1>4. q \in Seq(Parts) /\ q[1] = IdParts[n][1]
  BY <1>1, <1>3, ConcatProperties
<1> HIDE DEF q
<1>5. Head(q) = q[1]
  BY <1>4
<1> QED
  BY <1>2, <1>4, <1>5 DEF splitGlobalSensorId, global_sensor_id, q

\* A row belongs to one sensor; a log key to one sensor and one stamp.
LEMMA EntryFacts ==
  ASSUME ColonFree, NEW s \in Sensors, NEW t \in Sensors, NEW r \in Record, NEW q \in Record
  PROVE  /\ Entry(s, r).rec = r
         /\ Entry(s, r).row = Entry(t, q).row => s = t
         /\ DistinctIds /\ logKey(Entry(s, r)) = logKey(Entry(t, q)) => s = t /\ SameStamp(r, q)
<1>1. r.origin \in Nodes /\ q.origin \in Nodes
  BY DEF Record
<1>2. /\ Entry(s, r).rec = r /\ Entry(t, q).rec = q
      /\ Entry(s, r).row = [origin |-> IdParts[r.origin][1], sensorId |-> s]
      /\ Entry(t, q).row = [origin |-> IdParts[q.origin][1], sensorId |-> t]
  BY <1>1, SplitsBack DEF Entry
<1>3. ASSUME Entry(s, r).row = Entry(t, q).row
      PROVE  s = t /\ IdParts[r.origin][1] = IdParts[q.origin][1]
  <2>1. /\ Entry(s, r).row.sensorId = s /\ Entry(s, r).row.origin = IdParts[r.origin][1]
        /\ Entry(t, q).row.sensorId = t /\ Entry(t, q).row.origin = IdParts[q.origin][1]
    BY <1>2
  <2> QED
    BY <1>3, <2>1
<1>4. ASSUME DistinctIds, logKey(Entry(s, r)) = logKey(Entry(t, q))
      PROVE  s = t /\ SameStamp(r, q)
  <2>1. Entry(s, r).row = Entry(t, q).row /\ r.ts_ms = q.ts_ms
    <3>1. /\ logKey(Entry(s, r)).row = Entry(s, r).row /\ logKey(Entry(s, r)).ts = r.ts_ms
          /\ logKey(Entry(t, q)).row = Entry(t, q).row /\ logKey(Entry(t, q)).ts = q.ts_ms
      BY <1>2 DEF logKey
    <3> QED
      BY <1>4, <3>1
  <2>2. IdParts[r.origin] = IdParts[q.origin]
    <3>1. /\ IdParts[r.origin] \in Seq(Parts) /\ Len(IdParts[r.origin]) = 1
          /\ IdParts[q.origin] \in Seq(Parts) /\ Len(IdParts[q.origin]) = 1
      BY <1>1, LWWAssumption DEF ColonFree
    <3>2. IdParts[r.origin][1] = IdParts[q.origin][1]
      BY <1>3, <2>1
    <3> QED
      BY <3>1, <3>2, SeqEqual
  <2> QED
    BY <1>1, <1>3, <1>4, <2>1, <2>2 DEF DistinctIds, SameStamp
<1> QED
  BY <1>2, <1>3, <1>4

\* What the page makes of the answer with the records of map.
Lines(map) == {Entry(s, map[s]) : s \in {t \in Sensors : map[t] # NoRecord}}

\* Normalising an answer gives the entries of the map, finitely many.
LEMMA NormalizeIs ==
  ASSUME NEW map \in [Sensors -> Slot]
  PROVE  /\ normalizeGroupedByOrigin(snapshot_grouped_for_ui(map)) = Lines(map)
         /\ Lines(map) \subseteq Entries /\ IsFiniteSet(Lines(map))
<1> DEFINE S == {t \in Sensors : map[t] # NoRecord}
           item(s) == [id |-> global_sensor_id(map[s].origin, s), rec |-> map[s]]
<1>1. \A s \in S : map[s] \in Record
  BY DEF Slot
<1>2. snapshot_grouped_for_ui(map) = {item(s) : s \in S}
  BY DEF snapshot_grouped_for_ui
<1>3. \A s \in S : [row |-> splitGlobalSensorId(item(s).id), rec |-> item(s).rec] = Entry(s, map[s])
  BY DEF Entry
<1> HIDE DEF item
<1>4. normalizeGroupedByOrigin(snapshot_grouped_for_ui(map)) = Lines(map)
  BY <1>2, <1>3 DEF normalizeGroupedByOrigin, Lines
<1>5. Lines(map) \subseteq Entries
  BY <1>1 DEF Lines, Entries
<1>6. IsFiniteSet(Lines(map))
  <2> DEFINE f == [s \in S |-> Entry(s, map[s])]
  <2>1. f \in Surjection(S, Lines(map))
    BY DEF Lines, Surjection
  <2>2. IsFiniteSet(S)
    BY FS_Subset, WebAssumption
  <2> HIDE DEF f
  <2> QED
    BY <2>1, <2>2, FS_Surjection
<1> QED
  BY <1>4, <1>5, <1>6

\* An order of the entries of an answer has exactly those.
LEMMA OrderOf ==
  ASSUME NEW S, IsFiniteSet(S), NEW order \in SetToSeqs(S)
  PROVE  order \in Seq(S) /\ Range(order) = S
<1> DEFINE n == Cardinality(S)
<1>1. n \in Nat
  BY FS_CardinalityType
<1>2. order \in [1..n -> S] /\ \A i, j \in 1..n : i # j => order[i] # order[j]
  BY DEF SetToSeqs
<1>3. order \in Injection(1..n, S)
  BY <1>2 DEF Injection, IsInjective
<1>4. Cardinality(1..n) = n
  BY <1>1, FS_Interval
<1> HIDE DEF n
<1>5. order \in Surjection(1..n, S)
  BY <1>3, <1>4, FS_Injection DEF n
<1>6. order \in Seq(S)
  BY <1>1, <1>2, SeqDef
<1> QED
  BY <1>2, <1>5, <1>6 DEF Surjection, Range

-----------------------------------------------------------------------------
\* The types but for the rows, with the log's consistency.
Kept ==
  /\ state \in [Bases -> [Sensors -> Slot]] /\ updates_ui \in [Bases -> [Sensors -> Slot]]
  /\ base \in Bases /\ Polled /\ Logged
  /\ losses \in 0..MaxLosses /\ switches \in 0..MaxSwitches

\* A dict without keys is a map of records.
LEMMA EmptySlots == NoRecords \in [Sensors -> Slot]
BY DEF NoRecords, Slot

\* An empty log is good.
LEMMA EmptyLog ==
  ASSUME NEW log, log.buffer = <<>>, log.seen = {}
  PROVE  GoodLog(log)
<1>1. log.buffer \in Seq(Entries) /\ Len(log.buffer) = 0
  BY EmptySeq
<1>2. PICK b : b = log.buffer
  OBVIOUS
<1>3. Range(b) = {}
  <2>1. b \in Seq(Entries) /\ 1..Len(b) = {}
    BY <1>1, <1>2
  <2>2. Range(b) = {b[i] : i \in 1..Len(b)}
    BY <2>1, RangeIs
  <2> QED
    BY <2>1, <2>2
<1> QED
  BY <1>1, <1>2, <1>3, WebAssumption DEF GoodLog

\* A poll that waits for an answer asks a node.
LEMMA Waiting ==
  ASSUME Polled, NEW i \in Polls, NEW part \in {"state", "updates"}, polls[i][part] = Awaited
  PROVE  polls[i] # Idle /\ polls[i].at \in Bases
<1>1. Idle["state"] = Failed /\ Idle["updates"] = Failed
  BY DEF Idle
<1>2. polls[i] # Idle
  BY <1>1, WebAssumption
<1> QED
  BY <1>2 DEF Polled

\* One answer of a poll changes.
LEMMA AnswerEffect ==
  ASSUME Polled, NEW i \in Polls, NEW part \in {"state", "updates"}, NEW answer \in Part,
         polls[i] # Idle, polls' = [polls EXCEPT ![i] = [@ EXCEPT ![part] = answer]]
  PROVE  /\ Polled'
         /\ \A j \in Polls : j # i => polls'[j] = polls[j]
         /\ polls'[i].at = polls[i].at /\ polls[i].at \in Bases
         /\ polls'[i].state = IF part = "state" THEN answer ELSE polls[i].state
         /\ polls'[i].updates = IF part = "updates" THEN answer ELSE polls[i].updates
<1> DEFINE P == [at : Bases \cup {NoRecord}, state : Part, updates : Part]
           p == [polls[i] EXCEPT ![part] = answer]
<1>1. polls \in [Polls -> P] /\ polls[i] \in P /\ polls[i].at \in Bases
  BY DEF Polled
<1>2. /\ p \in P /\ p.at = polls[i].at
      /\ p.state = IF part = "state" THEN answer ELSE polls[i].state
      /\ p.updates = IF part = "updates" THEN answer ELSE polls[i].updates
  <2>1. CASE part = "state"
    BY <1>1, <2>1
  <2>2. CASE part = "updates"
    BY <1>1, <2>2
  <2> QED
    BY <2>1, <2>2
<1>3. polls' = [polls EXCEPT ![i] = p]
  OBVIOUS
<1> HIDE DEF p
<1>4. polls' \in [Polls -> P] /\ \A j \in Polls : polls'[j] = IF j = i THEN p ELSE polls[j]
  BY <1>1, <1>2, <1>3
<1> QED
  BY <1>1, <1>2, <1>4 DEF Polled

\* A slot is given a poll of node n, or emptied.
LEMMA SlotEffect ==
  ASSUME Polled, NEW i \in Polls, NEW p, p = Idle \/ \E n \in Bases : p = Sent(n),
         polls' = [polls EXCEPT ![i] = p]
  PROVE  Polled' /\ \A j \in Polls : polls'[j] = IF j = i THEN p ELSE polls[j]
<1> DEFINE P == [at : Bases \cup {NoRecord}, state : Part, updates : Part]
<1>1. polls \in [Polls -> P]
  BY DEF Polled
<1>2. p \in P /\ (p = Idle \/ p.at \in Bases)
  BY DEF Idle, Sent, Part
<1>3. polls' \in [Polls -> P] /\ \A j \in Polls : polls'[j] = IF j = i THEN p ELSE polls[j]
  BY <1>1, <1>2
<1> QED
  BY <1>2, <1>3 DEF Polled

\* What a poll does to the page when it ends.
LEMMA PollEndsEffect ==
  ASSUME Kept, NEW i \in Polls, poll_ends(i)
  PROVE  /\ polls' = [polls EXCEPT ![i] = Idle] /\ polls[i] # Idle
         /\ UNCHANGED <<state, updates_ui, base, losses, switches>>
         /\ \/ /\ Failed \in {polls[i].state, polls[i].updates}
               /\ UNCHANGED <<rows, logSeen, logBuffer>>
            \/ \E ms, mu \in [Sensors -> Slot] :
                  /\ polls[i].updates = snapshot_grouped_for_ui(mu)
                  /\ rows' = renderState(rows, Lines(ms), Lines(mu))
                  /\ GoodLog(Log')
                  /\ Range(logBuffer') \subseteq Range(logBuffer) \cup Lines(mu)
                  /\ Len(logBuffer') < LogMax =>
                        /\ Len(logBuffer) < LogMax
                        /\ Range(logBuffer) \subseteq Range(logBuffer')
                        /\ \A x \in Lines(mu) : \E y \in Range(logBuffer') : logKey(y) = logKey(x)
<1>1. /\ polls' = [polls EXCEPT ![i] = Idle] /\ polls[i] # Idle
      /\ UNCHANGED <<state, updates_ui, base, losses, switches>>
      /\ Awaited \notin {polls[i].state, polls[i].updates}
  BY DEF poll_ends, bounds
<1>2. CASE Failed \in {polls[i].state, polls[i].updates}
  BY <1>1, <1>2 DEF poll_ends, page
<1>3. CASE Failed \notin {polls[i].state, polls[i].updates}
  <2>1. polls[i].state \in Part /\ polls[i].updates \in Part
    BY DEF Kept, Polled
  <2>2. PICK ms \in [Sensors -> Slot] : polls[i].state = snapshot_grouped_for_ui(ms)
    BY <1>1, <1>3, <2>1 DEF Part, Payloads
  <2>3. PICK mu \in [Sensors -> Slot] : polls[i].updates = snapshot_grouped_for_ui(mu)
    BY <1>1, <1>3, <2>1 DEF Part, Payloads
  <2>4. /\ normalizeGroupedByOrigin(polls[i].state) = Lines(ms)
        /\ normalizeGroupedByOrigin(polls[i].updates) = Lines(mu)
        /\ Lines(mu) \subseteq Entries /\ IsFiniteSet(Lines(mu))
    BY <2>2, <2>3, NormalizeIs
  <2>5. /\ rows' = renderState(rows, Lines(ms), Lines(mu))
        /\ \E order \in SetToSeqs(Lines(mu)) :
              logSeen' = pushAll(Log, order).seen /\ logBuffer' = pushAll(Log, order).buffer
    BY <1>3, <2>4 DEF poll_ends, Log
  <2>6. PICK order \in SetToSeqs(Lines(mu)) :
           logSeen' = pushAll(Log, order).seen /\ logBuffer' = pushAll(Log, order).buffer
    BY <2>5
  <2>7. order \in Seq(Entries) /\ Range(order) = Lines(mu)
    BY <2>4, OrderOf, SeqMonotonic
  <2> DEFINE new == pushAll(Log, order)
  <2>8. GoodLog(Log) /\ Log.buffer = logBuffer
    BY DEF Kept, Logged, Log
  <2>9. /\ GoodLog(new)
        /\ Range(new.buffer) \subseteq Range(Log.buffer) \cup Range(order)
        /\ Len(new.buffer) < LogMax =>
              /\ Len(Log.buffer) < LogMax
              /\ Range(Log.buffer) \subseteq Range(new.buffer)
              /\ \A x \in Range(order) : \E y \in Range(new.buffer) : logKey(y) = logKey(x)
    BY <2>7, <2>8, PushAllEffect
  <2>10. Log'.buffer = new.buffer /\ Log'.seen = new.seen /\ logBuffer' = new.buffer
    BY <2>6 DEF Log
  <2> HIDE DEF new
  <2>11. GoodLog(Log')
    BY <2>9, <2>10 DEF GoodLog
  <2> QED
    BY <1>1, <2>3, <2>5, <2>7, <2>8, <2>9, <2>10, <2>11
<1> QED
  BY <1>2, <1>3

\* Every step of nodes and page keeps types and log.
LEMMA KeptStep ==
  ASSUME Kept, [Next]_vars
  PROVE  Kept'
<1>1. CASE UNCHANGED vars
  BY <1>1 DEF vars, page, bounds, Kept, Polled, Logged, Log
<1>2. ASSUME NEW x \in Readings, merge_update(x[1], x[2], x[3]) PROVE Kept'
  <2>1. x[1] \in Bases /\ x[2] \in Sensors /\ x[3] \in Slot
    BY WebAssumption DEF Slot
  <2>2. /\ state' \in [Bases -> [Sensors -> Slot]] /\ updates_ui' \in [Bases -> [Sensors -> Slot]]
    BY <1>2, <2>1 DEF merge_update, Kept
  <2>3. UNCHANGED <<base, polls, logSeen, logBuffer, losses, switches>>
    BY <1>2 DEF merge_update, page, bounds
  <2> QED
    BY <2>2, <2>3 DEF Kept, Polled, Logged, Log
<1>3. ASSUME NEW i \in Polls, handle_state(i) PROVE Kept'
  <2>1. polls[i] # Idle /\ polls[i].at \in Bases
    BY <1>3, Waiting DEF handle_state, Answer, Kept
  <2>2. snapshot_grouped_for_ui(state[polls[i].at]) \in Part
    BY <2>1 DEF Kept, Part, Payloads
  <2>3. Polled'
    BY <1>3, <2>1, <2>2, AnswerEffect DEF handle_state, Answer, Kept
  <2> QED
    BY <1>3, <2>3 DEF handle_state, Kept, Logged, Log, page, bounds
<1>4. ASSUME NEW i \in Polls, handle_updates(i) PROVE Kept'
  <2>1. polls[i] # Idle /\ polls[i].at \in Bases
    BY <1>4, Waiting DEF handle_updates, Answer, Kept
  <2>2. snapshot_grouped_for_ui(updates_ui[polls[i].at]) \in Part
    BY <2>1 DEF Kept, Part, Payloads
  <2>3. Polled'
    BY <1>4, <2>1, <2>2, AnswerEffect DEF handle_updates, Answer, Kept
  <2>4. updates_ui' \in [Bases -> [Sensors -> Slot]]
    BY <1>4, <2>1, EmptySlots DEF handle_updates, Kept
  <2> QED
    BY <1>4, <2>3, <2>4 DEF handle_updates, Kept, Logged, Log, page, bounds
<1>5. ASSUME NEW i \in Polls, poll(i) PROVE Kept'
  <2>1. Polled'
    BY <1>5, SlotEffect DEF poll, Kept
  <2> QED
    BY <1>5, <2>1 DEF poll, Kept, Logged, Log, page, bounds
<1>6. ASSUME NEW i \in Polls, poll_ends(i) PROVE Kept'
  <2>1. Polled'
    BY <1>6, PollEndsEffect, SlotEffect DEF Kept
  <2>2. Logged'
    BY <1>6, PollEndsEffect DEF Kept, Logged, Log
  <2>3. UNCHANGED <<state, updates_ui, base, losses, switches>>
    BY <1>6, PollEndsEffect
  <2> QED
    BY <2>1, <2>2, <2>3 DEF Kept
<1>7. ASSUME NEW i \in Polls, NEW part \in {"state", "updates"}, fail(i, part) PROVE Kept'
  <2>1. Polled'
    BY <1>7, AnswerEffect DEF fail, Kept, Part
  <2>2. losses' \in 0..MaxLosses
    BY <1>7, WebAssumption DEF fail, Kept
  <2> QED
    BY <1>7, <2>1, <2>2 DEF fail, Kept, Logged, Log, page
<1>8. ASSUME NEW n \in Bases, other_client(n) PROVE Kept'
  <2>1. updates_ui' \in [Bases -> [Sensors -> Slot]] /\ losses' \in 0..MaxLosses
    BY <1>8, EmptySlots, WebAssumption DEF other_client, Kept
  <2> QED
    BY <1>8, <2>1 DEF other_client, Kept, Polled, Logged, Log, page
<1>9. ASSUME NEW n \in Bases, NEW i \in Polls, start(n, i) PROVE Kept'
  <2>1. Polled'
    BY <1>9, SlotEffect DEF start, Kept
  <2>2. switches' \in 0..MaxSwitches
    BY <1>9, WebAssumption DEF start, Kept
  <2>3. Logged'
    <3>1. Log'.buffer = <<>> /\ Log'.seen = {}
      BY <1>9 DEF start, resetUI, Log
    <3> QED
      BY <3>1, EmptyLog DEF Logged
  <2> QED
    BY <1>9, <2>1, <2>2, <2>3 DEF start, Kept
<1> QED
  BY <1>1, <1>2, <1>3, <1>4, <1>5, <1>6, <1>7, <1>8, <1>9 DEF Next, answers

\* They hold when the page is loaded.
LEMMA KeptInit == Init => Kept
<1> SUFFICES ASSUME Init PROVE Kept
  OBVIOUS
<1>1. state \in [Bases -> [Sensors -> Slot]] /\ updates_ui \in [Bases -> [Sensors -> Slot]]
  BY EmptySlots DEF Init
<1>2. Polled
  BY DEF Init, Polled, Idle, Part
<1>3. Logged
  <2>1. Log.buffer = <<>> /\ Log.seen = {}
    BY DEF Init, Log
  <2> QED
    BY <2>1, EmptyLog DEF Logged
<1> QED
  BY <1>1, <1>2, <1>3, WebAssumption DEF Init, Kept

\* Polls and answers keep their form, and the log never exceeds LOG_MAX nor
\* disagrees with the keys seen.
THEOREM Inductive == Spec => []Kept
<1>1. Kept /\ [Next]_vars => Kept'
  BY KeptStep
<1> QED
  BY <1>1, KeptInit, PTL DEF Spec

\* logSeen and logBuffer agree, whatever was trimmed, reset or repeated.
THEOREM LogStaysConsistent == Spec => []LogConsistent
<1>1. Kept => LogConsistent
  BY DEF Kept, Logged, GoodLog, Log, LogConsistent
<1> QED
  BY <1>1, Inductive, PTL

-----------------------------------------------------------------------------
\* A row of the page is one entry's.
Rows == rows \subseteq Entries /\ \A x, y \in rows : x.row = y.row => x = y

\* Every step keeps one entry per row.
LEMMA RowsStep ==
  ASSUME ColonFree, Kept, Rows, [Next]_vars
  PROVE  Rows'
<1>1. CASE UNCHANGED rows
  BY <1>1 DEF Rows
<1>2. CASE rows' = {}
  BY <1>2 DEF Rows
<1>3. ASSUME NEW ms \in [Sensors -> Slot], NEW mu, rows' = renderState(rows, Lines(ms), mu)
      PROVE  Rows'
  <2> DEFINE st == Lines(ms)
  <2>1. rows' = {x \in rows : \A y \in st : y.row # x.row} \cup st
    BY <1>3 DEF renderState
  <2>2. st \subseteq Entries
    BY NormalizeIs
  <2>3. ASSUME NEW x \in st, NEW y \in st, x.row = y.row PROVE x = y
    <3>1. PICK s \in Sensors : ms[s] # NoRecord /\ x = Entry(s, ms[s])
      BY DEF Lines
    <3>2. PICK t \in Sensors : ms[t] # NoRecord /\ y = Entry(t, ms[t])
      BY DEF Lines
    <3>3. ms[s] \in Record /\ ms[t] \in Record
      BY <3>1, <3>2 DEF Slot
    <3>4. s = t
      BY <2>3, <3>1, <3>2, <3>3, EntryFacts
    <3> QED
      BY <3>1, <3>2, <3>4
  <2> HIDE DEF st
  <2> QED
    BY <2>1, <2>2, <2>3 DEF Rows
<1>4. ASSUME NEW i \in Polls, poll_ends(i) PROVE Rows'
  BY <1>1, <1>3, <1>4, PollEndsEffect
<1>5. ASSUME NEW n \in Bases, NEW i \in Polls, start(n, i) PROVE Rows'
  BY <1>2, <1>5 DEF start, resetUI
<1>6. ASSUME NEW i \in Polls, answers(i) \/ poll(i) PROVE Rows'
  BY <1>1, <1>6 DEF answers, handle_state, handle_updates, poll, page
<1>7. ASSUME NEW x \in Readings, merge_update(x[1], x[2], x[3]) PROVE Rows'
  BY <1>1, <1>7 DEF merge_update, page
<1>8. ASSUME NEW i \in Polls, NEW part \in {"state", "updates"}, fail(i, part) PROVE Rows'
  BY <1>1, <1>8 DEF fail, page
<1>9. ASSUME NEW n \in Bases, other_client(n) PROVE Rows'
  BY <1>1, <1>9 DEF other_client, page
<1>10. CASE UNCHANGED vars
  BY <1>1, <1>10 DEF vars, page
<1> QED
  BY <1>4, <1>5, <1>6, <1>7, <1>8, <1>9, <1>10 DEF Next

\* The types: with no ":" in a NODE_ID a row never shows two records.
THEOREM Typed ==
  ASSUME ColonFree
  PROVE  Spec => []TypeOK
<1>1. Init => Rows
  BY DEF Init, Rows
<1>2. Kept /\ Rows /\ [Next]_vars => Rows'
  BY RowsStep
<1>3. Kept /\ Rows => TypeOK
  <2> SUFFICES ASSUME Kept, Rows PROVE TypeOK
    OBVIOUS
  <2>1. \A x \in Entries : x.rec \in Record
    BY DEF Entries, Entry
  <2>2. \A x \in rows : x.rec \in Record /\ \A y \in rows : x.row = y.row => x = y
    BY <2>1 DEF Rows
  <2>3. Len(logBuffer) <= LogMax
    BY DEF Kept, Logged, GoodLog, Log
  <2>4. \A i \in Polls : polls[i] = Idle \/ polls[i].at \in Bases
    BY DEF Kept, Polled
  <2> QED
    BY <2>2, <2>3, <2>4 DEF Kept, TypeOK
<1> QED
  BY <1>1, <1>2, <1>3, Inductive, PTL DEF Spec

-----------------------------------------------------------------------------
\* An entry is in an answer when the record is in the map the answer was made of.
LEMMA InLines ==
  ASSUME ColonFree, NEW map \in [Sensors -> Slot], NEW s \in Sensors, NEW r \in Record
  PROVE  Entry(s, r) \in Lines(map) <=> map[s] = r
<1>1. ASSUME map[s] = r PROVE Entry(s, r) \in Lines(map)
  BY <1>1, RecordFields DEF Lines
<1>2. ASSUME Entry(s, r) \in Lines(map) PROVE map[s] = r
  <2>1. PICK t \in Sensors : map[t] # NoRecord /\ Entry(s, r) = Entry(t, map[t])
    BY <1>2 DEF Lines
  <2>2. map[t] \in Record
    BY <2>1 DEF Slot
  <2>3. s = t /\ r = map[t]
    BY <2>1, <2>2, EntryFacts
  <2> QED
    BY <2>3
<1> QED
  BY <1>1, <1>2

\* Coherent needs checking only for the records that are new to it.
LEMMA CoherentKept ==
  ASSUME Coherent, switches' = 0 => switches = 0,
         switches' = 0 => base' = base /\ state'[base'] = state[base],
         switches' = 0 => \A s \in Sensors, r \in Record : Past(s, r)' => Past(s, r)
  PROVE  Coherent'
<1> SUFFICES ASSUME switches' = 0, NEW s \in Sensors, NEW r \in Record, Past(s, r)'
             PROVE  /\ covers(state'[base'][s], r)
                    /\ \A q \in Record : Past(s, q)' /\ SameStamp(r, q) => r = q
  BY DEF Coherent
<1>1. Past(s, r) /\ switches = 0 /\ state'[base'][s] = state[base][s]
  OBVIOUS
<1>2. covers(state[base][s], r)
  BY <1>1 DEF Coherent
<1>3. ASSUME NEW q \in Record, Past(s, q)', SameStamp(r, q) PROVE r = q
  <2>1. Past(s, q)
    BY <1>3
  <2> QED
    BY <1>1, <1>3, <2>1 DEF Coherent
<1> QED
  BY <1>1, <1>2, <1>3

\* What a step does to the entries the polls carry, when it leaves the log.
LEMMA PastOf ==
  ASSUME UNCHANGED logBuffer, base' = base, NEW s \in Sensors, NEW r \in Record, Past(s, r)',
         state'[base][s] = r => Past(s, r), updates_ui'[base][s] = r => Past(s, r),
         \A i \in Polls : Carries(i, Entry(s, r))' => Past(s, r)
  PROVE  Past(s, r)
BY DEF Past

\* A merge brings a record that is newer than all of the past; reading, clearing
\* and logging only move records.
LEMMA CoherentStep ==
  ASSUME ColonFree, Kept, Loyal, Coherent, [Next]_vars
  PROVE  Coherent'
<1>1. CASE UNCHANGED vars
  <2>1. UNCHANGED <<state, updates_ui, base, polls, logBuffer, switches>>
    BY <1>1 DEF vars, page, bounds
  <2> QED
    BY <2>1, CoherentKept DEF Past, Carries
<1>2. ASSUME NEW x \in Readings, merge_update(x[1], x[2], x[3]) PROVE Coherent'
  <2>0. PICK n \in Bases, s0 \in Sensors, u \in Record : n = x[1] /\ s0 = x[2] /\ u = x[3]
    BY WebAssumption
  <2>1. /\ newer(u, state[n][s0])
        /\ state' = [state EXCEPT ![n][s0] = u] /\ updates_ui' = [updates_ui EXCEPT ![n][s0] = u]
        /\ UNCHANGED <<base, polls, logBuffer, switches>>
    BY <1>2, <2>0 DEF merge_update, covers, page, bounds
  <2>2. \A m \in Bases, s \in Sensors :
           /\ state'[m][s] = IF m = n /\ s = s0 THEN u ELSE state[m][s]
           /\ updates_ui'[m][s] = IF m = n /\ s = s0 THEN u ELSE updates_ui[m][s]
    BY <2>1 DEF Kept
  <2>3. base \in Bases /\ state[base] \in [Sensors -> Slot]
    BY DEF Kept
  <2>4. ASSUME NEW s \in Sensors, NEW r \in Record, Past(s, r)'
        PROVE  Past(s, r) \/ (n = base /\ s = s0 /\ r = u)
    BY <2>1, <2>2, <2>3, <2>4 DEF Past, Carries
  <2>5. SUFFICES ASSUME switches' = 0, NEW s \in Sensors, NEW r \in Record, Past(s, r)'
                 PROVE  /\ covers(state'[base'][s], r)
                        /\ \A q \in Record : Past(s, q)' /\ SameStamp(r, q) => r = q
    BY DEF Coherent
  <2>6. switches = 0 /\ base' = base
    BY <2>1, <2>5
  <2>7. CASE n = base /\ s = s0
    <3>1. ASSUME NEW q \in Record, Past(s, q) PROVE covers(u, q) /\ ~SameStamp(u, q)
      <4>1. covers(state[base][s], q)
        BY <2>6, <3>1 DEF Coherent
      <4>2. state[base][s] \in Record
        BY <2>3, <4>1, EmptyCoversNothing DEF Slot
      <4>3. newer(u, state[base][s])
        BY <2>1, <2>7
      <4>4. covers(u, state[base][s])
        BY <4>2, <4>3, NewerCovers
      <4>5. covers(u, q)
        BY <4>1, <4>2, <4>4, CoversTransitive DEF Slot
      <4>6. ~SameStamp(u, q)
        BY <4>1, <4>3, NewerByStamp DEF covers
      <4> QED
        BY <4>5, <4>6
    <3>2. state'[base'][s] = u
      BY <2>2, <2>3, <2>6, <2>7
    <3>3. covers(u, r)
      BY <2>4, <2>5, <3>1, CoversItself
    <3>4. ASSUME NEW q \in Record, Past(s, q)', SameStamp(r, q) PROVE r = q
      <4>1. r = u \/ Past(s, r)
        BY <2>4, <2>5
      <4>2. q = u \/ Past(s, q)
        BY <2>4, <3>4
      <4>3. SameStamp(q, r)
        BY <3>4 DEF SameStamp
      <4>4. CASE r = u /\ q = u
        BY <4>4
      <4>5. CASE r = u /\ Past(s, q)
        BY <3>1, <3>4, <4>5
      <4>6. CASE Past(s, r) /\ q = u
        BY <3>1, <4>3, <4>6
      <4>7. CASE Past(s, r) /\ Past(s, q)
        BY <2>6, <3>4, <4>7 DEF Coherent
      <4> QED
        BY <4>1, <4>2, <4>4, <4>5, <4>6, <4>7
    <3> QED
      BY <3>2, <3>3, <3>4
  <2>8. CASE ~(n = base /\ s = s0)
    <3>1. state'[base'][s] = state[base][s]
      BY <2>2, <2>3, <2>6, <2>8
    <3>2. \A q \in Record : Past(s, q)' => Past(s, q)
      BY <2>4, <2>8
    <3>3. covers(state[base][s], r)
      BY <2>5, <2>6, <3>2 DEF Coherent
    <3>4. ASSUME NEW q \in Record, Past(s, q)', SameStamp(r, q) PROVE r = q
      BY <2>5, <2>6, <3>2, <3>4 DEF Coherent
    <3> QED
      BY <3>1, <3>3, <3>4
  <2> QED
    BY <2>7, <2>8
<1>3. ASSUME NEW i \in Polls, handle_state(i) PROVE Coherent'
  <2>1. UNCHANGED <<state, updates_ui, base, logBuffer, switches>>
    BY <1>3 DEF handle_state, page, bounds
  <2>2. \A j \in Polls : polls'[j].updates = polls[j].updates
    <3>1. polls[i] # Idle /\ polls[i].at \in Bases
      BY <1>3, Waiting DEF handle_state, Answer, Kept
    <3>2. snapshot_grouped_for_ui(state[polls[i].at]) \in Part
      BY <3>1 DEF Kept, Part, Payloads
    <3> QED
      BY <1>3, <3>1, <3>2, AnswerEffect DEF handle_state, Answer, Kept
  <2>3. ASSUME NEW s \in Sensors, NEW r \in Record, Past(s, r)' PROVE Past(s, r)
    BY <2>1, <2>2, <2>3 DEF Past, Carries
  <2> QED
    BY <2>1, <2>3, CoherentKept
<1>4. ASSUME NEW i \in Polls, handle_updates(i) PROVE Coherent'
  <2>1. UNCHANGED <<state, base, logBuffer, switches>>
    BY <1>4 DEF handle_updates, page, bounds
  <2>2. polls[i] # Idle /\ polls[i].at \in Bases
    BY <1>4, Waiting DEF handle_updates, Answer, Kept
  <2> DEFINE map == updates_ui[polls[i].at]
  <2>3. map \in [Sensors -> Slot] /\ snapshot_grouped_for_ui(map) \in Part
    BY <2>2 DEF Kept, Part, Payloads
  <2>4. /\ \A j \in Polls : j # i => polls'[j] = polls[j]
        /\ polls'[i].updates = snapshot_grouped_for_ui(map)
    <3>1. Polled /\ polls' = [polls EXCEPT ![i] = [@ EXCEPT !["updates"] = snapshot_grouped_for_ui(map)]]
      BY <1>4 DEF handle_updates, Answer, Kept
    <3> HIDE DEF map
    <3> QED
      BY <2>2, <2>3, <3>1, AnswerEffect
  <2>5. updates_ui' = [updates_ui EXCEPT ![polls[i].at] = NoRecords]
    BY <1>4 DEF handle_updates
  <2>6. ASSUME switches' = 0, NEW s \in Sensors, NEW r \in Record, Past(s, r)' PROVE Past(s, r)
    <3>1. polls[i].at = base
      BY <2>1, <2>2, <2>6 DEF Loyal
    <3>2. updates_ui'[base][s] = NoRecord /\ r # NoRecord
      BY <2>2, <2>5, <3>1, RecordFields DEF Kept, NoRecords
    <3>3. Carries(i, Entry(s, r))' => Past(s, r)
      <4>1. Carries(i, Entry(s, r))' => Entry(s, r) \in normalizeGroupedByOrigin(snapshot_grouped_for_ui(map))
        BY <2>4 DEF Carries
      <4>2. Entry(s, r) \in normalizeGroupedByOrigin(snapshot_grouped_for_ui(map)) => map[s] = r
        <5> HIDE DEF map
        <5> QED
          BY <2>3, NormalizeIs, InLines
      <4> QED
        BY <3>1, <4>1, <4>2 DEF Past
    <3>4. \A j \in Polls : Carries(j, Entry(s, r))' => Past(s, r)
      BY <2>4, <3>3 DEF Carries, Past
    <3>5. state'[base][s] = r => Past(s, r)
      BY <2>1 DEF Past
    <3> QED
      BY <2>1, <2>6, <3>2, <3>4, <3>5, PastOf
  <2> QED
    BY <2>1, <2>6, CoherentKept
<1>5. ASSUME NEW i \in Polls, poll(i) PROVE Coherent'
  <2>1. UNCHANGED <<state, updates_ui, base, logBuffer, switches>>
    BY <1>5 DEF poll, page, bounds
  <2>2. \A j \in Polls : polls'[j] = IF j = i THEN Sent(base) ELSE polls[j]
    BY <1>5, SlotEffect DEF poll, Kept
  <2>3. \A j \in Polls : polls'[j].updates = polls[j].updates \/ polls'[j].updates = Awaited
    BY <2>2 DEF Sent
  <2>4. ASSUME NEW s \in Sensors, NEW r \in Record, Past(s, r)' PROVE Past(s, r)
    BY <2>1, <2>3, <2>4 DEF Past, Carries
  <2> QED
    BY <2>1, <2>4, CoherentKept
<1>6. ASSUME NEW i \in Polls, poll_ends(i) PROVE Coherent'
  <2>1. UNCHANGED <<state, updates_ui, base, switches>> /\ polls' = [polls EXCEPT ![i] = Idle]
    BY <1>6, PollEndsEffect
  <2>2. \A j \in Polls : polls'[j] = IF j = i THEN Idle ELSE polls[j]
    BY <2>1, SlotEffect DEF Kept
  <2>3. \A j \in Polls : polls'[j].updates = polls[j].updates \/ polls'[j].updates = Failed
    BY <2>2 DEF Idle
  <2>4. ASSUME NEW y \in Range(logBuffer') PROVE y \in Range(logBuffer) \/ Carries(i, y)
    <3>1. CASE UNCHANGED logBuffer
      BY <3>1
    <3>2. ASSUME NEW mu \in [Sensors -> Slot], polls[i].updates = snapshot_grouped_for_ui(mu),
                 Range(logBuffer') \subseteq Range(logBuffer) \cup Lines(mu)
          PROVE  y \in Range(logBuffer) \/ Carries(i, y)
      BY <3>2, NormalizeIs, AnswerAssumption DEF Carries
    <3> QED
      BY <1>6, <3>1, <3>2, PollEndsEffect
  <2>5. ASSUME NEW s \in Sensors, NEW r \in Record, Past(s, r)' PROVE Past(s, r)
    BY <2>1, <2>3, <2>4, <2>5 DEF Past, Carries
  <2> QED
    BY <2>1, <2>5, CoherentKept
<1>7. ASSUME NEW i \in Polls, NEW part \in {"state", "updates"}, fail(i, part) PROVE Coherent'
  <2>1. UNCHANGED <<state, updates_ui, base, logBuffer, switches>>
    BY <1>7 DEF fail, page
  <2>2. \A j \in Polls : polls'[j].updates = polls[j].updates \/ polls'[j].updates = Failed
    BY <1>7, AnswerEffect DEF fail, Kept, Part
  <2>3. ASSUME NEW s \in Sensors, NEW r \in Record, Past(s, r)' PROVE Past(s, r)
    BY <2>1, <2>2, <2>3 DEF Past, Carries
  <2> QED
    BY <2>1, <2>3, CoherentKept
<1>8. ASSUME NEW n \in Bases, other_client(n) PROVE Coherent'
  <2>1. UNCHANGED <<state, base, polls, logBuffer, switches>>
    BY <1>8 DEF other_client, page
  <2>2. updates_ui' = [updates_ui EXCEPT ![n] = NoRecords]
    BY <1>8 DEF other_client
  <2>3. \A s \in Sensors : updates_ui'[base][s] = updates_ui[base][s] \/ updates_ui'[base][s] = NoRecord
    BY <2>2 DEF Kept, NoRecords
  <2>4. ASSUME NEW s \in Sensors, NEW r \in Record, Past(s, r)' PROVE Past(s, r)
    BY <2>1, <2>3, <2>4, RecordFields DEF Past, Carries
  <2> QED
    BY <2>1, <2>4, CoherentKept
<1>9. ASSUME NEW n \in Bases, NEW i \in Polls, start(n, i) PROVE Coherent'
  <2>1. switches' # 0
    BY <1>9, WebAssumption DEF start, Kept
  <2> QED
    BY <2>1 DEF Coherent
<1> QED
  BY <1>1, <1>2, <1>3, <1>4, <1>5, <1>6, <1>7, <1>8, <1>9 DEF Next, answers

\* Only a loss makes an answer fail, only start turns to another node.
LEMMA LoyalStep ==
  ASSUME Kept, Loyal, [Next]_vars
  PROVE  Loyal'
<1>0. losses \in Nat /\ switches \in Nat
  BY WebAssumption DEF Kept
<1>1. ASSUME UNCHANGED <<base, polls, switches>>, losses' = 0 => losses = 0 PROVE Loyal'
  BY <1>1 DEF Loyal
<1>2. CASE UNCHANGED vars
  BY <1>1, <1>2 DEF vars, bounds
<1>3. ASSUME NEW x \in Readings, merge_update(x[1], x[2], x[3]) PROVE Loyal'
  BY <1>1, <1>3 DEF merge_update, bounds
<1>4. ASSUME NEW i \in Polls, NEW part \in {"state", "updates"},
             NEW map \in [Sensors -> Slot], Answer(i, part, snapshot_grouped_for_ui(map)),
             UNCHANGED <<base, losses, switches>>
      PROVE  Loyal'
  <2> DEFINE answer == snapshot_grouped_for_ui(map)
  <2>1. polls[i] # Idle
    BY <1>4, Waiting DEF Answer, Kept
  <2>2. answer \in Part /\ answer # Failed
    BY AnswerAssumption DEF Part, Payloads
  <2>3. polls' = [polls EXCEPT ![i] = [@ EXCEPT ![part] = answer]] /\ Polled
    BY <1>4 DEF Answer, Kept
  <2> HIDE DEF answer
  <2>4. /\ \A j \in Polls : j # i => polls'[j] = polls[j]
        /\ polls'[i].at = polls[i].at
        /\ polls'[i].state = IF part = "state" THEN answer ELSE polls[i].state
        /\ polls'[i].updates = IF part = "updates" THEN answer ELSE polls[i].updates
    BY <2>1, <2>2, <2>3, AnswerEffect
  <2>5. Idle' = Idle
    BY DEF Idle
  <2> QED
    BY <1>4, <2>1, <2>2, <2>4, <2>5 DEF Loyal
<1>5. ASSUME NEW i \in Polls, handle_state(i) PROVE Loyal'
  <2>1. state[polls[i].at] \in [Sensors -> Slot]
    BY <1>5, Waiting DEF handle_state, Answer, Kept
  <2> QED
    BY <1>4, <1>5, <2>1 DEF handle_state, bounds
<1>6. ASSUME NEW i \in Polls, handle_updates(i) PROVE Loyal'
  <2>1. updates_ui[polls[i].at] \in [Sensors -> Slot]
    BY <1>6, Waiting DEF handle_updates, Answer, Kept
  <2> QED
    BY <1>4, <1>6, <2>1 DEF handle_updates, bounds
<1>7. ASSUME NEW i \in Polls, poll(i) PROVE Loyal'
  <2>1. \A j \in Polls : polls'[j] = IF j = i THEN Sent(base) ELSE polls[j]
    BY <1>7, SlotEffect DEF poll, Kept
  <2>2. UNCHANGED <<base, losses, switches>>
    BY <1>7 DEF poll, bounds
  <2>3. Sent(base).at = base /\ Sent(base).state = Awaited /\ Sent(base).updates = Awaited
    BY DEF Sent
  <2> QED
    BY <2>1, <2>2, <2>3, WebAssumption DEF Loyal
<1>8. ASSUME NEW i \in Polls, poll_ends(i) PROVE Loyal'
  <2>1. \A j \in Polls : polls'[j] = IF j = i THEN Idle ELSE polls[j]
    BY <1>8, PollEndsEffect, SlotEffect DEF Kept
  <2>2. UNCHANGED <<base, losses, switches>>
    BY <1>8, PollEndsEffect
  <2> QED
    BY <2>1, <2>2 DEF Loyal
<1>9. ASSUME NEW i \in Polls, NEW part \in {"state", "updates"}, fail(i, part) PROVE Loyal'
  <2>1. losses' # 0 /\ UNCHANGED <<base, switches>> /\ polls[i] # Idle
    BY <1>0, <1>9 DEF fail
  <2>2. \A j \in Polls : polls'[j].at = polls[j].at /\ (j # i => polls'[j] = polls[j])
    BY <1>9, AnswerEffect DEF fail, Kept, Part
  <2> QED
    BY <2>1, <2>2 DEF Loyal
<1>10. ASSUME NEW n \in Bases, other_client(n) PROVE Loyal'
  BY <1>0, <1>1, <1>10 DEF other_client
<1>11. ASSUME NEW n \in Bases, NEW i \in Polls, start(n, i) PROVE Loyal'
  <2>1. switches' # 0 /\ losses' = losses
    BY <1>0, <1>11 DEF start
  <2>2. \A j \in Polls : polls'[j] = IF j = i THEN Sent(n) ELSE polls[j]
    BY <1>11, SlotEffect DEF start, Kept
  <2>3. Sent(n).state = Awaited /\ Sent(n).updates = Awaited
    BY DEF Sent
  <2> QED
    BY <2>1, <2>2, <2>3, WebAssumption DEF Loyal
<1> QED
  BY <1>2, <1>3, <1>5, <1>6, <1>7, <1>8, <1>9, <1>10, <1>11 DEF Next, answers

\* Where the polled node's record of sensor s is, on its way to the log.
Found(s, r) ==
  \/ Entry(s, r) \in Range(logBuffer) \/ updates_ui[base][s] = r
  \/ \E i \in Polls : Carries(i, Entry(s, r))

\* A step may not lose sight of a record that was found.
LEMMA ReachedKept ==
  ASSUME Kept, Reached, losses' = 0 => losses = 0, switches' = 0 => switches = 0,
         losses' = 0 /\ switches' = 0 /\ Len(logBuffer') < LogMax =>
            /\ Len(logBuffer) < LogMax /\ base' = base
            /\ \A s \in Sensors :
                  \/ state'[base][s] = state[base][s]
                  \/ updates_ui'[base][s] = state'[base][s]
            /\ \A s \in Sensors, r \in Record :
                  state[base][s] = r /\ state'[base][s] = r /\ Found(s, r) => Found(s, r)'
  PROVE  Reached'
<1> SUFFICES ASSUME losses' = 0, switches' = 0, Len(logBuffer') < LogMax,
                    NEW s \in Sensors, state'[base'][s] # NoRecord
             PROVE  \/ Entry(s, state'[base'][s]) \in Range(logBuffer')
                    \/ updates_ui'[base'][s] = state'[base'][s]
                    \/ \E i \in Polls : Carries(i, Entry(s, state[base][s]))'
  BY DEF Reached
<1>1. /\ losses = 0 /\ switches = 0 /\ Len(logBuffer) < LogMax /\ base' = base
      /\ state'[base][s] = state[base][s] \/ updates_ui'[base][s] = state'[base][s]
  OBVIOUS
<1>2. CASE state'[base][s] = state[base][s]
  <2>1. PICK r \in Record : r = state[base][s]
    BY <1>1, <1>2 DEF Kept, Slot
  <2>2. Found(s, r)
    BY <1>1, <1>2, <2>1, RecordFields DEF Reached, Found
  <2>3. Found(s, r)'
    BY <1>1, <1>2, <2>1, <2>2
  <2> QED
    BY <1>1, <1>2, <2>1, <2>3 DEF Found, Carries
<1> QED
  BY <1>1, <1>2

\* A record that is read is in the answer, and one that is in an answer is logged:
\* a line with its key is that record.
LEMMA ReachedStep ==
  ASSUME ColonFree, DistinctIds, Kept, Loyal, Coherent, Reached, [Next]_vars
  PROVE  Reached'
<1>0. losses \in Nat /\ switches \in Nat
  BY WebAssumption DEF Kept
<1>1. CASE UNCHANGED vars
  <2>1. UNCHANGED <<state, updates_ui, base, polls, logBuffer, losses, switches>>
    BY <1>1 DEF vars, page, bounds
  <2> QED
    BY <2>1 DEF Reached, Carries
<1>2. ASSUME NEW x \in Readings, merge_update(x[1], x[2], x[3]) PROVE Reached'
  <2>0. PICK n \in Bases, s0 \in Sensors, u \in Record : n = x[1] /\ s0 = x[2] /\ u = x[3]
    BY WebAssumption
  <2>1. /\ state' = [state EXCEPT ![n][s0] = u] /\ updates_ui' = [updates_ui EXCEPT ![n][s0] = u]
        /\ UNCHANGED <<base, polls, logBuffer, losses, switches>>
    BY <1>2, <2>0 DEF merge_update, page, bounds
  <2>2. \A s \in Sensors :
           \/ state'[base][s] = state[base][s] /\ updates_ui'[base][s] = updates_ui[base][s]
           \/ updates_ui'[base][s] = state'[base][s]
    BY <2>1 DEF Kept
  <2>3. ASSUME NEW s \in Sensors, NEW r \in Record, state'[base][s] = r, Found(s, r)
        PROVE  Found(s, r)'
    BY <2>1, <2>2, <2>3 DEF Found, Carries
  <2> QED
    BY <2>1, <2>2, <2>3, ReachedKept
<1>3. ASSUME NEW i \in Polls, handle_state(i) PROVE Reached'
  <2>1. UNCHANGED <<state, updates_ui, base, logBuffer, losses, switches>>
    BY <1>3 DEF handle_state, page, bounds
  <2>2. \A j \in Polls : polls'[j].updates = polls[j].updates
    <3>1. polls[i] # Idle /\ polls[i].at \in Bases
      BY <1>3, Waiting DEF handle_state, Answer, Kept
    <3>2. snapshot_grouped_for_ui(state[polls[i].at]) \in Part
      BY <3>1 DEF Kept, Part, Payloads
    <3> QED
      BY <1>3, <3>1, <3>2, AnswerEffect DEF handle_state, Answer, Kept
  <2>3. ASSUME NEW s \in Sensors, NEW r \in Record, Found(s, r) PROVE Found(s, r)'
    BY <2>1, <2>2, <2>3 DEF Found, Carries
  <2> QED
    BY <2>1, <2>3, ReachedKept
<1>4. ASSUME NEW i \in Polls, handle_updates(i) PROVE Reached'
  <2>1. UNCHANGED <<state, base, logBuffer, losses, switches>>
    BY <1>4 DEF handle_updates, page, bounds
  <2>2. polls[i] # Idle /\ polls[i].at \in Bases
    BY <1>4, Waiting DEF handle_updates, Answer, Kept
  <2> DEFINE map == updates_ui[polls[i].at]
  <2>3. map \in [Sensors -> Slot] /\ snapshot_grouped_for_ui(map) \in Part
    BY <2>2 DEF Kept, Part, Payloads
  <2>4. /\ \A j \in Polls : j # i => polls'[j] = polls[j]
        /\ polls'[i].updates = snapshot_grouped_for_ui(map)
    <3>1. Polled /\ polls' = [polls EXCEPT ![i] = [@ EXCEPT !["updates"] = snapshot_grouped_for_ui(map)]]
      BY <1>4 DEF handle_updates, Answer, Kept
    <3> HIDE DEF map
    <3> QED
      BY <2>2, <2>3, <3>1, AnswerEffect
  <2>5. polls[i].updates = Awaited
    BY <1>4 DEF handle_updates, Answer
  <2>6. ASSUME switches' = 0, NEW s \in Sensors, NEW r \in Record, Found(s, r) PROVE Found(s, r)'
    <3>1. map = updates_ui[base]
      BY <2>1, <2>2, <2>6 DEF Loyal
    <3> HIDE DEF map
    <3>2. ASSUME map[s] = r PROVE Carries(i, Entry(s, r))'
      <4>1. Entry(s, r) \in normalizeGroupedByOrigin(snapshot_grouped_for_ui(map))
        BY <2>3, <3>2, NormalizeIs, InLines
      <4>2. snapshot_grouped_for_ui(map) \notin {Awaited, Failed}
        BY <2>3, AnswerAssumption
      <4> QED
        BY <2>4, <4>1, <4>2 DEF Carries
    <3>3. \A j \in Polls : Carries(j, Entry(s, r)) => Carries(j, Entry(s, r))'
      BY <2>4, <2>5 DEF Carries
    <3> QED
      BY <2>1, <2>6, <3>1, <3>2, <3>3 DEF Found
  <2> HIDE DEF map
  <2> QED
    BY <2>1, <2>6, ReachedKept
<1>5. ASSUME NEW i \in Polls, poll(i) PROVE Reached'
  <2>1. UNCHANGED <<state, updates_ui, base, logBuffer, losses, switches>>
    BY <1>5 DEF poll, page, bounds
  <2>2. \A j \in Polls : polls'[j] = IF j = i THEN Sent(base) ELSE polls[j]
    BY <1>5, SlotEffect DEF poll, Kept
  <2>3. polls[i].updates = Failed
    BY <1>5 DEF poll, Idle
  <2>4. ASSUME NEW s \in Sensors, NEW r \in Record, Found(s, r) PROVE Found(s, r)'
    BY <2>1, <2>2, <2>3, <2>4 DEF Found, Carries
  <2> QED
    BY <2>1, <2>4, ReachedKept
<1>6. ASSUME NEW i \in Polls, poll_ends(i) PROVE Reached'
  <2>1. UNCHANGED <<state, updates_ui, base, losses, switches>> /\ polls[i] # Idle
    BY <1>6, PollEndsEffect
  <2>2. \A j \in Polls : polls'[j] = IF j = i THEN Idle ELSE polls[j]
    BY <1>6, PollEndsEffect, SlotEffect DEF Kept
  <2>3. SUFFICES ASSUME losses' = 0, switches' = 0, Len(logBuffer') < LogMax
                 PROVE  /\ Len(logBuffer) < LogMax
                        /\ \A s \in Sensors, r \in Record : Found(s, r) => Found(s, r)'
    BY <2>1, ReachedKept
  <2>4. Failed \notin {polls[i].state, polls[i].updates}
    BY <2>1, <2>3 DEF Loyal
  <2>5. PICK mu \in [Sensors -> Slot] :
           /\ polls[i].updates = snapshot_grouped_for_ui(mu)
           /\ Range(logBuffer') \subseteq Range(logBuffer) \cup Lines(mu)
           /\ Len(logBuffer) < LogMax /\ Range(logBuffer) \subseteq Range(logBuffer')
           /\ \A x \in Lines(mu) : \E y \in Range(logBuffer') : logKey(y) = logKey(x)
    BY <1>6, <2>3, <2>4, PollEndsEffect
  <2>6. \A x : Carries(i, x) <=> x \in Lines(mu)
    BY <2>5, NormalizeIs, AnswerAssumption DEF Carries
  <2>7. ASSUME NEW s \in Sensors, NEW r \in Record, Carries(i, Entry(s, r))
        PROVE  Entry(s, r) \in Range(logBuffer')
    <3>1. PICK y \in Range(logBuffer') : logKey(y) = logKey(Entry(s, r))
      BY <2>5, <2>6, <2>7
    <3>2. y \in Range(logBuffer) \/ Carries(i, y)
      BY <2>5, <2>6
    <3>3. y \in Entries
      <4>1. logBuffer \in Seq(Entries)
        BY DEF Kept, Logged, GoodLog, Log
      <4> QED
        BY <2>5, <4>1, RangeIs, NormalizeIs
    <3>4. PICK t \in Sensors, q \in Record : y = Entry(t, q)
      BY <3>3 DEF Entries
    <3>5. t = s /\ SameStamp(r, q)
      BY <3>1, <3>4, EntryFacts
    <3>6. Past(s, q) /\ Past(s, r)
      BY <2>7, <3>2, <3>4, <3>5 DEF Past
    <3>7. r = q
      BY <2>1, <2>3, <3>5, <3>6 DEF Coherent
    <3> QED
      BY <3>4, <3>5, <3>7
  <2>8. ASSUME NEW s \in Sensors, NEW r \in Record, Found(s, r) PROVE Found(s, r)'
    <3>1. \A j \in Polls : j # i => (Carries(j, Entry(s, r)) => Carries(j, Entry(s, r))')
      BY <2>2 DEF Carries
    <3> QED
      BY <2>1, <2>5, <2>7, <2>8, <3>1 DEF Found
  <2> QED
    BY <2>5, <2>8
<1>7. ASSUME NEW i \in Polls, NEW part \in {"state", "updates"}, fail(i, part) PROVE Reached'
  BY <1>0, <1>7 DEF fail, Reached
<1>8. ASSUME NEW n \in Bases, other_client(n) PROVE Reached'
  BY <1>0, <1>8 DEF other_client, Reached
<1>9. ASSUME NEW n \in Bases, NEW i \in Polls, start(n, i) PROVE Reached'
  BY <1>0, <1>9 DEF start, Reached
<1> QED
  BY <1>1, <1>2, <1>3, <1>4, <1>5, <1>6, <1>7, <1>8, <1>9 DEF Next, answers

\* Reading, clearing, overlapping polls and the deletion of repeated keys lose no
\* reading: the key of a log line determines its record, since the polled node
\* never takes two records with one stamp.
THEOREM ReadingsArrive ==
  ASSUME ColonFree, DistinctIds
  PROVE  Spec => []ReadingsReachLog
<1>1. Init => Loyal /\ Coherent /\ Reached
  <2> SUFFICES ASSUME Init PROVE Loyal /\ Coherent /\ Reached
    OBVIOUS
  <2>1. base \in Bases /\ \A s \in Sensors : state[base][s] = NoRecord /\ updates_ui[base][s] = NoRecord
    BY DEF Init, NoRecords
  <2>2. \A i \in Polls : polls[i] = Idle /\ polls[i].updates = Failed
    BY DEF Init, Idle
  <2>3. Range(logBuffer) = {}
    <3>1. logBuffer \in Seq(Entries) /\ 1..Len(logBuffer) = {}
      BY EmptySeq DEF Init
    <3>2. Range(logBuffer) = {logBuffer[i] : i \in 1..Len(logBuffer)}
      BY <3>1, RangeIs
    <3> QED
      BY <3>1, <3>2
  <2>4. \A s \in Sensors, r \in Record : ~Past(s, r)
    BY <2>1, <2>2, <2>3, RecordFields DEF Past, Carries
  <2> QED
    BY <2>1, <2>2, <2>4 DEF Loyal, Coherent, Reached
<1>2. Kept /\ Loyal /\ Coherent /\ Reached /\ [Next]_vars => Loyal' /\ Coherent' /\ Reached'
  BY LoyalStep, CoherentStep, ReachedStep
<1>3. Kept /\ Reached => ReadingsReachLog
  <2> SUFFICES ASSUME Kept, Reached, losses = 0, switches = 0, Len(logBuffer) < LogMax,
                      NEW x \in normalizeGroupedByOrigin(snapshot_grouped_for_ui(state[base]))
               PROVE  \/ x \in Range(logBuffer)
                      \/ x \in normalizeGroupedByOrigin(snapshot_grouped_for_ui(updates_ui[base]))
                      \/ \E i \in Polls : /\ polls[i].updates \notin {Awaited, Failed}
                                          /\ x \in normalizeGroupedByOrigin(polls[i].updates)
    BY DEF ReadingsReachLog
  <2>1. state[base] \in [Sensors -> Slot] /\ updates_ui[base] \in [Sensors -> Slot]
    BY DEF Kept
  <2>2. PICK s \in Sensors : state[base][s] # NoRecord /\ x = Entry(s, state[base][s])
    BY <2>1, NormalizeIs DEF Lines
  <2>3. updates_ui[base][s] = state[base][s] => x \in Lines(updates_ui[base])
    BY <2>2 DEF Lines
  <2>4. normalizeGroupedByOrigin(snapshot_grouped_for_ui(updates_ui[base])) = Lines(updates_ui[base])
    BY <2>1, NormalizeIs
  <2> QED
    BY <2>2, <2>3, <2>4 DEF Reached, Carries
<1> QED
  BY <1>1, <1>2, <1>3, Inductive, PTL DEF Spec
=============================================================================
