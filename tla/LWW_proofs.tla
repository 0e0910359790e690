----------------------------- MODULE LWW_proofs -----------------------------
(***************************************************************************)
(* What the last-writer-wins order and the key conversion of LWW do, for   *)
(* every set of nodes, sensors and values.                                 *)
(***************************************************************************)
EXTENDS LWW, SequenceTheorems, TLAPS

\* A record is not the empty slot, and its stamp consists of naturals.
LEMMA RecordFields ==
  ASSUME NEW r \in Record
  PROVE  r # NoRecord /\ r.ts_ms \in Nat /\ r.origin \in Nat
<1>1. r # NoRecord
  BY NoRecordAssumption
<1>2. r.ts_ms \in Time /\ r.origin \in Nodes
  BY DEF Record
<1>3. Time \subseteq Nat /\ Nodes \subseteq Nat
  BY LWWAssumption DEF Time
<1> QED
  BY <1>1, <1>2, <1>3

\* The last-writer-wins order never prefers a record to itself.
LEMMA CoversItself ==
  ASSUME NEW r \in Record
  PROVE  covers(r, r)
BY RecordFields DEF covers, newer

\* An empty slot makes no record redundant.
LEMMA EmptyCoversNothing ==
  ASSUME NEW r \in Record
  PROVE  ~covers(NoRecord, r)
BY DEF covers, newer

\* What replaces a slot's content makes the old content redundant.
LEMMA NewerCovers ==
  ASSUME NEW r \in Record, NEW p \in Record, newer(r, p)
  PROVE  covers(r, p)
BY RecordFields DEF covers, newer

\* Redundancy is transitive: the last-writer-wins order is total on stamps.
LEMMA CoversTransitive ==
  ASSUME NEW a \in Slot, NEW b \in Record, NEW c \in Record,
         covers(a, b), covers(b, c)
  PROVE  covers(a, c)
<1>1. a \in Record
  BY EmptyCoversNothing DEF Slot
<1> QED
  BY <1>1, RecordFields DEF covers, newer

\* Two records that make each other redundant carry the same stamp.
LEMMA CoversBothWays ==
  ASSUME NEW a \in Record, NEW b \in Record, covers(a, b), covers(b, a)
  PROVE  SameStamp(a, b)
BY RecordFields DEF covers, newer, SameStamp

\* The merge decision looks at the stamp only.
LEMMA NewerByStamp ==
  ASSUME NEW a \in Record, NEW b \in Record, NEW p, SameStamp(a, b), newer(a, p)
  PROVE  newer(b, p)
BY DEF newer, SameStamp

\* Taking the tail undoes putting one element in front.
LEMMA TailOfConcat ==
  ASSUME NEW S, NEW p \in Seq(S), NEW s \in Seq(S), Len(p) = 1
  PROVE  Tail(p \o s) = s
<1> DEFINE q == p \o s
<1>1. Len(s) \in Nat /\ Len(p) \in Nat
  BY LenProperties
<1>2. q \in Seq(S) /\ Len(q) = Len(p) + Len(s)
  BY ConcatProperties
<1>3. \A i \in 1..(Len(p) + Len(s)) :
         q[i] = IF i <= Len(p) THEN p[i] ELSE s[i - Len(p)]
  BY ConcatProperties
<1> HIDE DEF q
<1>4. q # <<>>
  BY <1>1, <1>2, EmptySeq
<1>5. /\ Tail(q) \in Seq(S)
      /\ Len(Tail(q)) = Len(q) - 1
      /\ \A i \in 1..Len(Tail(q)) : Tail(q)[i] = q[i + 1]
  BY <1>2, <1>4, HeadTailProperties
<1>6. Len(Tail(q)) = Len(s)
  BY <1>1, <1>2, <1>5
<1>7. ASSUME NEW i \in 1..Len(s)
      PROVE  Tail(q)[i] = s[i]
  <2>1. Tail(q)[i] = q[i + 1]
    BY <1>5, <1>6
  <2>2. i + 1 \in 1..(Len(p) + Len(s)) /\ ~(i + 1 <= Len(p))
    BY <1>1
  <2>3. (i + 1) - Len(p) = i
    BY <1>1
  <2> QED
    BY <1>3, <2>1, <2>2, <2>3
<1>8. Tail(q) = s
  BY <1>5, <1>6, <1>7, SeqEqual
<1> QED
  BY <1>8 DEF q

\* Splitting at the first ":" gives the sensor id back when the origin's id
\* has no ":".
LEMMA KeyRoundTrip ==
  ASSUME ColonFree, NEW n \in Nodes, NEW s \in Sensors
  PROVE  published_id(n, s) = s
<1>1. IdParts[n] \in Seq(Parts) /\ s \in Seq(Parts) /\ Len(IdParts[n]) = 1
  BY LWWAssumption DEF ColonFree
<1> QED
  BY <1>1, TailOfConcat DEF published_id, local_sensor_id, global_sensor_id
=============================================================================
