----------------------------- MODULE SceneProofs -----------------------------
(****************************************************************************)
(* Lemmas about the operators of Scene and of the modules below it.         *)
(****************************************************************************)
EXTENDS Scene, SequenceTheorems, Lists

(* A store to which patches are applied is a store.                         *)
LEMMA ApplyType ==
  ASSUME NEW state \in State, NEW patches \in Patches
  PROVE  Apply(state, patches) \in State
BY DEF Apply, State, Patches

LEMMA ApplyAt ==
  ASSUME NEW state \in State, NEW patches \in Patches, NEW p \in Paths
  PROVE  /\ p \in DOMAIN patches => Apply(state, patches)[p] = patches[p]
         /\ p \notin DOMAIN patches => Apply(state, patches)[p] = state[p]
BY DEF Apply

LEMMA PatchesType ==
  ASSUME NEW patches \in Patches
  PROVE  /\ DOMAIN patches \in SUBSET Paths
         /\ \A p \in DOMAIN patches : patches[p] \in Values
BY DEF Patches

LEMMA SnapshotType ==
  ASSUME NEW S, NEW sc \in SceneRecord(S)
  PROVE  SnapshotOf(sc) \in Snapshot
BY DEF SceneRecord, SnapshotOf, Snapshot

LEMMA DeltaType ==
  ASSUME NEW S, NEW sc \in SceneRecord(S), NEW r \in Record
  PROVE  DeltaOf(sc, r) \in Delta
BY DEF SceneRecord, DeltaOf, Delta, Record

LEMMA CloseType ==
  ASSUME NEW F, NEW sub \in Pipe(F)
  PROVE  Close(sub) \in Pipe(F)
<1>. DEFINE q == IF IsFull(sub) THEN Tail(sub.queue) ELSE sub.queue
<1>1. sub.queue \in Seq(F \cup {Sentinel})
  BY DEF Pipe
<1>2. q \in Seq(F \cup {Sentinel})
  BY <1>1, QueueMaxAssumption DEF IsFull
<1>3. Append(q, Sentinel) \in Seq(F \cup {Sentinel})
  BY <1>2
<1>. HIDE DEF q
<1>4. [sub EXCEPT !.closed = TRUE, !.queue = Append(q, Sentinel)] \in Pipe(F)
  BY <1>3 DEF Pipe
<1>. QED  BY <1>4 DEF Close, q

LEMMA PipeOps ==
  ASSUME NEW F, NEW sub \in Pipe(F), NEW delta \in F, NEW snap \in F
  PROVE  /\ SendOrDrop(sub, snap) \in Pipe(F)
         /\ SendDelta(sub, delta, snap) \in Pipe(F)
         /\ Close(sub) \in Pipe(F)
<1>1. \A m \in F \cup {Sentinel} : PutNowait(sub, m) \in Pipe(F)
  BY DEF PutNowait, Pipe
<1>2. [sub EXCEPT !.stale = TRUE] \in Pipe(F)
  BY DEF Pipe
<1>3. SendOrDrop(sub, snap) \in Pipe(F)
  BY <1>1, <1>2 DEF SendOrDrop
<1>4. SendDelta(sub, delta, snap) \in Pipe(F)
  BY <1>1, <1>3 DEF SendDelta
<1>. QED  BY <1>3, <1>4, CloseType

LEMMA NewSubscriptionType ==
  ASSUME NEW F, NEW live \in BOOLEAN
  PROVE  NewSubscription(live) \in Pipe(F)
BY DEF NewSubscription, Pipe

LEMMA PushType ==
  ASSUME NEW R, NEW buffer \in Seq(R), NEW r \in R
  PROVE  Push(buffer, r) \in Seq(R) /\ Push(buffer, r) # <<>>
BY ReplayMaxAssumption DEF Push

LEMMA SceneUpdate ==
  ASSUME NEW S, NEW sc \in SceneRecord(S), NEW state \in State, NEW seq \in Nat,
         NEW replay \in Seq(Record), NEW log \in Seq(LogEntry)
  PROVE  [sc EXCEPT !.store = state, !.seq = seq, !.replay = replay, !.log = log]
           \in SceneRecord(S)
BY DEF SceneRecord

LEMMA SceneOps ==
  ASSUME NEW S, NEW sc \in SceneRecord(S)
  PROVE  /\ \A patches \in Patches : Seeded(sc, patches) \in SceneRecord(S)
         /\ \A patches \in Patches : Emitted(sc, patches) \in SceneRecord(S)
         /\ Cleared(sc) \in SceneRecord(S)
         /\ \A s \in S : Attached(sc, s) \in SceneRecord(S)
         /\ \A s \in S : Detached(sc, s) \in SceneRecord(S)
<1>. USE DEF SceneRecord
<1>1. Blank \in State
  BY DEF Blank, State
<1>2. ASSUME NEW patches \in Patches  PROVE Seeded(sc, patches) \in SceneRecord(S)
  <2>. DEFINE state == Apply(sc.store, patches)
              entry == Entry("set", DOMAIN patches, state, sc.seq)
  <2>1. state \in State /\ DOMAIN patches \in SUBSET Paths
    BY ApplyType, PatchesType
  <2>. HIDE DEF state
  <2>2. entry \in LogEntry
    BY <2>1 DEF Entry, LogEntry
  <2>. HIDE DEF entry
  <2>3. Append(sc.log, entry) \in Seq(LogEntry)
    BY <2>2
  <2>4. [sc EXCEPT !.store = state, !.log = Append(sc.log, entry)] \in SceneRecord(S)
    BY <2>1, <2>3
  <2>. QED  BY <2>4 DEF Seeded, state, entry
<1>3. ASSUME NEW patches \in Patches  PROVE Emitted(sc, patches) \in SceneRecord(S)
  <2>. DEFINE state == Apply(sc.store, patches)
              record == [seq |-> sc.seq + 1, patches |-> patches, at |-> Len(sc.log) + 1]
              entry == Entry("emit", DOMAIN patches, state, sc.seq + 1)
              replay == Push(sc.replay, record)
  <2>1. state \in State /\ DOMAIN patches \in SUBSET Paths
    BY ApplyType, PatchesType
  <2>. HIDE DEF state
  <2>2. record \in Record
    BY DEF Record
  <2>3. replay \in Seq(Record)
    BY <2>2, PushType
  <2>4. entry \in LogEntry
    BY <2>1 DEF Entry, LogEntry
  <2>. HIDE DEF entry, replay
  <2>5. Append(sc.log, entry) \in Seq(LogEntry)
    BY <2>4
  <2>6. sc.seq + 1 \in Nat
    OBVIOUS
  <2>7. [sc EXCEPT !.store = state, !.seq = sc.seq + 1, !.replay = replay,
                   !.log = Append(sc.log, entry)] \in SceneRecord(S)
    BY <2>1, <2>3, <2>5, <2>6, SceneUpdate, Zenon
  <2>8. Emitted(sc, patches) =
          [sc EXCEPT !.store = state, !.seq = sc.seq + 1, !.replay = replay,
                     !.log = Append(sc.log, entry)]
    BY Zenon DEF Emitted, NextServer, state, entry, replay
  <2>. QED  BY <2>7, <2>8
<1>4. Cleared(sc) \in SceneRecord(S)
  <2>. DEFINE entry == Entry("reset", Paths, Blank, sc.seq)
  <2>1. entry \in LogEntry
    BY <1>1 DEF Entry, LogEntry
  <2>2. Append(sc.log, entry) \in Seq(LogEntry)
    BY <2>1
  <2>. QED  BY <1>1, <2>2 DEF Cleared
<1>5. ASSUME NEW s \in S
      PROVE  Attached(sc, s) \in SceneRecord(S) /\ Detached(sc, s) \in SceneRecord(S)
  BY DEF Attached, Detached
<1>. QED  BY <1>2, <1>3, <1>4, <1>5

------------------------------------------------------------------------------
(* The replay buffer of a scene whose every number is an emission: the last *)
(* Len(buffer) numbers, without a hole.                                     *)
Contiguous(buffer, seq) ==
  \A i \in 1..Len(buffer) : buffer[i].seq = (seq - Len(buffer)) + i

(* What a push keeps: everything, or everything but the oldest record.      *)
LEMMA PushFacts ==
  ASSUME NEW buffer \in Seq(Record), NEW r \in Record
  PROVE  LET d == IF Len(buffer) = ReplayMax THEN 1 ELSE 0
             pushed == Push(buffer, r)
         IN  /\ Len(pushed) = (Len(buffer) + 1) - d
             /\ \A i \in 1..Len(buffer) - d : pushed[i] = buffer[i + d]
             /\ pushed[Len(pushed)] = r
<1>1. CASE Len(buffer) = ReplayMax
  <2>. DEFINE tail == Tail(buffer)
  <2>1. /\ tail \in Seq(Record)
        /\ Len(tail) = Len(buffer) - 1
        /\ \A i \in 1..Len(tail) : tail[i] = buffer[i + 1]
    BY <1>1, ReplayMaxAssumption
  <2>. HIDE DEF tail
  <2>2. /\ Len(Append(tail, r)) = Len(buffer)
        /\ \A i \in 1..Len(tail) : Append(tail, r)[i] = tail[i]
        /\ Append(tail, r)[Len(buffer)] = r
    BY <2>1
  <2>3. Push(buffer, r) = Append(tail, r)
    BY <1>1 DEF Push, tail
  <2>. QED  BY <1>1, <2>1, <2>2, <2>3
<1>2. CASE Len(buffer) # ReplayMax
  BY <1>2 DEF Push
<1>. QED  BY <1>1, <1>2

LEMMA PushContiguous ==
  ASSUME NEW buffer \in Seq(Record), NEW r \in Record, NEW seq \in Nat,
         Contiguous(buffer, seq), r.seq = seq + 1
  PROVE  Contiguous(Push(buffer, r), seq + 1)
<1>. DEFINE d == IF Len(buffer) = ReplayMax THEN 1 ELSE 0
            pushed == Push(buffer, r)
<1>1. /\ Len(pushed) = (Len(buffer) + 1) - d
      /\ \A i \in 1..Len(buffer) - d : pushed[i] = buffer[i + d]
      /\ pushed[Len(pushed)] = r
  BY PushFacts
<1>2. d \in {0, 1} /\ Len(buffer) \in Nat
  OBVIOUS
<1>. HIDE DEF d, pushed
<1>3. \A i \in 1..Len(pushed) : pushed[i].seq = ((seq + 1) - Len(pushed)) + i
  <2>. SUFFICES ASSUME NEW i \in 1..Len(pushed)
                PROVE  pushed[i].seq = ((seq + 1) - Len(pushed)) + i
    OBVIOUS
  <2>1. CASE i \in 1..Len(buffer) - d
    <3>1. i + d \in 1..Len(buffer)
      BY <1>2, <2>1
    <3>. QED  BY <1>1, <1>2, <2>1, <3>1 DEF Contiguous
  <2>2. CASE i = Len(pushed)
    BY <1>1, <1>2, <2>2
  <2>. QED  BY <1>1, <1>2, <2>1, <2>2
<1>. QED  BY <1>3 DEF Contiguous, pushed

(* The filter of ReplayBuffer.since on such a buffer, at any resume point   *)
(* up to the scene's number.                                                *)
LEMMA SkippedContiguous ==
  ASSUME NEW buffer \in Seq(Record), NEW seq \in Nat, NEW since \in Nat,
         since <= seq, Contiguous(buffer, seq)
  PROVE  /\ Skipped(buffer, since) \in 0..Len(buffer)
         /\ \A i \in 1..Len(buffer) :
              (buffer[i].seq > since) <=> (i > Skipped(buffer, since))
<1>. DEFINE Cut(n) == \A i \in 1..Len(buffer) : (buffer[i].seq > since) <=> (i > n)
            first == seq - Len(buffer)
<1>1. Len(buffer) \in Nat
  OBVIOUS
<1>2. \E n \in 0..Len(buffer) : Cut(n)
  <2>1. CASE since <= first
    <3>1. Cut(0)
      BY <1>1, <2>1 DEF Contiguous
    <3>. QED  BY <1>1, <3>1
  <2>2. CASE since > first
    <3>1. since - first \in 0..Len(buffer)
      BY <1>1, <2>2
    <3>2. Cut(since - first)
      BY <1>1, <3>1 DEF Contiguous
    <3>. QED  BY <3>1, <3>2
  <2>. QED  BY <1>1, <2>1, <2>2
<1>. QED  BY <1>2 DEF Skipped

LEMMA SuffixProperties ==
  ASSUME NEW S, NEW s \in Seq(S), NEW k \in 0..Len(s)
  PROVE  /\ SubSeq(s, k + 1, Len(s)) \in Seq(S)
         /\ Len(SubSeq(s, k + 1, Len(s))) = Len(s) - k
         /\ \A i \in 1..Len(s) - k : SubSeq(s, k + 1, Len(s))[i] = s[i + k]
OBVIOUS

LEMMA RecordsAfterContiguous ==
  ASSUME NEW buffer \in Seq(Record), NEW seq \in Nat, NEW since \in Nat,
         since <= seq, Contiguous(buffer, seq)
  PROVE  LET records == RecordsAfter(buffer, since)
             skipped == Skipped(buffer, since)
         IN  /\ skipped \in 0..Len(buffer)
             /\ records \in Seq(Record)
             /\ Len(records) = Len(buffer) - skipped
             /\ \A i \in 1..Len(records) : records[i] = buffer[i + skipped]
<1>. DEFINE skipped == Skipped(buffer, since)
<1>1. skipped \in 0..Len(buffer)
  BY SkippedContiguous
<1>2. RecordsAfter(buffer, since) = SubSeq(buffer, skipped + 1, Len(buffer))
  BY DEF RecordsAfter
<1>. HIDE DEF skipped
<1>. QED  BY <1>1, <1>2, SuffixProperties DEF skipped

------------------------------------------------------------------------------
(* The replay buffer of a scene that also spends numbers it does not record *)
(* (migrate_subscribers_from): it has holes, and is still in order.         *)
Increasing(buffer, seq) ==
  /\ \A i, j \in 1..Len(buffer) : i < j => buffer[i].seq < buffer[j].seq
  /\ \A i \in 1..Len(buffer) : buffer[i].seq <= seq

LEMMA RecordSeqs ==
  ASSUME NEW buffer \in Seq(Record)
  PROVE  \A i \in 1..Len(buffer) : buffer[i].seq \in Nat
<1>1. \A i \in 1..Len(buffer) : buffer[i] \in Record
  OBVIOUS
<1>. QED  BY <1>1 DEF Record

LEMMA PushIncreasing ==
  ASSUME NEW buffer \in Seq(Record), NEW r \in Record, NEW seq \in Nat,
         Increasing(buffer, seq), r.seq = seq + 1
  PROVE  Increasing(Push(buffer, r), seq + 1)
<1>. DEFINE d == IF Len(buffer) = ReplayMax THEN 1 ELSE 0
            pushed == Push(buffer, r)
<1>1. /\ Len(pushed) = (Len(buffer) + 1) - d
      /\ \A i \in 1..Len(buffer) - d : pushed[i] = buffer[i + d]
      /\ pushed[Len(pushed)] = r
  BY PushFacts
<1>2. d \in {0, 1} /\ Len(buffer) \in Nat
  OBVIOUS
<1>3. \A i \in 1..Len(buffer) : buffer[i].seq \in Nat
  BY RecordSeqs
<1>. HIDE DEF d, pushed
<1>4. \A i \in 1..Len(pushed) :
        \/ i = Len(pushed)
        \/ i \in 1..Len(buffer) - d /\ i + d \in 1..Len(buffer) /\ pushed[i] = buffer[i + d]
  BY <1>1, <1>2
<1>5. \A i \in 1..Len(pushed) : i # Len(pushed) => pushed[i].seq <= seq
  BY <1>4 DEF Increasing
<1>6. ASSUME NEW i \in 1..Len(pushed), NEW j \in 1..Len(pushed), i < j
      PROVE  pushed[i].seq < pushed[j].seq
  <2>1. i \in 1..Len(buffer) - d /\ i + d \in 1..Len(buffer) /\ pushed[i] = buffer[i + d]
    <3>1. Len(pushed) \in Int
      BY <1>1, <1>2
    <3>2. i # Len(pushed)
      BY <1>6, <3>1
    <3>. QED  BY <1>4, <3>2
  <2>2. CASE j = Len(pushed)
    BY <1>1, <1>3, <1>5, <1>6, <2>1, <2>2
  <2>3. CASE j # Len(pushed)
    <3>1. j + d \in 1..Len(buffer) /\ pushed[j] = buffer[j + d] /\ i + d < j + d
      BY <1>2, <1>4, <1>6, <2>3
    <3>. QED  BY <2>1, <3>1 DEF Increasing
  <2>. QED  BY <2>2, <2>3
<1>7. ASSUME NEW i \in 1..Len(pushed)  PROVE pushed[i].seq <= seq + 1
  <2>1. CASE i = Len(pushed)
    BY <1>1, <2>1
  <2>2. CASE i # Len(pushed)
    BY <1>3, <1>4, <1>5, <2>2
  <2>. QED  BY <2>1, <2>2
<1>. QED  BY <1>6, <1>7 DEF Increasing, pushed

(* Any resume point cuts such a buffer in two.                              *)
LEMMA RecordsAfterIncreasing ==
  ASSUME NEW buffer \in Seq(Record), NEW seq \in Nat, NEW since \in Nat,
         Increasing(buffer, seq)
  PROVE  LET records == RecordsAfter(buffer, since)
             skipped == Skipped(buffer, since)
         IN  /\ skipped \in 0..Len(buffer)
             /\ \A i \in 1..Len(buffer) : (buffer[i].seq > since) <=> (i > skipped)
             /\ records \in Seq(Record)
             /\ Len(records) = Len(buffer) - skipped
             /\ \A i \in 1..Len(records) : records[i] = buffer[i + skipped]
<1>. DEFINE Cut(n) == \A i \in 1..Len(buffer) : (buffer[i].seq > since) <=> (i > n)
            Later == {i \in 1..Len(buffer) : buffer[i].seq > since}
            skipped == Skipped(buffer, since)
<1>1. Len(buffer) \in Nat /\ \A i \in 1..Len(buffer) : buffer[i].seq \in Nat
  BY RecordSeqs
<1>2. \E n \in 0..Len(buffer) : Cut(n)
  <2>1. CASE Later = {}
    <3>1. Cut(Len(buffer)) /\ Len(buffer) \in 0..Len(buffer)
      BY <1>1, <2>1
    <3>. HIDE DEF Cut
    <3>. QED  BY <3>1
  <2>2. CASE Later # {}
    <3>1. PICK k \in Later : \A i \in Later : k <= i
      <4>1. Later \subseteq Nat
        BY <1>1
      <4>. HIDE DEF Later
      <4>. QED  BY <2>2, <4>1, LeastNatural
    <3>2. \A i \in 1..Len(buffer) : i >= k => buffer[i].seq > since
      <4>. SUFFICES ASSUME NEW i \in 1..Len(buffer), i >= k  PROVE buffer[i].seq > since
        OBVIOUS
      <4>1. i = k \/ buffer[k].seq < buffer[i].seq
        BY <1>1 DEF Increasing
      <4>. QED  BY <1>1, <4>1
    <3>3. \A i \in 1..Len(buffer) : i < k => ~(buffer[i].seq > since)
      BY <1>1, <3>1
    <3>4. Cut(k - 1) /\ k - 1 \in 0..Len(buffer)
      BY <1>1, <3>2, <3>3
    <3>. HIDE DEF Cut
    <3>. QED  BY <3>4
  <2>. QED  BY <2>1, <2>2
<1>3. skipped \in 0..Len(buffer) /\ Cut(skipped)
  BY <1>2 DEF Skipped
<1>4. RecordsAfter(buffer, since) = SubSeq(buffer, skipped + 1, Len(buffer))
  BY DEF RecordsAfter
<1>. HIDE DEF skipped
<1>. QED  BY <1>3, <1>4, SuffixProperties DEF skipped

------------------------------------------------------------------------------
(* What a pipe operation does to the flags: live is for good, and a closed  *)
(* pipe stays closed.                                                       *)
LEMMA PipeFlags ==
  ASSUME NEW F, NEW sub \in Pipe(F), NEW delta, NEW snap
  PROVE  /\ SendOrDrop(sub, snap).live = sub.live
         /\ SendOrDrop(sub, snap).closed = sub.closed
         /\ SendDelta(sub, delta, snap).live = sub.live
         /\ SendDelta(sub, delta, snap).closed = sub.closed
         /\ Close(sub).live = sub.live
         /\ Close(sub).closed
BY DEF SendOrDrop, SendDelta, Close, PutNowait, Pipe

(* A wider set of frames makes a wider set of pipes.                        *)
LEMMA PipeMono ==
  ASSUME NEW F, NEW G, F \subseteq G
  PROVE  Pipe(F) \subseteq Pipe(G) /\ Seq(F) \subseteq Seq(G)
<1>1. Seq(F) \subseteq Seq(G)
  OBVIOUS
<1>2. Seq(F \cup {Sentinel}) \subseteq Seq(G \cup {Sentinel})
  OBVIOUS
<1>3. ASSUME NEW sub \in Pipe(F)  PROVE sub \in Pipe(G)
  BY <1>2 DEF Pipe
<1>. QED  BY <1>1, <1>3
==============================================================================
