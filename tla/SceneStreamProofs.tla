-------------------------- MODULE SceneStreamProofs --------------------------
(****************************************************************************)
(* The inductive invariant of SceneStream and the theorems it yields.       *)
(****************************************************************************)
EXTENDS SceneStream, SceneProofs

------------------------------------------------------------------------------
(* The history is what its name says: sequence numbers count emissions, and *)
(* a leaf no entry wrote has not changed.                                   *)
LogOK(log) ==
  /\ Len(log) >= 1
  /\ log[1].seq = 1
  /\ \A i, j \in 1..Len(log) : i < j => log[i].seq <= log[j].seq
  /\ \A i, j \in 1..Len(log) : i < j /\ log[j].kind = "emit" => log[i].seq < log[j].seq
  /\ \A i, j \in 1..Len(log) :
       i < j /\ (\A m \in i+1..j : log[m].kind # "emit") => log[i].seq = log[j].seq
  /\ \A i, j \in 1..Len(log) :
       i < j /\ (\A m \in i+1..j-1 : log[m].kind # "emit") /\ log[j].kind = "emit"
         => log[j].seq = log[i].seq + 1
  /\ \A i, j \in 1..Len(log) : \A p \in Paths :
       i <= j /\ (\A m \in i+1..j : p \notin log[m].wrote)
         => log[i].state[p] = log[j].state[p]

(* A frame says what the entry it stands for says.                          *)
DeltaOK(f, log) ==
  /\ f.at \in 1..Len(log)
  /\ f.seq = log[f.at].seq
  /\ log[f.at].kind = "emit"
  /\ log[f.at].wrote = DOMAIN f.patches
  /\ \A p \in DOMAIN f.patches : f.patches[p] = log[f.at].state[p]

FrameOK(f, log) ==
  IF f.type = "delta" THEN DeltaOK(f, log)
  ELSE /\ f.at \in 1..Len(log)
       /\ f.seq = log[f.at].seq
       /\ f.state = log[f.at].state

(* The scene and the newest entry agree, and the replay buffer is the tail  *)
(* of the emissions.                                                        *)
SceneOK(sc) ==
  /\ LogOK(sc.log)
  /\ sc.store = sc.log[Len(sc.log)].state
  /\ sc.seq = sc.log[Len(sc.log)].seq
  /\ Contiguous(sc.replay, sc.seq)
  /\ sc.replay = <<>> => \A j \in 1..Len(sc.log) : sc.log[j].kind # "emit"
  /\ \A i \in 1..Len(sc.replay) : DeltaOK(sc.replay[i], sc.log)
  /\ \A j \in 1..Len(sc.log) :
       sc.log[j].kind = "emit" /\ sc.log[j].seq > sc.seq - Len(sc.replay)
         => \E i \in 1..Len(sc.replay) : sc.replay[i].at = j

(* What the queue of a pipe holds, with respect to a lower bound on `at`.   *)
QueueOK(q, log, low) ==
  /\ \A i \in 1..Len(q) : q[i] # Sentinel => FrameOK(q[i], log) /\ q[i].at > low
  /\ \A i, j \in 1..Len(q) :
       i < j /\ q[i] # Sentinel /\ q[j] # Sentinel => q[i].at < q[j].at

(* What a session holds in hand: one snapshot, or deltas in order.          *)
OutOK(out, log) ==
  /\ \A i \in 1..Len(out) : FrameOK(out[i], log)
  /\ \A i, j \in 1..Len(out) : i < j => out[i].at < out[j].at
  /\ \A i \in 1..Len(out) : out[i].type = "snapshot" => Len(out) = 1

(* Frames in hand come before the queue and after the receiver.             *)
OrderOK(out, q, cl) ==
  /\ \A i \in 1..Len(out), j \in 1..Len(q) : q[j] # Sentinel => out[i].at < q[j].at
  /\ \A i \in 1..Len(out) : out[i].at >= cl.at
  /\ \A i \in 1..Len(out) : out[i].type = "delta" => out[i].at > cl.at

ClientOK(cl, log) ==
  /\ cl.at \in 0..Len(log)
  /\ cl.at = 0 => cl.cur = 0
  /\ cl.at > 0 => /\ cl.cur = log[cl.at].seq
                  /\ \A p \in Paths \ cl.owed : cl.state[p] = log[cl.at].state[p]

SessionOK(c) ==
  /\ session[c].status = "off" =>
       session[c].out = <<>> /\ subs[c].queue = <<>> /\ c \notin scene.subs
  /\ session[c].status = "ended" => session[c].out = <<>>
  /\ session[c].status # "off" /\ client[c].at = 0 =>
       session[c].out # <<>> /\ session[c].out[1].type = "snapshot"
  /\ QueueOK(subs[c].queue, scene.log, client[c].at)
  /\ OutOK(session[c].out, scene.log)
  /\ OrderOK(session[c].out, subs[c].queue, client[c])
  /\ ClientOK(client[c], scene.log)

StreamInv ==
  /\ TypeOK
  /\ SceneOK(scene)
  /\ \A c \in Clients : SessionOK(c)
  /\ NothingLost

------------------------------------------------------------------------------
(* The history grows at its end.                                            *)

LEMMA AppendFacts ==
  ASSUME NEW S, NEW s \in Seq(S), NEW e
  PROVE  /\ Len(Append(s, e)) = Len(s) + 1
         /\ \A i \in 1..Len(s) : Append(s, e)[i] = s[i]
         /\ Append(s, e)[Len(s) + 1] = e
OBVIOUS

LEMMA ConcatEmpty ==
  ASSUME NEW S, NEW s \in Seq(S), NEW t \in Seq(S), s \o t = <<>>
  PROVE  s = <<>> /\ t = <<>>
<1>1. Len(s \o t) = Len(s) + Len(t) /\ Len(s) \in Nat /\ Len(t) \in Nat
  OBVIOUS
<1>. QED  BY <1>1

LEMMA DeltaMono ==
  ASSUME NEW log \in Seq(LogEntry), NEW e, NEW f, DeltaOK(f, log)
  PROVE  DeltaOK(f, Append(log, e))
<1>. DEFINE log2 == Append(log, e)
<1>1. f.at \in 1..Len(log2) /\ log2[f.at] = log[f.at]
  BY AppendFacts DEF DeltaOK
<1>. HIDE DEF log2
<1>. QED  BY <1>1 DEF DeltaOK, log2

LEMMA FrameMono ==
  ASSUME NEW log \in Seq(LogEntry), NEW e, NEW f, FrameOK(f, log)
  PROVE  FrameOK(f, Append(log, e))
<1>. DEFINE log2 == Append(log, e)
<1>1. CASE f.type = "delta"
  BY <1>1, DeltaMono DEF FrameOK
<1>2. CASE f.type # "delta"
  <2>1. f.at \in 1..Len(log2) /\ log2[f.at] = log[f.at]
    BY <1>2, AppendFacts DEF FrameOK
  <2>. HIDE DEF log2
  <2>. QED  BY <1>2, <2>1 DEF FrameOK, log2
<1>. QED  BY <1>1, <1>2

LEMMA ClientMono ==
  ASSUME NEW log \in Seq(LogEntry), NEW e, NEW cl, ClientOK(cl, log)
  PROVE  ClientOK(cl, Append(log, e))
<1>. DEFINE log2 == Append(log, e)
<1>1. cl.at \in 0..Len(log2) /\ (cl.at > 0 => log2[cl.at] = log[cl.at])
  BY AppendFacts DEF ClientOK
<1>. HIDE DEF log2
<1>. QED  BY <1>1 DEF ClientOK, log2

LEMMA OutMono ==
  ASSUME NEW log \in Seq(LogEntry), NEW e, NEW out, OutOK(out, log)
  PROVE  OutOK(out, Append(log, e))
BY FrameMono DEF OutOK

LEMMA QueueMono ==
  ASSUME NEW log \in Seq(LogEntry), NEW e, NEW q, NEW low, QueueOK(q, log, low)
  PROVE  QueueOK(q, Append(log, e), low)
BY FrameMono DEF QueueOK

(* A change that consumes no number, or an emission that consumes one.      *)
Follows(log, e) ==
  /\ IF e.kind = "emit" THEN e.seq = log[Len(log)].seq + 1
                        ELSE e.seq = log[Len(log)].seq
  /\ \A p \in Paths \ e.wrote : e.state[p] = log[Len(log)].state[p]

LEMMA LogAppend ==
  ASSUME NEW log \in Seq(LogEntry), NEW e \in LogEntry, LogOK(log), Follows(log, e)
  PROVE  LogOK(Append(log, e))
<1>. DEFINE log2 == Append(log, e)
            n == Len(log)
<1>1. /\ n \in Nat
      /\ n >= 1
      /\ Len(log2) = n + 1
      /\ \A i \in 1..n : log2[i] = log[i]
      /\ log2[n + 1] = e
  BY AppendFacts DEF LogOK
<1>2. \A i \in 1..n : log[i].seq \in Nat
  <2>1. \A i \in 1..n : log[i] \in LogEntry
    OBVIOUS
  <2>. QED  BY <2>1 DEF LogEntry
<1>3. e.seq \in Nat
  BY DEF LogEntry
<1>. HIDE DEF log2, n
<1>4. log2[1].seq = 1
  BY <1>1 DEF LogOK
<1>5. \A i \in 1..n : log[i].seq <= log[n].seq
  BY <1>1, <1>2 DEF LogOK, n
<1>6. log[n].seq <= e.seq /\ (e.kind = "emit" => log[n].seq < e.seq)
  BY <1>1, <1>2, <1>3 DEF Follows, n
<1>7. \A i, j \in 1..Len(log2) : i < j => log2[i].seq <= log2[j].seq
  <2>. SUFFICES ASSUME NEW i \in 1..Len(log2), NEW j \in 1..Len(log2), i < j
                PROVE  log2[i].seq <= log2[j].seq
    OBVIOUS
  <2>1. i \in 1..n
    BY <1>1
  <2>2. CASE j \in 1..n
    BY <1>1, <2>1, <2>2 DEF LogOK, n
  <2>3. CASE j = n + 1
    BY <1>1, <1>2, <1>3, <1>5, <1>6, <2>1, <2>3
  <2>. QED  BY <1>1, <2>2, <2>3
<1>8. \A i, j \in 1..Len(log2) :
        i < j /\ log2[j].kind = "emit" => log2[i].seq < log2[j].seq
  <2>. SUFFICES ASSUME NEW i \in 1..Len(log2), NEW j \in 1..Len(log2),
                       i < j, log2[j].kind = "emit"
                PROVE  log2[i].seq < log2[j].seq
    OBVIOUS
  <2>1. i \in 1..n
    BY <1>1
  <2>2. CASE j \in 1..n
    BY <1>1, <2>1, <2>2 DEF LogOK, n
  <2>3. CASE j = n + 1
    BY <1>1, <1>2, <1>3, <1>5, <1>6, <2>1, <2>3
  <2>. QED  BY <1>1, <2>2, <2>3
<1>9. \A i \in 1..n : (\A m \in i+1..n : log[m].kind # "emit") => log[i].seq = log[n].seq
  BY <1>1 DEF LogOK, n
<1>10. \A i, j \in 1..Len(log2) :
         i < j /\ (\A m \in i+1..j : log2[m].kind # "emit") => log2[i].seq = log2[j].seq
  <2>. SUFFICES ASSUME NEW i \in 1..Len(log2), NEW j \in 1..Len(log2), i < j,
                       \A m \in i+1..j : log2[m].kind # "emit"
                PROVE  log2[i].seq = log2[j].seq
    OBVIOUS
  <2>1. i \in 1..n
    BY <1>1
  <2>2. CASE j \in 1..n
    <3>1. \A m \in i+1..j : log[m].kind # "emit"
      BY <1>1, <2>2
    <3>. QED  BY <1>1, <2>1, <2>2, <3>1 DEF LogOK, n
  <2>3. CASE j = n + 1
    <3>1. \A m \in i+1..n : log[m].kind # "emit"
      BY <1>1, <2>3
    <3>2. e.kind # "emit"
      BY <1>1, <2>3
    <3>. QED  BY <1>1, <1>9, <2>1, <2>3, <3>1, <3>2 DEF Follows, n
  <2>. QED  BY <1>1, <2>2, <2>3
<1>11. \A i, j \in 1..Len(log2) :
         i < j /\ (\A m \in i+1..j-1 : log2[m].kind # "emit") /\ log2[j].kind = "emit"
           => log2[j].seq = log2[i].seq + 1
  <2>. SUFFICES ASSUME NEW i \in 1..Len(log2), NEW j \in 1..Len(log2), i < j,
                       \A m \in i+1..j-1 : log2[m].kind # "emit", log2[j].kind = "emit"
                PROVE  log2[j].seq = log2[i].seq + 1
    OBVIOUS
  <2>1. i \in 1..n
    BY <1>1
  <2>2. CASE j \in 1..n
    <3>1. \A m \in i+1..j-1 : log[m].kind # "emit"
      BY <1>1, <2>2
    <3>. QED  BY <1>1, <2>1, <2>2, <3>1 DEF LogOK, n
  <2>3. CASE j = n + 1
    <3>1. \A m \in i+1..n : log[m].kind # "emit"
      BY <1>1, <2>3
    <3>. QED  BY <1>1, <1>9, <2>1, <2>3, <3>1 DEF Follows, n
  <2>. QED  BY <1>1, <2>2, <2>3
<1>12. \A i, j \in 1..Len(log2) : \A p \in Paths :
         i <= j /\ (\A m \in i+1..j : p \notin log2[m].wrote)
           => log2[i].state[p] = log2[j].state[p]
  <2>. SUFFICES ASSUME NEW i \in 1..Len(log2), NEW j \in 1..Len(log2), NEW p \in Paths, i <= j,
                       \A m \in i+1..j : p \notin log2[m].wrote
                PROVE  log2[i].state[p] = log2[j].state[p]
    OBVIOUS
  <2>1. CASE i = n + 1
    BY <1>1, <2>1
  <2>2. CASE i \in 1..n /\ j \in 1..n
    <3>1. \A m \in i+1..j : p \notin log[m].wrote
      BY <1>1, <2>2
    <3>. QED  BY <1>1, <2>2, <3>1 DEF LogOK, n
  <2>3. CASE i \in 1..n /\ j = n + 1
    <3>1. \A m \in i+1..n : p \notin log[m].wrote
      BY <1>1, <2>3
    <3>2. p \notin e.wrote
      BY <1>1, <2>3
    <3>3. log[i].state[p] = log[n].state[p]
      BY <1>1, <2>3, <3>1 DEF LogOK, n
    <3>4. e.state[p] = log[n].state[p]
      BY <3>2 DEF Follows, n
    <3>. QED  BY <1>1, <2>3, <3>3, <3>4
  <2>. QED  BY <1>1, <2>1, <2>2, <2>3
<1>13. Len(log2) >= 1
  BY <1>1
<1>14. LogOK(log2)
  <2>. QED  BY <1>4, <1>7, <1>8, <1>10, <1>11, <1>12, <1>13, Zenon DEF LogOK
<1>. QED  BY <1>14 DEF log2

------------------------------------------------------------------------------
(* The scene's own part of the invariant.                                   *)

LEMMA SceneAppend ==
  ASSUME NEW sc \in SceneRecord(Clients), NEW sc2 \in SceneRecord(Clients),
         NEW e \in LogEntry, SceneOK(sc), Follows(sc.log, e), e.kind # "emit",
         sc2.log = Append(sc.log, e), sc2.store = e.state, sc2.seq = e.seq,
         sc2.replay = sc.replay
  PROVE  SceneOK(sc2)
<1>. DEFINE n == Len(sc.log)
<1>1. sc.log \in Seq(LogEntry)
  BY DEF SceneRecord
<1>2. /\ Len(sc2.log) = n + 1
      /\ \A i \in 1..n : sc2.log[i] = sc.log[i]
      /\ sc2.log[n + 1] = e
  BY <1>1, AppendFacts
<1>3. LogOK(sc2.log)
  BY <1>1, LogAppend DEF SceneOK
<1>4. sc2.seq = sc.seq
  BY DEF SceneOK, Follows
<1>5. \A i \in 1..Len(sc2.replay) : DeltaOK(sc2.replay[i], sc2.log)
  BY <1>1, DeltaMono DEF SceneOK
<1>6. \A j \in 1..Len(sc2.log) : sc2.log[j].kind = "emit" => j \in 1..n /\ sc2.log[j] = sc.log[j]
  BY <1>1, <1>2
<1>. QED  BY <1>2, <1>3, <1>4, <1>5, <1>6 DEF SceneOK

LEMMA SceneEmit ==
  ASSUME NEW sc \in SceneRecord(Clients), NEW sc2 \in SceneRecord(Clients),
         NEW e \in LogEntry, NEW r \in Record,
         SceneOK(sc), Follows(sc.log, e), e.kind = "emit",
         sc2.log = Append(sc.log, e), sc2.store = e.state, sc2.seq = e.seq,
         sc2.replay = Push(sc.replay, r), DeltaOK(r, sc2.log), r.at = Len(sc.log) + 1
  PROVE  SceneOK(sc2)
<1>. DEFINE n == Len(sc.log)
            b == sc.replay
            d == IF Len(b) = ReplayMax THEN 1 ELSE 0
            pushed == Push(b, r)
<1>1. sc.log \in Seq(LogEntry) /\ b \in Seq(Record) /\ sc.seq \in Nat /\ sc2.seq \in Nat
  BY DEF SceneRecord
<1>2. /\ n \in Nat
      /\ Len(sc2.log) = n + 1
      /\ \A i \in 1..n : sc2.log[i] = sc.log[i]
      /\ sc2.log[n + 1] = e
  BY <1>1, AppendFacts
<1>3. LogOK(sc2.log)
  BY <1>1, LogAppend DEF SceneOK
<1>4. sc2.seq = sc.seq + 1 /\ r.seq = sc.seq + 1
  BY <1>1, <1>2 DEF SceneOK, Follows, DeltaOK
<1>5. Contiguous(pushed, sc2.seq)
  BY <1>1, <1>4, PushContiguous DEF SceneOK
<1>6. /\ Len(pushed) = (Len(b) + 1) - d
      /\ \A i \in 1..Len(b) - d : pushed[i] = b[i + d]
      /\ pushed[Len(pushed)] = r
  BY <1>1, PushFacts
<1>7. d \in {0, 1} /\ Len(b) \in Nat /\ (d = 1 => Len(b) >= 1)
  BY <1>1, ReplayMaxAssumption
<1>8. \A i \in 1..Len(b) : DeltaOK(b[i], sc2.log)
  BY <1>1, DeltaMono DEF SceneOK
<1>. HIDE DEF b, d, pushed, n
<1>9. \A i \in 1..Len(pushed) : DeltaOK(pushed[i], sc2.log)
  <2>. SUFFICES ASSUME NEW i \in 1..Len(pushed)  PROVE DeltaOK(pushed[i], sc2.log)
    OBVIOUS
  <2>1. CASE i \in 1..Len(b) - d
    BY <1>6, <1>7, <1>8, <2>1
  <2>2. CASE i = Len(pushed)
    BY <1>6, <2>2
  <2>. QED  BY <1>6, <1>7, <2>1, <2>2
<1>10. \A j \in 1..Len(sc2.log) :
         sc2.log[j].kind = "emit" /\ sc2.log[j].seq > sc2.seq - Len(pushed)
           => \E i \in 1..Len(pushed) : pushed[i].at = j
  <2>. SUFFICES ASSUME NEW j \in 1..Len(sc2.log), sc2.log[j].kind = "emit",
                       sc2.log[j].seq > sc2.seq - Len(pushed)
                PROVE  \E i \in 1..Len(pushed) : pushed[i].at = j
    OBVIOUS
  <2>1. CASE j = n + 1
    <3>1. Len(pushed) \in 1..Len(pushed)
      BY <1>6, <1>7
    <3>. QED  BY <1>6, <2>1, <3>1 DEF n
  <2>2. CASE j \in 1..n
    <3>1. sc.log[j] \in LogEntry
      BY <1>1, <2>2 DEF n
    <3>2. sc.log[j].seq \in Nat /\ sc2.log[j] = sc.log[j]
      BY <1>2, <2>2, <3>1 DEF LogEntry
    <3>2a. sc.seq \in Nat /\ sc2.seq = sc.seq + 1 /\ Len(pushed) = (Len(b) + 1) - d
      BY <1>1, <1>4, <1>6
    <3>2b. sc.log[j].seq > sc2.seq - Len(pushed)
      BY <3>2
    <3>3. sc.log[j].seq > (sc.seq - Len(b)) + d
      BY <1>7, <3>2, <3>2a, <3>2b
    <3>4. \E k \in 1..Len(b) : b[k].at = j
      <4>1. sc.log[j].seq > sc.seq - Len(b)
        <5>. DEFINE x == sc.log[j].seq
                    y == sc.seq
                    z == Len(b)
        <5>1. x \in Nat /\ y \in Nat /\ z \in Nat /\ d \in {0, 1} /\ x > (y - z) + d
          BY <1>7, <3>2, <3>2a, <3>3
        <5>. HIDE DEF x, y, z
        <5>2. x > y - z
          BY <5>1
        <5>. QED  BY <5>2 DEF x, y, z
      <4>2. j \in 1..Len(sc.log) /\ sc.log[j].kind = "emit"
        BY <2>2, <3>2 DEF n
      <4>. QED  BY <4>1, <4>2 DEF SceneOK, b
    <3>. PICK k \in 1..Len(b) : b[k].at = j
      BY <3>4
    <3>5. b[k].seq = (sc.seq - Len(b)) + k
      BY DEF SceneOK, Contiguous, b
    <3>6. b[k].seq = sc.log[j].seq
      <4>1. DeltaOK(b[k], sc.log)
        BY DEF SceneOK, b
      <4>. QED  BY <4>1 DEF DeltaOK
    <3>7. k > d
      BY <1>1, <1>7, <3>2, <3>3, <3>5, <3>6
    <3>8. k - d \in 1..Len(b) - d /\ (k - d) + d = k
      BY <1>7, <3>7
    <3>9. pushed[k - d] = b[k] /\ k - d \in 1..Len(pushed)
      BY <1>6, <1>7, <3>8
    <3>. QED  BY <3>9
  <2>. QED  BY <1>2, <2>1, <2>2
<1>11. sc2.replay = pushed /\ pushed # <<>>
  <2>1. sc2.replay = pushed
    BY DEF pushed, b
  <2>2. Len(pushed) >= 1
    BY <1>6, <1>7
  <2>. QED  BY <2>1, <2>2
<1>12. sc2.store = sc2.log[Len(sc2.log)].state /\ sc2.seq = sc2.log[Len(sc2.log)].seq
  BY <1>2
<1>. QED  BY <1>3, <1>5, <1>9, <1>10, <1>11, <1>12 DEF SceneOK

------------------------------------------------------------------------------
(* A pipe's queue.                                                          *)

LEMMA PushFrame ==
  ASSUME NEW log \in Seq(LogEntry), NEW e, NEW q \in Seq(Frame \cup {Sentinel}),
         NEW f \in Frame, NEW out \in Seq(Frame), NEW cl,
         QueueOK(q, log, cl.at), OutOK(out, log), OrderOK(out, q, cl), ClientOK(cl, log),
         FrameOK(f, Append(log, e)), f.at = Len(log) + 1
  PROVE  /\ QueueOK(Append(q, f), Append(log, e), cl.at)
         /\ OrderOK(out, Append(q, f), cl)
<1>. DEFINE log2 == Append(log, e)
            q2 == Append(q, f)
<1>1. /\ Len(q2) = Len(q) + 1
      /\ \A i \in 1..Len(q) : q2[i] = q[i]
      /\ q2[Len(q) + 1] = f
      /\ Len(q) \in Nat
      /\ Len(log) \in Nat
  BY AppendFacts
<1>2. QueueOK(q, log2, cl.at)
  BY QueueMono
<1>3. \A i \in 1..Len(q) : q[i] # Sentinel => q[i].at \in 1..Len(log)
  BY DEF QueueOK, FrameOK, DeltaOK
<1>4. \A i \in 1..Len(out) : out[i].at \in 1..Len(log)
  BY DEF OutOK, FrameOK, DeltaOK
<1>5. cl.at \in 0..Len(log)
  BY DEF ClientOK
<1>. HIDE DEF log2, q2
<1>6. FrameOK(f, log2)
  BY DEF log2
<1>7. \A i \in 1..Len(q2) : q2[i] # Sentinel => FrameOK(q2[i], log2) /\ q2[i].at > cl.at
  <2>. SUFFICES ASSUME NEW i \in 1..Len(q2), q2[i] # Sentinel
                PROVE  FrameOK(q2[i], log2) /\ q2[i].at > cl.at
    OBVIOUS
  <2>1. CASE i \in 1..Len(q)
    BY <1>1, <1>2, <2>1 DEF QueueOK
  <2>2. CASE i = Len(q) + 1
    BY <1>1, <1>5, <1>6, <2>2
  <2>. QED  BY <1>1, <2>1, <2>2
<1>8. \A i, j \in 1..Len(q2) :
        i < j /\ q2[i] # Sentinel /\ q2[j] # Sentinel => q2[i].at < q2[j].at
  <2>. SUFFICES ASSUME NEW i \in 1..Len(q2), NEW j \in 1..Len(q2),
                       i < j, q2[i] # Sentinel, q2[j] # Sentinel
                PROVE  q2[i].at < q2[j].at
    OBVIOUS
  <2>1. i \in 1..Len(q) /\ (j \in 1..Len(q) \/ j = Len(q) + 1)
    BY <1>1
  <2>2. CASE j \in 1..Len(q)
    BY <1>1, <1>2, <2>1, <2>2 DEF QueueOK
  <2>3. CASE j = Len(q) + 1
    <3>1. q2[i].at \in 1..Len(log)
      BY <1>1, <1>3, <2>1
    <3>2. q2[j].at = Len(log) + 1
      BY <1>1, <2>3
    <3>. QED  BY <1>1, <3>1, <3>2
  <2>. QED  BY <2>1, <2>2, <2>3
<1>9. \A i \in 1..Len(out), j \in 1..Len(q2) : q2[j] # Sentinel => out[i].at < q2[j].at
  <2>. SUFFICES ASSUME NEW i \in 1..Len(out), NEW j \in 1..Len(q2), q2[j] # Sentinel
                PROVE  out[i].at < q2[j].at
    OBVIOUS
  <2>1. CASE j \in 1..Len(q)
    BY <1>1, <2>1 DEF OrderOK
  <2>2. CASE j = Len(q) + 1
    BY <1>1, <1>4, <2>2
  <2>. QED  BY <1>1, <2>1, <2>2
<1>10. QueueOK(q2, log2, cl.at)
  BY <1>7, <1>8 DEF QueueOK
<1>11. OrderOK(out, q2, cl)
  BY <1>9 DEF OrderOK
<1>. QED  BY <1>10, <1>11 DEF log2, q2

LEMMA PopFrame ==
  ASSUME NEW log, NEW q \in Seq(Frame \cup {Sentinel}), q # <<>>, NEW out, NEW cl,
         QueueOK(q, log, cl.at), OrderOK(out, q, cl)
  PROVE  /\ QueueOK(Tail(q), log, cl.at)
         /\ OrderOK(out, Tail(q), cl)
<1>1. /\ Len(Tail(q)) = Len(q) - 1
      /\ Len(q) \in Nat
      /\ \A i \in 1..Len(Tail(q)) : i + 1 \in 1..Len(q) /\ Tail(q)[i] = q[i + 1]
  OBVIOUS
<1>2. QueueOK(Tail(q), log, cl.at)
  <2>1. \A i \in 1..Len(Tail(q)) : Tail(q)[i] # Sentinel =>
          FrameOK(Tail(q)[i], log) /\ Tail(q)[i].at > cl.at
    BY <1>1 DEF QueueOK
  <2>2. \A i, j \in 1..Len(Tail(q)) :
          i < j /\ Tail(q)[i] # Sentinel /\ Tail(q)[j] # Sentinel
            => Tail(q)[i].at < Tail(q)[j].at
    <3>. SUFFICES ASSUME NEW i \in 1..Len(Tail(q)), NEW j \in 1..Len(Tail(q)), i < j,
                         Tail(q)[i] # Sentinel, Tail(q)[j] # Sentinel
                  PROVE  Tail(q)[i].at < Tail(q)[j].at
      OBVIOUS
    <3>1. i + 1 < j + 1 /\ i + 1 \in 1..Len(q) /\ j + 1 \in 1..Len(q)
      BY <1>1
    <3>2. q[i + 1] # Sentinel /\ q[j + 1] # Sentinel
      BY <1>1
    <3>3. q[i + 1].at < q[j + 1].at
      BY <3>1, <3>2 DEF QueueOK
    <3>. QED  BY <1>1, <3>3
  <2>. QED  BY <2>1, <2>2 DEF QueueOK
<1>3. OrderOK(out, Tail(q), cl)
  BY <1>1 DEF OrderOK
<1>. QED  BY <1>2, <1>3

LEMMA PushSentinel ==
  ASSUME NEW log, NEW q \in Seq(Frame \cup {Sentinel}), NEW out, NEW cl,
         QueueOK(q, log, cl.at), OrderOK(out, q, cl)
  PROVE  /\ QueueOK(Append(q, Sentinel), log, cl.at)
         /\ OrderOK(out, Append(q, Sentinel), cl)
<1>. DEFINE q2 == Append(q, Sentinel)
<1>1. \A i \in 1..Len(q2) : q2[i] # Sentinel => i \in 1..Len(q) /\ q2[i] = q[i]
  BY AppendFacts
<1>. HIDE DEF q2
<1>2. QueueOK(q2, log, cl.at) /\ OrderOK(out, q2, cl)
  BY <1>1 DEF QueueOK, OrderOK
<1>. QED  BY <1>2 DEF q2

------------------------------------------------------------------------------
(* Steps of the application: one new entry, and one frame for it offered to *)
(* every attached pipe.                                                     *)

LEMMA PublishPreserves ==
  ASSUME StreamInv, NEW e \in LogEntry, NEW f \in Frame,
         scene'.log = Append(scene.log, e), scene'.subs = scene.subs,
         session' = session, client' = client,
         FrameOK(f, scene'.log), f.at = Len(scene.log) + 1,
         \A c \in Clients :
           \/ c \notin scene.subs /\ subs'[c] = subs[c]
           \/ c \in scene.subs /\ subs'[c] = PutNowait(subs[c], f)
           \/ c \in scene.subs /\ subs'[c] = [subs[c] EXCEPT !.stale = TRUE]
  PROVE  (\A c \in Clients : SessionOK(c))' /\ NothingLost'
<1>. DEFINE log == scene.log
            n == Len(scene.log)
<1>1. /\ log \in Seq(LogEntry)
      /\ n \in Nat
      /\ Len(scene'.log) = n + 1
      /\ \A i \in 1..n : scene'.log[i] = log[i]
  <2>1. log \in Seq(LogEntry)
    BY DEF StreamInv, TypeOK, SceneRecord
  <2>. QED  BY <2>1, AppendFacts
<1>. SUFFICES ASSUME NEW c \in Clients
              PROVE  SessionOK(c)' /\ NothingLostFor(c)'
  BY DEF NothingLost
<1>. DEFINE q == subs[c].queue
            out == session[c].out
            cl == client[c]
<1>2. /\ q \in Seq(Frame \cup {Sentinel})
      /\ out \in Seq(Frame)
      /\ subs[c] \in Pipe(Frame)
      /\ f # Sentinel
  BY DEF StreamInv, TypeOK, Pipe, Frame, Sentinel, Snapshot, Delta
<1>3. SessionOK(c) /\ NothingLostFor(c)
  BY DEF StreamInv, NothingLost
<1>4. /\ OutOK(out, scene'.log)
      /\ ClientOK(cl, scene'.log)
  BY <1>1, <1>3, OutMono, ClientMono DEF SessionOK
<1>5. CASE subs'[c].queue = q /\ (Tracking(c)' => FALSE)
  <2>1. QueueOK(q, scene'.log, cl.at)
    BY <1>1, <1>3, QueueMono DEF SessionOK
  <2>2. SessionOK(c)'
    BY <1>3, <1>4, <1>5, <2>1 DEF SessionOK
  <2>. QED  BY <1>5, <2>2 DEF NothingLostFor
<1>6. CASE c \in scene.subs /\ subs'[c] = PutNowait(subs[c], f)
  <2>1. subs'[c].queue = Append(q, f) /\ subs'[c].stale = subs[c].stale
    BY <1>2, <1>6 DEF PutNowait, Pipe
  <2>2. QueueOK(Append(q, f), scene'.log, cl.at) /\ OrderOK(out, Append(q, f), cl)
    <3>1. QueueOK(q, log, cl.at) /\ OutOK(out, log) /\ OrderOK(out, q, cl) /\ ClientOK(cl, log)
      BY <1>3 DEF SessionOK
    <3>2. FrameOK(f, Append(log, e)) /\ f.at = Len(log) + 1
      OBVIOUS
    <3>3. log \in Seq(LogEntry) /\ scene'.log = Append(log, e)
      BY <1>1
    <3>. HIDE DEF q, out, cl, log
    <3>4. QueueOK(Append(q, f), Append(log, e), cl.at) /\ OrderOK(out, Append(q, f), cl)
      BY <1>2, <3>1, <3>2, <3>3, PushFrame
    <3>. QED  BY <3>3, <3>4
  <2>3. SessionOK(c)'
    BY <1>3, <1>4, <1>6, <2>1, <2>2 DEF SessionOK
  <2>4. NothingLostFor(c)'
    <3>. SUFFICES ASSUME Tracking(c)', NEW j \in cl.at + 1..n + 1,
                         scene'.log[j].kind = "emit" \/ j > session[c].base
                  PROVE  OnItsWay(c, j)'
      BY <1>1 DEF NothingLostFor
    <3>1. cl.at \in Nat
      BY DEF StreamInv, TypeOK
    <3>2. /\ Len(q) \in Nat
          /\ Len(Append(q, f)) = Len(q) + 1
          /\ \A i \in 1..Len(q) : Append(q, f)[i] = q[i]
          /\ Append(q, f)[Len(q) + 1] = f
      BY <1>2, AppendFacts
    <3>3. CASE j = n + 1
      <4>1. Len(q) + 1 \in 1..Len(Append(q, f))
        BY <3>2
      <4>. QED  BY <1>2, <2>1, <3>2, <3>3, <4>1 DEF OnItsWay
    <3>4. CASE j \in cl.at + 1..n
      <4>1. Tracking(c)
        BY <2>1 DEF Tracking
      <4>2. log[j] = scene'.log[j]
        BY <1>1, <3>1, <3>4
      <4>3. OnItsWay(c, j)
        BY <1>3, <3>4, <4>1, <4>2 DEF NothingLostFor
      <4>4. \A i \in 1..Len(q) : i \in 1..Len(Append(q, f)) /\ Append(q, f)[i] = q[i]
        BY <3>2
      <4>. QED  BY <2>1, <4>3, <4>4 DEF OnItsWay
    <3>. QED  BY <1>1, <3>1, <3>3, <3>4
  <2>. QED  BY <2>3, <2>4
<1>7. CASE c \notin scene.subs /\ subs'[c] = subs[c]
  <2>1. ~Tracking(c)'
    BY <1>7 DEF Tracking
  <2>. QED  BY <1>5, <1>7, <2>1
<1>8. CASE c \in scene.subs /\ subs'[c] = [subs[c] EXCEPT !.stale = TRUE]
  <2>1. subs'[c].queue = q /\ subs'[c].stale
    BY <1>2, <1>8 DEF Pipe
  <2>2. ~Tracking(c)'
    BY <2>1 DEF Tracking
  <2>. QED  BY <1>5, <2>1, <2>2
<1>. QED  BY <1>6, <1>7, <1>8

------------------------------------------------------------------------------
(* What subscribe_with_resume hands to a session.                           *)

LEMMA ResumeFrames ==
  ASSUME NEW sc \in SceneRecord(Clients), SceneOK(sc), NEW since \in Nat, Resumes(sc, since)
  PROVE  LET out == InitialFrames(sc, since)
             k == Skipped(sc.replay, since)
         IN  /\ k \in 0..Len(sc.replay)
             /\ out \in Seq(Frame)
             /\ Len(out) = Len(sc.replay) - k
             /\ \A i \in 1..Len(out) : out[i] = DeltaOf(sc, sc.replay[i + k])
             /\ \A i \in 1..Len(sc.replay) : (sc.replay[i].seq > since) <=> (i > k)
<1>. DEFINE records == RecordsAfter(sc.replay, since)
            k == Skipped(sc.replay, since)
<1>1. /\ sc.replay \in Seq(Record)
      /\ sc.seq \in Nat
      /\ since <= sc.seq
      /\ Contiguous(sc.replay, sc.seq)
  BY DEF SceneRecord, SceneOK, Resumes
<1>2. /\ k \in 0..Len(sc.replay)
      /\ records \in Seq(Record)
      /\ Len(records) = Len(sc.replay) - k
      /\ \A i \in 1..Len(records) : records[i] = sc.replay[i + k]
  BY <1>1, RecordsAfterContiguous
<1>3. \A i \in 1..Len(sc.replay) : (sc.replay[i].seq > since) <=> (i > k)
  BY <1>1, SkippedContiguous
<1>. HIDE DEF records, k
<1>4. InitialFrames(sc, since) = [i \in 1..Len(records) |-> DeltaOf(sc, records[i])]
  BY DEF InitialFrames, records
<1>5. \A i \in 1..Len(records) : DeltaOf(sc, records[i]) \in Frame
  BY <1>2, DeltaType DEF Frame
<1>6. Len(records) \in Nat
  BY <1>2
<1>7. /\ InitialFrames(sc, since) \in Seq(Frame)
      /\ Len(InitialFrames(sc, since)) = Len(records)
  BY <1>4, <1>5, <1>6, IsASeq
<1>. QED  BY <1>2, <1>3, <1>4, <1>7 DEF k

LEMMA SnapshotOutOK ==
  ASSUME NEW sc \in SceneRecord(Clients), SceneOK(sc), NEW cl, ClientOK(cl, sc.log)
  PROVE  LET out == <<SnapshotOf(sc)>>
         IN  /\ out \in Seq(Frame)
             /\ Len(out) = 1
             /\ out[1].type = "snapshot" /\ out[1].at = Len(sc.log)
             /\ OutOK(out, sc.log)
             /\ OrderOK(out, <<>>, cl)
<1>. DEFINE f == SnapshotOf(sc)
<1>1. f \in Frame
  BY SnapshotType DEF Frame
<1>2. /\ f.type = "snapshot"
      /\ f.at = Len(sc.log)
      /\ f.seq = sc.seq
      /\ f.state = sc.store
  BY DEF SnapshotOf
<1>3. Len(sc.log) \in Nat /\ Len(sc.log) >= 1
  BY DEF SceneRecord, SceneOK, LogOK
<1>4. FrameOK(f, sc.log)
  BY <1>2, <1>3 DEF FrameOK, SceneOK
<1>5. cl.at <= f.at
  BY <1>2, <1>3 DEF ClientOK
<1>. HIDE DEF f
<1>6. <<f>> \in Seq(Frame) /\ Len(<<f>>) = 1 /\ <<f>>[1] = f
  BY <1>1
<1>7. OutOK(<<f>>, sc.log)
  BY <1>4, <1>6 DEF OutOK
<1>8. OrderOK(<<f>>, <<>>, cl)
  BY <1>2, <1>5, <1>6 DEF OrderOK
<1>. QED  BY <1>2, <1>6, <1>7, <1>8 DEF f

LEMMA ReplayOutOK ==
  ASSUME NEW sc \in SceneRecord(Clients), SceneOK(sc), NEW cl, ClientOK(cl, sc.log),
         cl.cur \in Nat, Resumes(sc, cl.cur)
  PROVE  LET out == InitialFrames(sc, cl.cur)
         IN  /\ out \in Seq(Frame)
             /\ OutOK(out, sc.log)
             /\ OrderOK(out, <<>>, cl)
             /\ cl.at > 0
             /\ \A j \in cl.at + 1..Len(sc.log) : sc.log[j].kind = "emit" =>
                  \E i \in 1..Len(out) : out[i].at = j
<1>. DEFINE out == InitialFrames(sc, cl.cur)
            k == Skipped(sc.replay, cl.cur)
            b == sc.replay
            log == sc.log
            n == Len(sc.log)
<1>1. /\ k \in 0..Len(b)
      /\ out \in Seq(Frame)
      /\ Len(out) = Len(b) - k
      /\ \A i \in 1..Len(out) : out[i] = DeltaOf(sc, b[i + k])
      /\ \A i \in 1..Len(b) : (b[i].seq > cl.cur) <=> (i > k)
  BY ResumeFrames
<1>2. /\ b \in Seq(Record) /\ log \in Seq(LogEntry) /\ sc.seq \in Nat
      /\ n \in Nat /\ Len(b) \in Nat
  BY DEF SceneRecord
<1>3. \A j \in 1..n : log[j].seq \in Nat
  <2>1. \A j \in 1..n : log[j] \in LogEntry
    BY <1>2
  <2>. QED  BY <2>1 DEF LogEntry
<1>4. /\ cl.at \in 1..n
      /\ cl.cur = log[cl.at].seq
  BY <1>2 DEF Resumes, ClientOK
<1>5. \A i \in 1..Len(b) : DeltaOK(b[i], log)
  BY DEF SceneOK
<1>. HIDE DEF k, b, log, n, out
<1>6. \A i \in 1..Len(out) :
        /\ out[i].type = "delta"
        /\ out[i].at = b[i + k].at
        /\ out[i].seq = b[i + k].seq
        /\ DeltaOK(out[i], log)
  <2>. SUFFICES ASSUME NEW i \in 1..Len(out)
                PROVE  /\ out[i].type = "delta"
                       /\ out[i].at = b[i + k].at
                       /\ out[i].seq = b[i + k].seq
                       /\ DeltaOK(out[i], log)
    OBVIOUS
  <2>1. i + k \in 1..Len(b)
    BY <1>1, <1>2
  <2>2. DeltaOK(b[i + k], log)
    BY <1>5, <2>1
  <2>3. out[i] = DeltaOf(sc, b[i + k])
    BY <1>1
  <2>4. /\ out[i].type = "delta"
        /\ out[i].at = b[i + k].at
        /\ out[i].seq = b[i + k].seq
        /\ out[i].patches = b[i + k].patches
    BY <2>3 DEF DeltaOf
  <2>5. DeltaOK(out[i], log)
    BY <2>2, <2>4 DEF DeltaOK
  <2>. QED  BY <2>4, <2>5
<1>7. \A i, j \in 1..n : i < j => log[i].seq <= log[j].seq
  BY DEF SceneOK, LogOK, log, n
<1>7a. \A x, y \in 1..n : log[x].seq < log[y].seq => x < y
  <2>. SUFFICES ASSUME NEW x \in 1..n, NEW y \in 1..n, log[x].seq < log[y].seq, y <= x
                PROVE  FALSE
    BY <1>2
  <2>1. log[y].seq <= log[x].seq
    BY <1>2, <1>3, <1>7
  <2>. QED  BY <1>3, <2>1
<1>8. \A i, j \in 1..Len(b) : i < j => b[i].at < b[j].at
  <2>. SUFFICES ASSUME NEW i \in 1..Len(b), NEW j \in 1..Len(b), i < j
                PROVE  b[i].at < b[j].at
    OBVIOUS
  <2>1. b[i].seq < b[j].seq
    <3>1. b[i].seq = (sc.seq - Len(b)) + i /\ b[j].seq = (sc.seq - Len(b)) + j
      BY DEF SceneOK, Contiguous, b
    <3>. QED  BY <1>2, <3>1
  <2>2. /\ b[i].at \in 1..n /\ b[j].at \in 1..n
        /\ b[i].seq = log[b[i].at].seq /\ b[j].seq = log[b[j].at].seq
    BY <1>5 DEF DeltaOK, n, log
  <2>. QED  BY <1>7a, <2>1, <2>2
<1>9. \A i \in 1..Len(out) : out[i].at > cl.at
  <2>. SUFFICES ASSUME NEW i \in 1..Len(out)  PROVE out[i].at > cl.at
    OBVIOUS
  <2>1. i + k \in 1..Len(b) /\ i + k > k
    BY <1>1, <1>2
  <2>2. out[i].seq > cl.cur
    BY <1>1, <1>6, <2>1
  <2>3. out[i].at \in 1..n /\ out[i].seq = log[out[i].at].seq
    BY <1>6 DEF DeltaOK, n, log
  <2>4. log[cl.at].seq < log[out[i].at].seq
    BY <1>3, <1>4, <2>2, <2>3
  <2>5. cl.at < out[i].at
    BY <1>7a, <1>4, <2>3, <2>4
  <2>. QED  BY <1>2, <1>4, <2>3, <2>5
<1>10. OutOK(out, log)
  <2>1. \A i, j \in 1..Len(out) : i < j => out[i].at < out[j].at
    <3>. SUFFICES ASSUME NEW i \in 1..Len(out), NEW j \in 1..Len(out), i < j
                  PROVE  out[i].at < out[j].at
      OBVIOUS
    <3>1. i + k \in 1..Len(b) /\ j + k \in 1..Len(b) /\ i + k < j + k
      BY <1>1, <1>2
    <3>. QED  BY <1>6, <1>8, <3>1
  <2>. QED  BY <1>6, <2>1 DEF OutOK, FrameOK
<1>11. OrderOK(out, <<>>, cl)
  <2>1. \A i \in 1..Len(out) : out[i].at \in 1..n
    BY <1>6 DEF DeltaOK, n, log
  <2>2. \A i \in 1..Len(out) : out[i].at >= cl.at
    BY <1>2, <1>4, <1>9, <2>1
  <2>. QED  BY <1>9, <2>2 DEF OrderOK
<1>12. ASSUME NEW j \in cl.at + 1..n, log[j].kind = "emit"
       PROVE  \E i \in 1..Len(out) : out[i].at = j
  <2>1. j \in 1..n /\ cl.at < j
    BY <1>2, <1>4
  <2>2. log[j].seq > cl.cur
    <3>1. \A x, y \in 1..n : x < y /\ log[y].kind = "emit" => log[x].seq < log[y].seq
      BY DEF SceneOK, LogOK, log, n
    <3>. QED  BY <1>3, <1>4, <1>12, <2>1, <3>1
  <2>3. b # <<>>
    BY <1>12, <2>1 DEF SceneOK, b, log, n
  <2>4. b[1].seq = (sc.seq - Len(b)) + 1 /\ Len(b) >= 1
    <3>1. Len(b) >= 1
      BY <1>2, <2>3
    <3>. QED  BY <1>2, <3>1 DEF SceneOK, Contiguous, b
  <2>5. log[j].seq > sc.seq - Len(b)
    <3>1. cl.cur + 1 >= b[1].seq
      BY <2>3 DEF Resumes, Covered, b
    <3>. QED  BY <1>2, <1>3, <2>1, <2>2, <2>4, <3>1
  <2>6. PICK m \in 1..Len(b) : b[m].at = j
    <3>1. \A x \in 1..n : log[x].kind = "emit" /\ log[x].seq > sc.seq - Len(b) =>
            \E m \in 1..Len(b) : b[m].at = x
      BY DEF SceneOK, b, log, n
    <3>. QED  BY <1>12, <2>1, <2>5, <3>1
  <2>7. b[m].seq = log[j].seq
    BY <1>5, <2>6 DEF DeltaOK
  <2>8. m > k
    BY <1>1, <2>2, <2>7
  <2>9. m - k \in 1..Len(out) /\ (m - k) + k = m
    BY <1>1, <1>2, <2>8
  <2>10. out[m - k].at = j
    BY <1>6, <2>6, <2>9
  <2>. QED  BY <2>9, <2>10
<1>. QED  BY <1>1, <1>4, <1>10, <1>11, <1>12 DEF out, log, n

------------------------------------------------------------------------------
(* The initial state, and the steps of the application.                     *)

LEMMA InitInv == ASSUME Init PROVE StreamInv
<1>. DEFINE new == Entry("new", {}, Blank, 1)
<1>1. /\ scene.id = Id /\ scene.store = Blank /\ scene.seq = 1 /\ scene.replay = <<>>
      /\ scene.subs = {} /\ scene.log = <<new>>
      /\ scene = [id |-> Id, store |-> Blank, seq |-> 1, replay |-> <<>>, subs |-> {},
                  log |-> <<new>>]
  BY DEF Init, NewScene, NextServer, Fresh
<1>2. Blank \in State
  BY DEF Blank, State
<1>3. new \in LogEntry /\ new.kind = "new" /\ new.seq = 1 /\ new.state = Blank
  BY <1>2 DEF Entry, LogEntry
<1>. HIDE DEF new
<1>4. scene \in SceneRecord(Clients)
  <2>1. <<new>> \in Seq(LogEntry)
    BY <1>3
  <2>. QED  BY <1>1, <1>2, <2>1, IdAssumption DEF SceneRecord
<1>5. \A c \in Clients : /\ subs[c] = NewSubscription(TRUE)
                         /\ session[c] = NoSession
                         /\ client[c] = NewClient
  BY DEF Init
<1>6. TypeOK
  <2>1. NewSubscription(TRUE) \in Pipe(Frame)
    BY NewSubscriptionType
  <2>2. NoSession \in [status : {"off", "on", "ended"}, out : Seq(Frame), base : Nat]
    BY DEF NoSession
  <2>3. NewClient \in [state : State, cur : Nat, at : Nat, owed : SUBSET Paths]
    BY <1>2 DEF NewClient, Fresh
  <2>. QED  BY <1>4, <2>1, <2>2, <2>3 DEF TypeOK, Init
<1>7. LogOK(scene.log)
  <2>1. Len(scene.log) = 1 /\ scene.log[1] = new
    BY <1>1
  <2>. QED  BY <1>3, <2>1 DEF LogOK
<1>8. SceneOK(scene)
  <2>1. Len(scene.log) = 1 /\ scene.log[1] = new /\ Len(scene.replay) = 0
    BY <1>1
  <2>. QED  BY <1>1, <1>3, <1>7, <2>1 DEF SceneOK, Contiguous
<1>9. \A c \in Clients : SessionOK(c) /\ NothingLostFor(c)
  <2>. SUFFICES ASSUME NEW c \in Clients  PROVE SessionOK(c) /\ NothingLostFor(c)
    OBVIOUS
  <2>1. /\ subs[c].queue = <<>> /\ session[c].out = <<>> /\ session[c].status = "off"
        /\ client[c].at = 0 /\ client[c].cur = 0
    BY <1>5 DEF NewSubscription, NoSession, NewClient, Fresh
  <2>2. Len(scene.log) = 1
    BY <1>1
  <2>3. ~Tracking(c)
    BY <2>1 DEF Tracking
  <2>4. ClientOK(client[c], scene.log)
    BY <2>1, <2>2 DEF ClientOK
  <2>. QED
    BY <1>1, <2>1, <2>2, <2>3, <2>4
       DEF SessionOK, NothingLostFor, QueueOK, OutOK, OrderOK
<1>. QED  BY <1>6, <1>8, <1>9 DEF StreamInv, NothingLost

LEMMA SetInv ==
  ASSUME StreamInv, NEW patches \in Patches, Set(patches)
  PROVE  StreamInv'
<1>. DEFINE state == Apply(scene.store, patches)
            e == Entry("set", DOMAIN patches, state, scene.seq)
            f == SnapshotOf(scene')
<1>1. scene \in SceneRecord(Clients) /\ scene.log \in Seq(LogEntry) /\ SceneOK(scene)
  BY DEF StreamInv, TypeOK, SceneRecord
<1>2. scene' = Seeded(scene, patches) /\ scene' \in SceneRecord(Clients)
  <2>1. scene' = Seeded(scene, patches)
    BY DEF Set
  <2>2. Seeded(scene, patches) \in SceneRecord(Clients)
    BY <1>1, SceneOps
  <2>. QED  BY <2>1, <2>2
<1>3. /\ scene'.log = Append(scene.log, e) /\ scene'.store = state
      /\ scene'.seq = scene.seq /\ scene'.replay = scene.replay
      /\ scene'.subs = scene.subs
  BY <1>1, <1>2 DEF Seeded, SceneRecord
<1>4. state \in State /\ scene.store \in State /\ scene.seq \in Nat
      /\ DOMAIN patches \in SUBSET Paths
  BY <1>1, ApplyType, PatchesType DEF SceneRecord
<1>5. /\ e \in LogEntry /\ e.kind = "set" /\ e.state = state
      /\ e.seq = scene.seq /\ e.wrote = DOMAIN patches
  BY <1>4 DEF Entry, LogEntry
<1>6. Follows(scene.log, e)
  <2>1. \A p \in Paths \ DOMAIN patches : state[p] = scene.store[p]
    BY <1>4, ApplyAt
  <2>. HIDE DEF e, state
  <2>. QED  BY <1>1, <1>5, <2>1 DEF Follows, SceneOK
<1>. HIDE DEF e, state
<1>7. SceneOK(scene')
  BY <1>1, <1>2, <1>3, <1>5, <1>6, SceneAppend
<1>8. f \in Frame /\ FrameOK(f, scene'.log) /\ f.at = Len(scene.log) + 1
  <2>1. f \in Frame
    BY <1>2, SnapshotType DEF Frame
  <2>2. f.at = Len(scene'.log) /\ f.seq = scene'.seq /\ f.state = scene'.store
        /\ f.type = "snapshot"
    BY DEF SnapshotOf
  <2>3. Len(scene'.log) = Len(scene.log) + 1 /\ Len(scene'.log) \in 1..Len(scene'.log)
    BY <1>1, <1>3
  <2>. HIDE DEF f
  <2>. QED  BY <1>7, <2>1, <2>2, <2>3 DEF FrameOK, SceneOK
<1>. HIDE DEF f
<1>9. session' = session /\ client' = client
  BY DEF Set
<1>10. \A c \in Clients :
         \/ c \notin scene.subs /\ subs'[c] = subs[c]
         \/ c \in scene.subs /\ subs'[c] = PutNowait(subs[c], f)
         \/ c \in scene.subs /\ subs'[c] = [subs[c] EXCEPT !.stale = TRUE]
  <2>1. DOMAIN subs = Clients
    BY DEF StreamInv, TypeOK
  <2>2. subs' = RefreshAll(scene', subs)
    BY DEF Set
  <2>. QED  BY <1>3, <2>1, <2>2 DEF RefreshAll, SendOrDrop, f
<1>11. TypeOK'
  <2>1. \A c \in Clients : subs[c] \in Pipe(Frame)
    BY DEF StreamInv, TypeOK
  <2>2. subs' \in [Clients -> Pipe(Frame)]
    <3>1. \A c \in Clients : SendOrDrop(subs[c], f) \in Pipe(Frame)
      BY <1>8, <2>1, PipeOps
    <3>2. subs' = RefreshAll(scene', subs) /\ DOMAIN subs = Clients
      BY DEF Set, StreamInv, TypeOK
    <3>. QED  BY <2>1, <3>1, <3>2 DEF RefreshAll, f
  <2>. QED  BY <1>2, <1>9, <2>2 DEF StreamInv, TypeOK
<1>. QED  BY <1>3, <1>5, <1>7, <1>8, <1>9, <1>10, <1>11, PublishPreserves DEF StreamInv

LEMMA EmitInv ==
  ASSUME StreamInv, NEW patches \in Patches, Emit(patches)
  PROVE  StreamInv'
<1>. DEFINE state == Apply(scene.store, patches)
            seq == scene.seq + 1
            e == Entry("emit", DOMAIN patches, state, seq)
            r == [seq |-> seq, patches |-> patches, at |-> Len(scene.log) + 1]
            f == DeltaOf(scene', r)
<1>1. /\ scene \in SceneRecord(Clients) /\ scene.log \in Seq(LogEntry) /\ SceneOK(scene)
      /\ scene.replay \in Seq(Record) /\ scene.seq \in Nat /\ Len(scene.log) \in Nat
  BY DEF StreamInv, TypeOK, SceneRecord
<1>2. scene' = Emitted(scene, patches) /\ scene' \in SceneRecord(Clients)
  BY <1>1, SceneOps DEF Emit
<1>3. /\ scene'.log = Append(scene.log, e) /\ scene'.store = state
      /\ scene'.seq = seq /\ scene'.replay = Push(scene.replay, r)
      /\ scene'.subs = scene.subs
  BY <1>1, <1>2 DEF Emitted, SceneRecord, NextServer
<1>4. state \in State /\ scene.store \in State /\ seq \in Nat
      /\ DOMAIN patches \in SUBSET Paths
  BY <1>1, ApplyType, PatchesType DEF SceneRecord
<1>5. /\ e \in LogEntry /\ e.kind = "emit" /\ e.state = state
      /\ e.seq = seq /\ e.wrote = DOMAIN patches
  BY <1>4 DEF Entry, LogEntry
<1>6. r \in Record /\ r.seq = seq /\ r.patches = patches /\ r.at = Len(scene.log) + 1
  BY <1>1, <1>4 DEF Record
<1>7. Follows(scene.log, e)
  <2>1. \A p \in Paths \ DOMAIN patches : state[p] = scene.store[p]
    BY <1>4, ApplyAt
  <2>2. scene.seq = scene.log[Len(scene.log)].seq /\ seq = scene.seq + 1
    BY <1>1 DEF SceneOK
  <2>. HIDE DEF e, state, seq
  <2>. QED  BY <1>1, <1>5, <2>1, <2>2 DEF Follows, SceneOK
<1>8. \A p \in DOMAIN patches : patches[p] = state[p]
  BY <1>4, ApplyAt
<1>. HIDE DEF e, state, seq, r
<1>9. DeltaOK(r, scene'.log)
  <2>1. Len(scene'.log) = Len(scene.log) + 1 /\ scene'.log[Len(scene.log) + 1] = e
    BY <1>1, <1>3
  <2>. QED  BY <1>1, <1>5, <1>6, <1>8, <2>1 DEF DeltaOK
<1>10. SceneOK(scene')
  BY <1>1, <1>2, <1>3, <1>5, <1>6, <1>7, <1>9, SceneEmit
<1>11. scene'.replay[Len(scene'.replay)] = r
  BY <1>1, <1>3, <1>6, PushFacts
<1>12. f \in Frame /\ FrameOK(f, scene'.log) /\ f.at = Len(scene.log) + 1
  <2>1. f \in Frame
    BY <1>2, <1>6, DeltaType DEF Frame
  <2>2. f.type = "delta" /\ f.at = r.at /\ f.seq = r.seq /\ f.patches = r.patches
    BY DEF DeltaOf
  <2>. HIDE DEF f
  <2>3. DeltaOK(f, scene'.log)
    BY <1>9, <2>2 DEF DeltaOK
  <2>. QED  BY <1>6, <2>1, <2>2, <2>3 DEF FrameOK
<1>13. session' = session /\ client' = client
  BY DEF Emit
<1>14. DOMAIN subs = Clients /\ \A c \in Clients : subs[c] \in Pipe(Frame)
  BY DEF StreamInv, TypeOK
<1>15. \A c \in Clients :
         subs'[c] = IF c \in scene.subs THEN SendDelta(subs[c], f, SnapshotOf(scene'))
                                        ELSE subs[c]
  <2>1. subs' = FanOut(scene', subs)
    BY DEF Emit
  <2>. QED  BY <1>3, <1>11, <1>14, <2>1 DEF FanOut, f
<1>16. SnapshotOf(scene') \in Frame
  BY <1>2, SnapshotType DEF Frame
<1>17. subs' \in [Clients -> Pipe(Frame)]
  <2>1. \A c \in Clients : SendDelta(subs[c], f, SnapshotOf(scene')) \in Pipe(Frame)
    BY <1>12, <1>14, <1>16, PipeOps
  <2>2. DOMAIN subs' = Clients /\ subs' = [c \in Clients |-> subs'[c]]
    BY <1>14 DEF Emit, FanOut
  <2>3. \A c \in Clients : subs'[c] \in Pipe(Frame)
    BY <1>14, <1>15, <2>1
  <2>. QED  BY <2>2, <2>3
<1>. HIDE DEF f
<1>18. \A c \in Clients :
         \/ c \notin scene.subs /\ subs'[c] = subs[c]
         \/ c \in scene.subs /\ subs'[c] = PutNowait(subs[c], f)
         \/ c \in scene.subs /\ subs'[c] = [subs[c] EXCEPT !.stale = TRUE]
  BY <1>15 DEF SendDelta, SendOrDrop
<1>19. TypeOK'
  BY <1>2, <1>13, <1>17 DEF StreamInv, TypeOK
<1>. QED  BY <1>3, <1>5, <1>10, <1>12, <1>13, <1>18, <1>19, PublishPreserves DEF StreamInv

LEMMA ResetInv ==
  ASSUME StreamInv, Reset
  PROVE  StreamInv'
<1>. DEFINE e == Entry("reset", Paths, Blank, scene.seq)
<1>1. /\ scene \in SceneRecord(Clients) /\ scene.log \in Seq(LogEntry) /\ SceneOK(scene)
      /\ scene.seq \in Nat
  BY DEF StreamInv, TypeOK, SceneRecord
<1>2. scene' = Cleared(scene) /\ scene' \in SceneRecord(Clients)
  BY <1>1, SceneOps DEF Reset
<1>3. /\ scene'.log = Append(scene.log, e) /\ scene'.store = Blank
      /\ scene'.seq = scene.seq /\ scene'.replay = scene.replay
      /\ scene'.subs = {}
  BY <1>1, <1>2 DEF Cleared, SceneRecord
<1>4. /\ e \in LogEntry /\ e.kind = "reset" /\ e.state = Blank
      /\ e.seq = scene.seq /\ e.wrote = Paths
  <2>1. Blank \in State
    BY DEF Blank, State
  <2>. QED  BY <1>1, <2>1 DEF Entry, LogEntry
<1>. HIDE DEF e
<1>5. Follows(scene.log, e)
  BY <1>1, <1>4 DEF Follows, SceneOK
<1>6. SceneOK(scene')
  BY <1>1, <1>2, <1>3, <1>4, <1>5, SceneAppend
<1>7. session' = session /\ client' = client
  BY DEF Reset
<1>8. DOMAIN subs = Clients /\ \A c \in Clients : subs[c] \in Pipe(Frame)
  BY DEF StreamInv, TypeOK
<1>9. \A c \in Clients : subs'[c] = IF c \in scene.subs THEN Close(subs[c]) ELSE subs[c]
  BY <1>8 DEF Reset, CloseAll
<1>10. TypeOK'
  <2>1. \A c \in Clients : Close(subs[c]) \in Pipe(Frame)
    <3>. SUFFICES ASSUME NEW c \in Clients  PROVE Close(subs[c]) \in Pipe(Frame)
      OBVIOUS
    <3>1. SnapshotOf(scene) \in Frame
      BY <1>1, SnapshotType DEF Frame
    <3>. QED  BY <1>8, <3>1, PipeOps
  <2>2. subs' = [c \in Clients |-> subs'[c]]
    BY <1>8 DEF Reset, CloseAll
  <2>3. subs' \in [Clients -> Pipe(Frame)]
    BY <1>8, <1>9, <2>1, <2>2
  <2>. QED  BY <1>2, <1>7, <2>3 DEF StreamInv, TypeOK
<1>11. ASSUME NEW c \in Clients  PROVE SessionOK(c)' /\ NothingLostFor(c)'
  <2>. DEFINE q == subs[c].queue
              out == session[c].out
              cl == client[c]
  <2>1. SessionOK(c)
    BY DEF StreamInv
  <2>2. q \in Seq(Frame \cup {Sentinel}) /\ subs[c] \in Pipe(Frame)
    BY <1>8 DEF Pipe
  <2>3. /\ OutOK(out, scene'.log)
        /\ ClientOK(cl, scene'.log)
        /\ QueueOK(q, scene'.log, cl.at)
        /\ OrderOK(out, q, cl)
    BY <1>1, <1>3, <2>1, OutMono, ClientMono, QueueMono DEF SessionOK
  <2>4. /\ QueueOK(subs'[c].queue, scene'.log, cl.at)
        /\ OrderOK(out, subs'[c].queue, cl)
        /\ subs'[c].queue = q \/ c \in scene.subs
    <3>1. CASE c \notin scene.subs \/ subs[c].closed
      <4>1. subs'[c] = subs[c]
        <5>1. subs[c].closed => Close(subs[c]) = subs[c]
          BY DEF Close
        <5>. QED  BY <1>9, <3>1, <5>1, Zenon
      <4>. QED  BY <2>3, <4>1
    <3>2. CASE c \in scene.subs /\ ~subs[c].closed
      <4>. DEFINE q1 == IF IsFull(subs[c]) THEN Tail(q) ELSE q
      <4>1. subs'[c].queue = Append(q1, Sentinel)
        <5>1. subs'[c] = Close(subs[c])
          BY <1>9, <3>2, Zenon
        <5>2. Close(subs[c]).queue = Append(q1, Sentinel)
          BY <2>2, <3>2 DEF Close, Pipe
        <5>. QED  BY <5>1, <5>2
      <4>2. IsFull(subs[c]) => q # <<>>
        BY <2>2, QueueMaxAssumption DEF IsFull
      <4>3. q1 \in Seq(Frame \cup {Sentinel})
        BY <2>2, <4>2
      <4>. HIDE DEF q, out, cl
      <4>4. QueueOK(q1, scene'.log, cl.at) /\ OrderOK(out, q1, cl)
        BY <2>2, <2>3, <4>2, PopFrame
      <4>. HIDE DEF q1
      <4>. QED  BY <3>2, <4>1, <4>3, <4>4, PushSentinel
    <3>. QED  BY <3>1, <3>2
  <2>5. SessionOK(c)'
    BY <1>3, <1>7, <2>1, <2>3, <2>4 DEF SessionOK
  <2>6. ~Tracking(c)'
    BY <1>3 DEF Tracking
  <2>. QED  BY <2>5, <2>6 DEF NothingLostFor
<1>. QED  BY <1>6, <1>10, <1>11 DEF StreamInv, NothingLost

------------------------------------------------------------------------------
(* Steps of one session: the log and everybody else stay as they are.       *)

LEMMA OthersPreserved ==
  ASSUME StreamInv, NEW c \in Clients, scene'.log = scene.log,
         \A d \in Clients \ {c} : /\ subs'[d] = subs[d]
                                  /\ session'[d] = session[d]
                                  /\ client'[d] = client[d]
                                  /\ d \in scene'.subs <=> d \in scene.subs
  PROVE  \A d \in Clients \ {c} : SessionOK(d)' /\ NothingLostFor(d)'
<1>. SUFFICES ASSUME NEW d \in Clients \ {c}
              PROVE  SessionOK(d)' /\ NothingLostFor(d)'
  OBVIOUS
<1>1. SessionOK(d) /\ NothingLostFor(d)
  BY DEF StreamInv, NothingLost
<1>2. SessionOK(d)'
  BY <1>1 DEF SessionOK
<1>3. Tracking(d)' => Tracking(d)
  BY DEF Tracking
<1>4. \A j : OnItsWay(d, j) => OnItsWay(d, j)'
  BY DEF OnItsWay
<1>. QED  BY <1>1, <1>2, <1>3, <1>4 DEF NothingLostFor

(* A change of the subscribers alone leaves the scene's part in place.      *)
LEMMA SceneFrame ==
  ASSUME NEW sc, NEW sc2, SceneOK(sc), sc2.log = sc.log, sc2.store = sc.store,
         sc2.seq = sc.seq, sc2.replay = sc.replay
  PROVE  SceneOK(sc2)
BY DEF SceneOK

LEMMA ConnectInv ==
  ASSUME StreamInv, NEW c \in Clients, NEW since \in {0, client[c].cur}, Connect(c, since)
  PROVE  StreamInv'
<1>. DEFINE out == InitialFrames(scene, since)
            cl == client[c]
            n == Len(scene.log)
            new == [status |-> "on", out |-> out, base |-> n]
<1>1. /\ scene \in SceneRecord(Clients) /\ scene.log \in Seq(LogEntry) /\ SceneOK(scene)
      /\ n \in Nat
  BY DEF StreamInv, TypeOK, SceneRecord
<1>2. scene' = Attached(scene, c) /\ scene' \in SceneRecord(Clients)
  BY <1>1, SceneOps DEF Connect
<1>3. /\ scene'.log = scene.log /\ scene'.store = scene.store
      /\ scene'.seq = scene.seq /\ scene'.replay = scene.replay
      /\ scene'.subs = scene.subs \cup {c}
  BY <1>1, <1>2 DEF Attached, SceneRecord
<1>4. SceneOK(scene')
  BY <1>1, <1>3, SceneFrame
<1>5. /\ client' = client
      /\ session' = [session EXCEPT ![c] = new]
      /\ subs' = [subs EXCEPT ![c] = NewSubscription(TRUE)]
  BY DEF Connect
<1>6. /\ session \in [Clients -> [status : {"off", "on", "ended"}, out : Seq(Frame), base : Nat]]
      /\ subs \in [Clients -> Pipe(Frame)]
      /\ cl.at \in Nat /\ cl.cur \in Nat
  BY DEF StreamInv, TypeOK
<1>7. ClientOK(cl, scene.log)
  BY DEF StreamInv, SessionOK
<1>8. /\ out \in Seq(Frame)
      /\ OutOK(out, scene.log)
      /\ OrderOK(out, <<>>, cl)
      /\ cl.at = 0 => out # <<>> /\ out[1].type = "snapshot"
      /\ \A j \in cl.at + 1..n : scene.log[j].kind = "emit" =>
           \E i \in 1..Len(out) : \/ out[i].at = j
                                  \/ out[i].type = "snapshot" /\ out[i].at >= j
  <2>1. CASE Resumes(scene, since)
    <3>1. since = cl.cur
      BY <2>1 DEF Resumes
    <3>. DEFINE held == InitialFrames(scene, cl.cur)
    <3>2. cl.cur \in Nat /\ Resumes(scene, cl.cur) /\ out = held
      BY <1>6, <2>1, <3>1
    <3>. HIDE DEF cl, out
    <3>3. /\ held \in Seq(Frame)
          /\ OutOK(held, scene.log)
          /\ OrderOK(held, <<>>, cl)
          /\ cl.at > 0
          /\ \A j \in cl.at + 1..n : scene.log[j].kind = "emit" =>
               \E i \in 1..Len(held) : held[i].at = j
      BY <1>1, <1>7, <3>2, ReplayOutOK
    <3>. HIDE DEF held, n
    <3>4. /\ out \in Seq(Frame)
          /\ OutOK(out, scene.log)
          /\ OrderOK(out, <<>>, cl)
      BY <3>2, <3>3
    <3>5. cl.at # 0
      BY <3>3
    <3>6. \A j \in cl.at + 1..n : scene.log[j].kind = "emit" =>
            \E i \in 1..Len(out) : out[i].at = j
      BY <3>2, <3>3 DEF n
    <3>. QED  BY <3>4, <3>5, <3>6
  <2>2. CASE ~Resumes(scene, since)
    <3>1. out = <<SnapshotOf(scene)>>
      BY <2>2 DEF InitialFrames
    <3>. HIDE DEF out, cl, n
    <3>2. /\ out \in Seq(Frame) /\ Len(out) = 1
          /\ out[1].type = "snapshot" /\ out[1].at = n
          /\ OutOK(out, scene.log) /\ OrderOK(out, <<>>, cl)
      BY <1>1, <1>7, <3>1, SnapshotOutOK DEF n
    <3>3. out # <<>> /\ 1 \in 1..Len(out)
      <4>1. out # <<>>
        BY <3>1
      <4>2. 1 \in 1..Len(out)
        BY <3>2
      <4>. QED  BY <4>1, <4>2
    <3>4. \A j \in cl.at + 1..n : out[1].type = "snapshot" /\ out[1].at >= j
      BY <1>1, <1>6, <3>2 DEF n, cl
    <3>. QED  BY <3>2, <3>3, <3>4
  <2>. QED  BY <2>1, <2>2
<1>. HIDE DEF out
<1>9. new \in [status : {"off", "on", "ended"}, out : Seq(Frame), base : Nat]
  BY <1>1, <1>8
<1>10. TypeOK'
  <2>1. NewSubscription(TRUE) \in Pipe(Frame)
    BY NewSubscriptionType
  <2>2. subs' \in [Clients -> Pipe(Frame)]
    BY <1>5, <1>6, <2>1
  <2>3. session' \in [Clients -> [status : {"off", "on", "ended"}, out : Seq(Frame), base : Nat]]
    BY <1>5, <1>6, <1>9
  <2>. QED  BY <1>2, <1>5, <2>2, <2>3 DEF StreamInv, TypeOK
<1>11. /\ session'[c].status = "on" /\ session'[c].out = out /\ session'[c].base = n
       /\ subs'[c].queue = <<>> /\ client'[c] = cl
  BY <1>5, <1>6 DEF NewSubscription
<1>12. \A d \in Clients \ {c} : /\ subs'[d] = subs[d]
                                /\ session'[d] = session[d]
                                /\ client'[d] = client[d]
                                /\ d \in scene'.subs <=> d \in scene.subs
  BY <1>3, <1>5, <1>6
<1>. HIDE DEF new, cl, n
<1>13. SessionOK(c)'
  <2>1. QueueOK(<<>>, scene.log, cl.at)
    BY DEF QueueOK
  <2>. QED  BY <1>3, <1>7, <1>8, <1>11, <2>1 DEF SessionOK
<1>14. NothingLostFor(c)'
  <2>. SUFFICES ASSUME NEW j \in cl.at + 1..n, scene.log[j].kind = "emit" \/ j > n
                PROVE  OnItsWay(c, j)'
    BY <1>3, <1>11 DEF NothingLostFor, n
  <2>1. scene.log[j].kind = "emit"
    BY <1>1, <1>6 DEF n, cl
  <2>. QED  BY <1>8, <1>11, <2>1 DEF OnItsWay
<1>15. \A d \in Clients \ {c} : SessionOK(d)' /\ NothingLostFor(d)'
  BY <1>3, <1>12, OthersPreserved
<1>. QED  BY <1>4, <1>10, <1>13, <1>14, <1>15 DEF StreamInv, NothingLost

LEMMA HangupInv ==
  ASSUME StreamInv, NEW c \in Clients, Hangup(c), client' = client
  PROVE  StreamInv'
<1>1. scene \in SceneRecord(Clients) /\ scene.log \in Seq(LogEntry) /\ SceneOK(scene)
  BY DEF StreamInv, TypeOK, SceneRecord
<1>2. scene' = Detached(scene, c) /\ scene' \in SceneRecord(Clients)
  BY <1>1, SceneOps DEF Hangup
<1>3. /\ scene'.log = scene.log /\ scene'.store = scene.store
      /\ scene'.seq = scene.seq /\ scene'.replay = scene.replay
      /\ scene'.subs = scene.subs \ {c}
  BY <1>1, <1>2 DEF Detached, SceneRecord
<1>4. SceneOK(scene')
  BY <1>1, <1>3, SceneFrame
<1>5. /\ session' = [session EXCEPT ![c] = NoSession]
      /\ subs' = [subs EXCEPT ![c] = NewSubscription(TRUE)]
  BY DEF Hangup
<1>6. /\ session \in [Clients -> [status : {"off", "on", "ended"}, out : Seq(Frame), base : Nat]]
      /\ subs \in [Clients -> Pipe(Frame)]
  BY DEF StreamInv, TypeOK
<1>7. TypeOK'
  <2>1. NewSubscription(TRUE) \in Pipe(Frame)
    BY NewSubscriptionType
  <2>2. NoSession \in [status : {"off", "on", "ended"}, out : Seq(Frame), base : Nat]
    BY DEF NoSession
  <2>3. subs' \in [Clients -> Pipe(Frame)]
    BY <1>5, <1>6, <2>1
  <2>4. session' \in [Clients -> [status : {"off", "on", "ended"}, out : Seq(Frame), base : Nat]]
    BY <1>5, <1>6, <2>2
  <2>. QED  BY <1>2, <2>3, <2>4 DEF StreamInv, TypeOK
<1>8. /\ session'[c].status = "off" /\ session'[c].out = <<>>
      /\ subs'[c].queue = <<>> /\ c \notin scene'.subs
  BY <1>3, <1>5, <1>6 DEF NewSubscription, NoSession
<1>9. \A d \in Clients \ {c} : /\ subs'[d] = subs[d]
                               /\ session'[d] = session[d]
                               /\ client'[d] = client[d]
                               /\ d \in scene'.subs <=> d \in scene.subs
  BY <1>3, <1>5, <1>6
<1>10. SessionOK(c)'
  <2>1. ClientOK(client[c], scene.log)
    BY DEF StreamInv, SessionOK
  <2>2. /\ QueueOK(<<>>, scene.log, client[c].at)
        /\ OutOK(<<>>, scene.log)
        /\ OrderOK(<<>>, <<>>, client[c])
    BY DEF QueueOK, OutOK, OrderOK
  <2>. QED  BY <1>3, <1>8, <2>1, <2>2 DEF SessionOK
<1>11. NothingLostFor(c)'
  BY <1>8 DEF NothingLostFor, Tracking
<1>12. \A d \in Clients \ {c} : SessionOK(d)' /\ NothingLostFor(d)'
  BY <1>3, <1>9, OthersPreserved
<1>. QED  BY <1>4, <1>7, <1>10, <1>11, <1>12 DEF StreamInv, NothingLost

LEMMA WriterGetInv ==
  ASSUME StreamInv, NEW c \in Clients, WriterGet(c)
  PROVE  StreamInv'
<1>. DEFINE q == subs[c].queue
            q2 == Tail(q)
            msg == Head(q)
            cl == client[c]
            log == scene.log
<1>1. /\ scene' = scene /\ client' = client
      /\ subs' = [subs EXCEPT ![c].queue = Tail(@)]
      /\ session[c].status = "on" /\ session[c].out = <<>> /\ q # <<>>
      /\ session' = IF msg = Sentinel THEN [session EXCEPT ![c].status = "ended"]
                                      ELSE [session EXCEPT ![c].out = <<msg>>]
  BY DEF WriterGet
<1>2. /\ session \in [Clients -> [status : {"off", "on", "ended"}, out : Seq(Frame), base : Nat]]
      /\ subs \in [Clients -> Pipe(Frame)]
      /\ q \in Seq(Frame \cup {Sentinel})
      /\ cl.at \in Nat
      /\ log \in Seq(LogEntry)
  BY DEF StreamInv, TypeOK, Pipe, SceneRecord
<1>3. SessionOK(c) /\ NothingLostFor(c) /\ SceneOK(scene)
  BY DEF StreamInv, NothingLost
<1>4. /\ q2 \in Seq(Frame \cup {Sentinel})
      /\ Len(q) \in Nat
      /\ Len(q2) = Len(q) - 1
      /\ 1 \in 1..Len(q)
      /\ msg = q[1]
      /\ \A i \in 1..Len(q2) : i + 1 \in 1..Len(q) /\ q2[i] = q[i + 1]
      /\ \A i \in 1..Len(q) : i = 1 \/ (i - 1 \in 1..Len(q2) /\ q2[i - 1] = q[i])
  BY <1>1, <1>2
<1>5. subs'[c].queue = q2 /\ subs'[c].stale = subs[c].stale
  BY <1>1, <1>2 DEF Pipe
<1>6. \A d \in Clients \ {c} : /\ subs'[d] = subs[d]
                               /\ session'[d] = session[d]
                               /\ client'[d] = client[d]
                               /\ d \in scene'.subs <=> d \in scene.subs
  BY <1>1, <1>2
<1>7. subs' \in [Clients -> Pipe(Frame)]
  <2>1. [subs[c] EXCEPT !.queue = q2] \in Pipe(Frame)
    <3>. DEFINE F == Frame \cup {Sentinel}
    <3>1. subs[c] \in [queue : Seq(F), live : BOOLEAN, closed : BOOLEAN, stale : BOOLEAN]
      BY <1>2 DEF Pipe
    <3>2. q2 \in Seq(F)
      BY <1>4
    <3>. HIDE DEF F, q2
    <3>3. [subs[c] EXCEPT !.queue = q2]
            \in [queue : Seq(F), live : BOOLEAN, closed : BOOLEAN, stale : BOOLEAN]
      BY <3>1, <3>2
    <3>. QED  BY <3>3 DEF Pipe, F
  <2>2. subs' = [subs EXCEPT ![c] = [subs[c] EXCEPT !.queue = q2]]
    BY <1>1, <1>2
  <2>. HIDE DEF q2
  <2>. QED  BY <1>2, <2>1, <2>2
<1>8. QueueOK(q, log, cl.at) /\ ClientOK(cl, log)
  BY <1>3 DEF SessionOK
<1>. HIDE DEF q, q2, msg, log, cl
<1>9. QueueOK(q2, log, cl.at) /\ OrderOK(<<>>, q2, cl)
  <2>1. OrderOK(<<>>, q, cl)
    BY DEF OrderOK
  <2>. QED  BY <1>1, <1>2, <1>8, <2>1, PopFrame DEF q2
<1>10. CASE msg = Sentinel
  <2>1. /\ session'[c].status = "ended" /\ session'[c].out = <<>>
        /\ session'[c] \in [status : {"off", "on", "ended"}, out : Seq(Frame), base : Nat]
    BY <1>1, <1>2, <1>10
  <2>2. session' \in [Clients -> [status : {"off", "on", "ended"}, out : Seq(Frame), base : Nat]]
    BY <1>1, <1>2, <1>10
  <2>3. TypeOK'
    BY <1>1, <1>7, <2>2 DEF StreamInv, TypeOK
  <2>4. SessionOK(c)'
    <3>1. cl.at > 0
      BY <1>1, <1>2, <1>3 DEF SessionOK, cl
    <3>2. OutOK(<<>>, log)
      BY DEF OutOK
    <3>3. client'[c] = cl /\ scene'.log = log
      BY <1>1 DEF cl, log
    <3>. QED  BY <1>2, <1>5, <1>8, <1>9, <2>1, <3>1, <3>2, <3>3 DEF SessionOK
  <2>5. NothingLostFor(c)'
    BY <2>1 DEF NothingLostFor, Tracking
  <2>. QED  BY <1>1, <1>3, <1>6, <2>3, <2>4, <2>5, OthersPreserved DEF StreamInv, NothingLost
<1>11. CASE msg # Sentinel
  <2>1. msg \in Frame
    BY <1>2, <1>4, <1>11
  <2>2. <<msg>> \in Seq(Frame) /\ Len(<<msg>>) = 1 /\ <<msg>>[1] = msg
    BY <2>1
  <2>3. /\ session'[c].status = "on" /\ session'[c].out = <<msg>>
        /\ session'[c].base = session[c].base
    BY <1>1, <1>2, <1>11
  <2>4. session' \in [Clients -> [status : {"off", "on", "ended"}, out : Seq(Frame), base : Nat]]
    BY <1>1, <1>2, <1>11, <2>2
  <2>5. TypeOK'
    BY <1>1, <1>7, <2>4 DEF StreamInv, TypeOK
  <2>6. FrameOK(msg, log) /\ msg.at > cl.at
    BY <1>4, <1>8, <1>11 DEF QueueOK
  <2>7. OutOK(<<msg>>, log)
    BY <2>2, <2>6 DEF OutOK
  <2>8. OrderOK(<<msg>>, q2, cl)
    <3>1. msg.at \in Nat
      BY <2>6, <1>2 DEF FrameOK, DeltaOK
    <3>2. msg.at >= cl.at
      BY <1>2, <2>6, <3>1
    <3>3. \A j \in 1..Len(q2) : q2[j] # Sentinel => msg.at < q2[j].at
      <4>. SUFFICES ASSUME NEW j \in 1..Len(q2), q2[j] # Sentinel
                    PROVE  msg.at < q2[j].at
        OBVIOUS
      <4>1. j + 1 \in 1..Len(q) /\ 1 < j + 1 /\ q2[j] = q[j + 1]
        BY <1>4
      <4>2. q[1].at < q[j + 1].at
        BY <1>4, <1>8, <1>11, <4>1 DEF QueueOK
      <4>. QED  BY <1>4, <4>1, <4>2
    <3>. QED  BY <2>2, <2>6, <3>2, <3>3 DEF OrderOK
  <2>9. SessionOK(c)'
    <3>1. cl.at > 0
      BY <1>1, <1>2, <1>3 DEF SessionOK, cl
    <3>2. client'[c] = cl /\ scene'.log = log
      BY <1>1 DEF cl, log
    <3>. QED  BY <1>2, <1>5, <1>8, <1>9, <2>3, <2>7, <2>8, <3>1, <3>2 DEF SessionOK
  <2>10. NothingLostFor(c)'
    <3>1. Tracking(c)' => Tracking(c)
      BY <1>1, <1>5 DEF Tracking
    <3>2. \A j : OnItsWay(c, j) => OnItsWay(c, j)'
      <4>. SUFFICES ASSUME NEW j, OnItsWay(c, j)  PROVE OnItsWay(c, j)'
        OBVIOUS
      <4>1. PICK i \in 1..Len(q) : q[i] # Sentinel /\ q[i].at = j
        <5>1. Len(session[c].out) = 0
          BY <1>1
        <5>. QED  BY <5>1 DEF OnItsWay, q
      <4>2. CASE i = 1
        <5>1. 1 \in 1..Len(<<msg>>) /\ <<msg>>[1].at = j
          BY <1>4, <2>2, <4>1, <4>2
        <5>. QED  BY <2>3, <5>1 DEF OnItsWay
      <4>3. CASE i - 1 \in 1..Len(q2) /\ q2[i - 1] = q[i]
        BY <1>5, <4>1, <4>3 DEF OnItsWay
      <4>. QED  BY <1>4, <4>2, <4>3
    <3>. QED  BY <1>1, <1>3, <2>3, <3>1, <3>2 DEF NothingLostFor
  <2>. QED  BY <1>1, <1>3, <1>6, <2>5, <2>9, <2>10, OthersPreserved DEF StreamInv, NothingLost
<1>. QED  BY <1>10, <1>11

(* What a delta in hand is to its receiver: newer than everything it has,   *)
(* hence never a replay, and accepted only when no emission came between.   *)
LEMMA DeltaAhead ==
  ASSUME StreamInv, NEW c \in Clients, session[c].out # <<>>,
         Head(session[c].out).type = "delta"
  PROVE  LET f == Head(session[c].out)
             cl == client[c]
         IN  /\ cl.at \in 1..Len(scene.log) /\ f.at \in 1..Len(scene.log)
             /\ cl.at < f.at
             /\ DeltaOK(f, scene.log)
             /\ cl.cur = scene.log[cl.at].seq
             /\ cl.cur \in Nat /\ f.seq \in Nat
             /\ 1 <= cl.cur /\ cl.cur < f.seq
             /\ Verdict(c) \in {"accept", "gap"}
             /\ Verdict(c) = "accept" => f.seq = cl.cur + 1
<1>. DEFINE f == Head(session[c].out)
            cl == client[c]
            log == scene.log
            out == session[c].out
<1>1. /\ log \in Seq(LogEntry) /\ Len(log) \in Nat
      /\ out \in Seq(Frame)
      /\ cl.at \in Nat
      /\ session[c].status \in {"off", "on", "ended"}
  BY DEF StreamInv, TypeOK, SceneRecord
<1>2. SessionOK(c) /\ LogOK(log)
  BY DEF StreamInv, SceneOK
<1>3. 1 \in 1..Len(out) /\ f = out[1]
  BY <1>1
<1>4. /\ FrameOK(f, log) /\ f.at > cl.at
  BY <1>2, <1>3 DEF SessionOK, OutOK, OrderOK
<1>5. DeltaOK(f, log)
  BY <1>4 DEF FrameOK
<1>6. cl.at > 0
  BY <1>1, <1>2, <1>3 DEF SessionOK
<1>7. cl.at \in 1..Len(log) /\ cl.cur = log[cl.at].seq
  BY <1>1, <1>2, <1>6 DEF SessionOK, ClientOK
<1>8. f.at \in 1..Len(log) /\ f.seq = log[f.at].seq /\ log[f.at].kind = "emit"
  BY <1>5 DEF DeltaOK
<1>. HIDE DEF f, cl, log, out
<1>9. \A i \in 1..Len(log) : log[i].seq \in Nat
  <2>1. \A i \in 1..Len(log) : log[i] \in LogEntry
    BY <1>1
  <2>. QED  BY <2>1 DEF LogEntry
<1>10. cl.cur < f.seq
  <2>1. \A i, j \in 1..Len(log) : i < j /\ log[j].kind = "emit" => log[i].seq < log[j].seq
    BY <1>2 DEF LogOK
  <2>2. cl.at < f.at
    BY <1>4, <1>7, <1>8
  <2>. QED  BY <1>7, <1>8, <2>1, <2>2
<1>11. 1 <= cl.cur
  <2>1. \A i, j \in 1..Len(log) : i < j => log[i].seq <= log[j].seq
    BY <1>2 DEF LogOK
  <2>2. log[1].seq = 1 /\ Len(log) >= 1
    BY <1>2 DEF LogOK
  <2>3. 1 \in 1..Len(log) /\ (cl.at = 1 \/ 1 < cl.at)
    BY <1>1, <1>7, <2>2
  <2>. QED  BY <1>7, <1>9, <2>1, <2>2, <2>3
<1>12. /\ Verdict(c) \in {"accept", "gap"}
       /\ Verdict(c) = "accept" => f.seq = cl.cur + 1
  <2>1. Verdict(c) = ObserveServer(cl.cur, f.seq)
    BY DEF Verdict, f, cl
  <2>2. cl.cur \in Nat /\ f.seq \in Nat
    BY <1>7, <1>8, <1>9
  <2>. QED  BY <1>10, <1>11, <2>1, <2>2 DEF ObserveServer, Fresh
<1>. QED
  BY <1>4, <1>5, <1>7, <1>8, <1>9, <1>10, <1>11, <1>12 DEF f, cl, log

(* What is left of a sequence without its head.                             *)
LEMMA TailFacts ==
  ASSUME NEW S, NEW s \in Seq(S), s # <<>>
  PROVE  /\ Tail(s) \in Seq(S)
         /\ 1 \in 1..Len(s)
         /\ Head(s) = s[1]
         /\ \A i \in 1..Len(Tail(s)) : i + 1 \in 1..Len(s) /\ 1 < i + 1 /\ Tail(s)[i] = s[i + 1]
         /\ \A i \in 1..Len(s) : i = 1 \/ (i - 1 \in 1..Len(Tail(s)) /\ Tail(s)[i - 1] = s[i])
<1>1. Tail(s) \in Seq(S) /\ Len(s) \in Nat /\ Len(s) >= 1 /\ Len(Tail(s)) = Len(s) - 1
  OBVIOUS
<1>2. \A i \in 1..Len(Tail(s)) : Tail(s)[i] = s[i + 1]
  OBVIOUS
<1>. QED  BY <1>1, <1>2

(* A receiver that takes the frame in hand, whichever it is.                *)
LEMMA AbsorbPreserves ==
  ASSUME StreamInv, NEW c \in Clients, session[c].out # <<>>, NEW cl2,
         cl2 \in [state : State, cur : Nat, at : Nat, owed : SUBSET Paths],
         cl2.at = Head(session[c].out).at, ClientOK(cl2, scene.log),
         client' = [client EXCEPT ![c] = cl2],
         session' = [session EXCEPT ![c].out = Tail(@)],
         scene' = scene, subs' = subs
  PROVE  StreamInv'
<1>. DEFINE out == session[c].out
            out2 == Tail(out)
            q == subs[c].queue
            log == scene.log
<1>1. /\ session \in [Clients -> [status : {"off", "on", "ended"}, out : Seq(Frame), base : Nat]]
      /\ client \in [Clients -> [state : State, cur : Nat, at : Nat, owed : SUBSET Paths]]
      /\ out \in Seq(Frame)
      /\ cl2.at \in Nat
      /\ log \in Seq(LogEntry)
      /\ q \in Seq(Frame \cup {Sentinel})
  BY DEF StreamInv, TypeOK, SceneRecord, Pipe
<1>2. /\ out2 \in Seq(Frame)
      /\ 1 \in 1..Len(out)
      /\ cl2.at = out[1].at
      /\ \A i \in 1..Len(out2) : i + 1 \in 1..Len(out) /\ 1 < i + 1 /\ out2[i] = out[i + 1]
      /\ \A i \in 1..Len(out) : i = 1 \/ (i - 1 \in 1..Len(out2) /\ out2[i - 1] = out[i])
  <2>1. out \in Seq(Frame) /\ out # <<>>
    BY <1>1
  <2>. HIDE DEF out
  <2>2. Head(out) = out[1]
    BY <2>1, TailFacts
  <2>3. cl2.at = out[1].at
    BY <2>2 DEF out
  <2>. QED  BY <2>1, <2>3, TailFacts
<1>3. /\ session'[c].status = session[c].status
      /\ session'[c].out = out2
      /\ session'[c].base = session[c].base
      /\ client'[c] = cl2
  BY <1>1
<1>4. session' \in [Clients -> [status : {"off", "on", "ended"}, out : Seq(Frame), base : Nat]]
  <2>1. [session[c] EXCEPT !.out = out2]
          \in [status : {"off", "on", "ended"}, out : Seq(Frame), base : Nat]
    <3>1. session[c] \in [status : {"off", "on", "ended"}, out : Seq(Frame), base : Nat]
      BY <1>1
    <3>2. out2 \in Seq(Frame)
      BY <1>2
    <3>. HIDE DEF out2
    <3>. QED  BY <3>1, <3>2
  <2>2. session' = [session EXCEPT ![c] = [session[c] EXCEPT !.out = out2]]
    BY <1>1
  <2>. HIDE DEF out2
  <2>. QED  BY <1>1, <2>1, <2>2
<1>5. TypeOK'
  BY <1>1, <1>4 DEF StreamInv, TypeOK
<1>6. \A d \in Clients \ {c} : /\ subs'[d] = subs[d]
                               /\ session'[d] = session[d]
                               /\ client'[d] = client[d]
                               /\ d \in scene'.subs <=> d \in scene.subs
  BY <1>1
<1>7. SessionOK(c) /\ NothingLostFor(c)
  BY DEF StreamInv, NothingLost
<1>8. OutOK(out, log) /\ QueueOK(q, log, client[c].at) /\ OrderOK(out, q, client[c])
  BY <1>7 DEF SessionOK
<1>. HIDE DEF out, out2, q, log
<1>9. \A i \in 1..Len(out2) : out2[i].at > cl2.at /\ out2[i].at >= cl2.at
  <2>. SUFFICES ASSUME NEW i \in 1..Len(out2)
                PROVE  out2[i].at > cl2.at /\ out2[i].at >= cl2.at
    OBVIOUS
  <2>1. out[1].at < out[i + 1].at
    BY <1>2, <1>8 DEF OutOK
  <2>2. FrameOK(out[i + 1], log)
    BY <1>2, <1>8 DEF OutOK
  <2>3. out[i + 1].at \in 1..Len(log)
    BY <2>2 DEF FrameOK, DeltaOK
  <2>4. cl2.at < out2[i].at /\ out2[i].at \in 1..Len(log)
    BY <1>2, <2>1, <2>3
  <2>5. cl2.at \in Nat /\ Len(log) \in Nat
    BY <1>1
  <2>. QED  BY <2>4, <2>5
<1>10. OutOK(out2, log)
  <2>1. \A i \in 1..Len(out2) : FrameOK(out2[i], log)
    BY <1>2, <1>8 DEF OutOK
  <2>2. \A i, j \in 1..Len(out2) : i < j => out2[i].at < out2[j].at
    <3>. SUFFICES ASSUME NEW i \in 1..Len(out2), NEW j \in 1..Len(out2), i < j
                  PROVE  out2[i].at < out2[j].at
      OBVIOUS
    <3>1. i + 1 < j + 1
      OBVIOUS
    <3>2. out[i + 1].at < out[j + 1].at
      BY <1>2, <1>8, <3>1 DEF OutOK
    <3>. QED  BY <1>2, <3>2
  <2>3. \A i \in 1..Len(out2) : out2[i].type # "snapshot"
    <3>. SUFFICES ASSUME NEW i \in 1..Len(out2), out2[i].type = "snapshot"
                  PROVE  FALSE
      OBVIOUS
    <3>1. Len(out) = 1
      BY <1>2, <1>8 DEF OutOK
    <3>. QED  BY <1>2, <3>1
  <2>. QED  BY <2>1, <2>2, <2>3 DEF OutOK
<1>11. QueueOK(q, log, cl2.at)
  <2>1. \A i \in 1..Len(q) : q[i] # Sentinel => q[i].at > cl2.at
    <3>. SUFFICES ASSUME NEW i \in 1..Len(q), q[i] # Sentinel  PROVE q[i].at > cl2.at
      OBVIOUS
    <3>1. out[1].at < q[i].at
      BY <1>2, <1>8 DEF OrderOK
    <3>2. FrameOK(q[i], log)
      BY <1>8 DEF QueueOK
    <3>3. q[i].at \in 1..Len(log)
      BY <3>2 DEF FrameOK, DeltaOK
    <3>. QED  BY <1>1, <1>2, <3>1, <3>3
  <2>. QED  BY <1>8, <2>1 DEF QueueOK
<1>12. OrderOK(out2, q, cl2)
  <2>1. \A i \in 1..Len(out2), j \in 1..Len(q) : q[j] # Sentinel => out2[i].at < q[j].at
    BY <1>2, <1>8 DEF OrderOK
  <2>. QED  BY <1>9, <2>1 DEF OrderOK
<1>13. cl2.at # 0
  <2>1. FrameOK(out[1], log)
    BY <1>2, <1>8 DEF OutOK
  <2>2. out[1].at \in 1..Len(log)
    BY <2>1 DEF FrameOK, DeltaOK
  <2>. QED  BY <1>2, <2>2
<1>14. session[c].status # "off" /\ session[c].status # "ended"
  BY <1>7 DEF SessionOK
<1>15. SessionOK(c)'
  <2>1. subs'[c].queue = q /\ scene'.log = log
    BY DEF q, log
  <2>2. ClientOK(cl2, log)
    BY DEF log
  <2>. QED  BY <1>3, <1>10, <1>11, <1>12, <1>13, <1>14, <2>1, <2>2 DEF SessionOK
<1>16. NothingLostFor(c)'
  <2>. SUFFICES ASSUME Tracking(c)', NEW j \in cl2.at + 1..Len(log),
                       log[j].kind = "emit" \/ j > session[c].base
                PROVE  OnItsWay(c, j)'
    BY <1>3 DEF NothingLostFor, log
  <2>1. Tracking(c)
    BY <1>3 DEF Tracking
  <2>2. j \in client[c].at + 1..Len(log)
    <3>1. out[1].at >= client[c].at /\ client[c].at \in Nat
      BY <1>1, <1>2, <1>8 DEF OrderOK
    <3>2. cl2.at \in Nat /\ cl2.at >= client[c].at /\ Len(log) \in Nat
      BY <1>1, <1>2, <3>1
    <3>. DEFINE a == client[c].at
                b == cl2.at
                m == Len(log)
    <3>3. a \in Nat /\ b \in Nat /\ m \in Nat /\ a <= b /\ j \in b + 1..m
      BY <3>1, <3>2
    <3>. HIDE DEF a, b, m
    <3>4. j \in a + 1..m
      BY <3>3
    <3>. QED  BY <3>4 DEF a, m
  <2>3. OnItsWay(c, j)
    BY <1>7, <2>1, <2>2 DEF NothingLostFor, log
  <2>4. ASSUME NEW i \in 1..Len(out),
               \/ out[i].at = j
               \/ out[i].type = "snapshot" /\ out[i].at >= j
        PROVE  OnItsWay(c, j)'
    <3>1. out[i].at >= j
      BY <1>1, <2>4
    <3>2. i # 1
      BY <1>1, <1>2, <3>1
    <3>3. i - 1 \in 1..Len(out2) /\ out2[i - 1] = out[i]
      BY <1>2, <3>2
    <3>. QED  BY <1>3, <2>4, <3>3 DEF OnItsWay
  <2>5. ASSUME NEW i \in 1..Len(q), q[i] # Sentinel /\ q[i].at = j
        PROVE  OnItsWay(c, j)'
    BY <2>5 DEF OnItsWay, q
  <2>. QED  BY <2>3, <2>4, <2>5 DEF OnItsWay, out, q
<1>. QED  BY <1>5, <1>6, <1>15, <1>16, OthersPreserved DEF StreamInv, NothingLost

LEMMA SnapshotAbsorbed ==
  ASSUME StreamInv, NEW c \in Clients, session[c].out # <<>>,
         Head(session[c].out).type = "snapshot"
  PROVE  LET f == Head(session[c].out)
             cl2 == AbsorbSnapshot(client[c], f)
         IN  /\ cl2 \in [state : State, cur : Nat, at : Nat, owed : SUBSET Paths]
             /\ cl2.at = f.at
             /\ cl2.at >= client[c].at
             /\ ClientOK(cl2, scene.log)
<1>. DEFINE f == Head(session[c].out)
            log == scene.log
            out == session[c].out
            cl2 == AbsorbSnapshot(client[c], f)
<1>1. log \in Seq(LogEntry) /\ out \in Seq(Frame)
  BY DEF StreamInv, TypeOK, SceneRecord
<1>2. SessionOK(c) /\ LogOK(log)
  BY DEF StreamInv, SceneOK
<1>3. 1 \in 1..Len(out) /\ f = out[1]
  BY <1>1
<1>4. FrameOK(f, log) /\ f.at >= client[c].at
  BY <1>2, <1>3 DEF SessionOK, OutOK, OrderOK
<1>5. f \in Snapshot
  BY <1>1, <1>3 DEF Frame, Delta
<1>. HIDE DEF f, log, out
<1>6. f.type = "snapshot"
  BY DEF f
<1>7. f.at \in 1..Len(log) /\ f.seq = log[f.at].seq /\ f.state = log[f.at].state
  BY <1>4, <1>6 DEF FrameOK
<1>8. f.state \in State /\ f.seq \in Nat /\ f.at \in Nat
  BY <1>5 DEF Snapshot
<1>9. f.seq >= 1
  <2>1. \A i, j \in 1..Len(log) : i < j => log[i].seq <= log[j].seq
    BY <1>2 DEF LogOK
  <2>2. log[1].seq = 1 /\ Len(log) \in Nat /\ Len(log) >= 1
    BY <1>1, <1>2 DEF LogOK
  <2>3. 1 \in 1..Len(log) /\ (f.at = 1 \/ 1 < f.at)
    BY <1>7, <2>2
  <2>4. f.at = 1 \/ 1 <= log[f.at].seq
    BY <1>7, <2>1, <2>2, <2>3
  <2>. QED  BY <1>7, <1>8, <2>2, <2>4
<1>10. /\ cl2.state = f.state /\ cl2.cur = f.seq /\ cl2.at = f.at /\ cl2.owed = {}
       /\ cl2 = [state |-> f.state, cur |-> f.seq, at |-> f.at, owed |-> {}]
  BY <1>9 DEF AbsorbSnapshot, ObserveSnapshot
<1>11. cl2 \in [state : State, cur : Nat, at : Nat, owed : SUBSET Paths]
  BY <1>8, <1>10
<1>12. ClientOK(cl2, log)
  <2>. HIDE DEF cl2
  <2>1. cl2.at \in 1..Len(log) /\ cl2.cur = log[cl2.at].seq /\ cl2.state = log[cl2.at].state
    BY <1>7, <1>10
  <2>. QED  BY <2>1 DEF ClientOK
<1>. QED  BY <1>4, <1>10, <1>11, <1>12 DEF f, log

LEMMA DeltaAbsorbed ==
  ASSUME StreamInv, NEW c \in Clients, session[c].out # <<>>,
         Head(session[c].out).type = "delta", Verdict(c) = "accept"
  PROVE  LET f == Head(session[c].out)
             cl2 == AbsorbDelta(client[c], f)
         IN  /\ cl2 \in [state : State, cur : Nat, at : Nat, owed : SUBSET Paths]
             /\ cl2.at = f.at
             /\ cl2.at >= client[c].at
             /\ ClientOK(cl2, scene.log)
<1>. DEFINE f == Head(session[c].out)
            cl == client[c]
            log == scene.log
            cl2 == AbsorbDelta(cl, f)
            missed == Unannounced(cl.at, f.at)
            state == Apply(cl.state, f.patches)
            owed == (cl.owed \cup missed) \ DOMAIN f.patches
<1>1. /\ cl.at \in 1..Len(log) /\ f.at \in 1..Len(log) /\ cl.at < f.at
      /\ DeltaOK(f, log)
      /\ cl.cur = log[cl.at].seq
      /\ cl.cur \in Nat /\ f.seq \in Nat
      /\ f.seq = cl.cur + 1
  BY DeltaAhead
<1>2. /\ log \in Seq(LogEntry)
      /\ session[c].out \in Seq(Frame)
      /\ cl.state \in State /\ cl.owed \in SUBSET Paths
  BY DEF StreamInv, TypeOK, SceneRecord
<1>3. LogOK(log) /\ ClientOK(cl, log)
  BY DEF StreamInv, SceneOK, SessionOK
<1>4. f \in Delta
  <2>1. f \in Frame
    BY <1>2
  <2>. QED  BY <2>1 DEF Frame, Snapshot
<1>5. cl2 = [state |-> state, cur |-> f.seq, at |-> f.at, owed |-> owed]
  BY DEF AbsorbDelta, Verdict
<1>. HIDE DEF f, cl, cl2, log
<1>6. /\ f.patches \in Patches
      /\ state \in State
      /\ f.at \in Nat
  BY <1>2, <1>4, ApplyType DEF Delta
<1>7. missed \in SUBSET Paths
  <2>1. \A j \in 1..Len(log) : log[j].wrote \in SUBSET Paths
    <3>1. \A j \in 1..Len(log) : log[j] \in LogEntry
      BY <1>2
    <3>. QED  BY <3>1 DEF LogEntry
  <2>2. \A j \in cl.at + 1..f.at - 1 : j \in 1..Len(log)
    BY <1>1
  <2>. QED  BY <2>1, <2>2 DEF Unannounced, log
<1>8. \A m \in cl.at + 1..f.at - 1 : log[m].kind # "emit"
  <2>. SUFFICES ASSUME NEW m \in cl.at + 1..f.at - 1, log[m].kind = "emit"
                PROVE  FALSE
    OBVIOUS
  <2>1. m \in 1..Len(log) /\ cl.at < m /\ m < f.at
    BY <1>1
  <2>2. log[m] \in LogEntry
    BY <1>2, <2>1
  <2>3. log[m].seq \in Nat
    BY <2>2 DEF LogEntry
  <2>4. \A i, j \in 1..Len(log) : i < j /\ log[j].kind = "emit" => log[i].seq < log[j].seq
    BY <1>3 DEF LogOK
  <2>5. f.seq = log[f.at].seq /\ log[f.at].kind = "emit"
    BY <1>1 DEF DeltaOK
  <2>6. log[cl.at].seq < log[m].seq /\ log[m].seq < log[f.at].seq
    BY <1>1, <2>1, <2>4, <2>5
  <2>. QED  BY <1>1, <2>3, <2>5, <2>6
<1>9. ASSUME NEW p \in Paths \ owed
      PROVE  state[p] = log[f.at].state[p]
  <2>1. CASE p \in DOMAIN f.patches
    <3>1. state[p] = f.patches[p]
      BY <1>2, <1>6, <2>1, ApplyAt
    <3>2. f.patches[p] = log[f.at].state[p]
      BY <1>1, <2>1 DEF DeltaOK
    <3>. QED  BY <3>1, <3>2
  <2>2. CASE p \notin DOMAIN f.patches
    <3>1. p \notin cl.owed /\ p \notin missed
      BY <2>2
    <3>2. state[p] = cl.state[p]
      BY <1>2, <1>6, <2>2, ApplyAt
    <3>3. cl.state[p] = log[cl.at].state[p]
      BY <1>1, <1>3, <3>1 DEF ClientOK
    <3>4. \A m \in cl.at + 1..f.at : p \notin log[m].wrote
      <4>. SUFFICES ASSUME NEW m \in cl.at + 1..f.at  PROVE p \notin log[m].wrote
        OBVIOUS
      <4>1. CASE m = f.at
        BY <1>1, <2>2, <4>1 DEF DeltaOK
      <4>2. CASE m \in cl.at + 1..f.at - 1
        <5>1. log[m].kind # "emit"
          BY <1>8, <4>2
        <5>. QED  BY <3>1, <4>2, <5>1 DEF Unannounced, log
      <4>. QED  BY <1>1, <4>1, <4>2
    <3>5. log[cl.at].state[p] = log[f.at].state[p]
      <4>1. cl.at <= f.at
        BY <1>1
      <4>2. \A i, j \in 1..Len(log) : \A x \in Paths :
              i <= j /\ (\A m \in i+1..j : x \notin log[m].wrote)
                => log[i].state[x] = log[j].state[x]
        BY <1>3 DEF LogOK
      <4>. QED  BY <1>1, <3>4, <4>1, <4>2
    <3>. QED  BY <3>2, <3>3, <3>5
  <2>. QED  BY <2>1, <2>2
<1>10. owed \in SUBSET Paths
  BY <1>2, <1>7
<1>. HIDE DEF state, owed, missed
<1>11. cl2 \in [state : State, cur : Nat, at : Nat, owed : SUBSET Paths]
  BY <1>1, <1>5, <1>6, <1>10
<1>12. cl2.at = f.at /\ cl2.cur = f.seq /\ cl2.state = state /\ cl2.owed = owed
  BY <1>5
<1>13. cl2.at >= cl.at
  BY <1>1, <1>12
<1>14. ClientOK(cl2, log)
  <2>1. f.seq = log[f.at].seq
    BY <1>1 DEF DeltaOK
  <2>. QED  BY <1>1, <1>9, <1>12, <2>1 DEF ClientOK
<1>. QED  BY <1>11, <1>12, <1>13, <1>14 DEF f, cl, cl2, log

(* The receiver's half of Receive: the frame in hand is taken, not dropped. *)
LEMMA ReceiveFacts ==
  ASSUME StreamInv, NEW c \in Clients, Receive(c)
  PROVE  \E cl2 \in [state : State, cur : Nat, at : Nat, owed : SUBSET Paths] :
           /\ cl2.at = Head(session[c].out).at
           /\ cl2.at >= client[c].at
           /\ ClientOK(cl2, scene.log)
           /\ client' = [client EXCEPT ![c] = cl2]
<1>. DEFINE f == Head(session[c].out)
<1>1. session[c].out # <<>>
  BY DEF Receive
<1>2. \/ f.type = "snapshot" /\ client' = [client EXCEPT ![c] = AbsorbSnapshot(client[c], f)]
      \/ /\ f.type = "delta" /\ Verdict(c) # "gap"
         /\ client' = [client EXCEPT ![c] = AbsorbDelta(client[c], f)]
  BY DEF Receive
<1>. HIDE DEF f
<1>3. CASE /\ f.type = "snapshot"
           /\ client' = [client EXCEPT ![c] = AbsorbSnapshot(client[c], f)]
  BY <1>1, <1>3, SnapshotAbsorbed DEF f
<1>4. CASE /\ f.type = "delta" /\ Verdict(c) # "gap"
           /\ client' = [client EXCEPT ![c] = AbsorbDelta(client[c], f)]
  <2>1. Verdict(c) = "accept"
    <3>1. Head(session[c].out).type = "delta"
      BY <1>4 DEF f
    <3>2. Verdict(c) \in {"accept", "gap"}
      BY <1>1, <3>1, DeltaAhead
    <3>. QED  BY <1>4, <3>2
  <2>. QED  BY <1>1, <1>4, <2>1, DeltaAbsorbed DEF f
<1>. QED  BY <1>2, <1>3, <1>4

LEMMA ReceiveInv ==
  ASSUME StreamInv, NEW c \in Clients, Receive(c)
  PROVE  StreamInv'
<1>1. session[c].out # <<>> /\ session' = [session EXCEPT ![c].out = Tail(@)]
      /\ scene' = scene /\ subs' = subs
  BY DEF Receive
<1>2. PICK cl2 \in [state : State, cur : Nat, at : Nat, owed : SUBSET Paths] :
        /\ cl2.at = Head(session[c].out).at
        /\ cl2.at >= client[c].at
        /\ ClientOK(cl2, scene.log)
        /\ client' = [client EXCEPT ![c] = cl2]
  BY ReceiveFacts
<1>. QED  BY <1>1, <1>2, AbsorbPreserves

LEMMA NextInv ==
  ASSUME StreamInv, [Next]_vars
  PROVE  StreamInv'
<1>1. CASE \E patches \in Patches : Set(patches) \/ Emit(patches)
  BY <1>1, SetInv, EmitInv
<1>2. CASE Reset
  BY <1>2, ResetInv
<1>3. CASE \E c \in Clients : \E since \in {0, client[c].cur} : Connect(c, since)
  BY <1>3, ConnectInv
<1>4. CASE \E c \in Clients : WriterGet(c)
  BY <1>4, WriterGetInv
<1>5. CASE \E c \in Clients : Receive(c)
  BY <1>5, ReceiveInv
<1>6. CASE \E c \in Clients : DetectGap(c) \/ Leave(c)
  BY <1>6, HangupInv DEF DetectGap, Leave
<1>7. CASE UNCHANGED vars
  BY <1>7 DEF vars, StreamInv, TypeOK, SceneOK, SessionOK, NothingLost, NothingLostFor,
              Tracking, OnItsWay
<1>. QED  BY <1>1, <1>2, <1>3, <1>4, <1>5, <1>6, <1>7 DEF Next

------------------------------------------------------------------------------
(* The theorems.                                                            *)

(* The inductive invariant holds in every behaviour of the code: the store, *)
(* the replay buffer, the queues, what a writer has in hand and what a      *)
(* receiver knows are all positions in one history, in order.               *)
THEOREM Invariance == Spec => []StreamInv
<1>1. Init => StreamInv
  BY InitInv
<1>2. StreamInv /\ [Next]_vars => StreamInv'
  BY NextInv
<1>. QED  BY <1>1, <1>2, PTL DEF Spec

(* Every frame, record and tracker has the type its annotation states.      *)
THEOREM TypeCorrect == Spec => []TypeOK
<1>1. StreamInv => TypeOK
  BY DEF StreamInv
<1>. QED  BY <1>1, Invariance, PTL

(* For any number of receivers and any queue and ring sizes, a receiver's   *)
(* copy is a past state of the store but for leaves it was never told of.   *)
THEOREM OnlyOwedIsWrong == Spec => []WrongOnlyIfOwed
<1>1. StreamInv => WrongOnlyIfOwed
  <2>. SUFFICES ASSUME StreamInv, NEW c \in Clients, client[c].at > 0,
                       NEW p \in Paths \ client[c].owed
                PROVE  client[c].state[p] = scene.log[client[c].at].state[p]
    BY DEF WrongOnlyIfOwed
  <2>1. ClientOK(client[c], scene.log)
    BY DEF StreamInv, SessionOK
  <2>. QED  BY <2>1 DEF ClientOK
<1>. QED  BY <1>1, Invariance, PTL

(* subscribe_with_resume, the queue and the writer lose nothing of what a   *)
(* tracking receiver still needs.                                           *)
THEOREM LosesNothing == Spec => []NothingLost
<1>1. StreamInv => NothingLost
  BY DEF StreamInv
<1>. QED  BY <1>1, Invariance, PTL

(* Replay and live stream meet without hole or overlap: the delta in hand   *)
(* of a tracking receiver is the next one, and nobody gets one twice.       *)
THEOREM DeliversExactlyOnce == Spec => []ExactlyOnce
<1>1. StreamInv => ExactlyOnce
  <2>. SUFFICES ASSUME StreamInv, NEW c \in Clients, session[c].out # <<>>,
                       Head(session[c].out).type = "delta"
                PROVE  Verdict(c) # "replay" /\ (Tracking(c) => Verdict(c) = "accept")
    BY DEF ExactlyOnce
  <2>. DEFINE out == session[c].out
              f == Head(out)
              cl == client[c]
              log == scene.log
              q == subs[c].queue
  <2>1. /\ cl.at \in 1..Len(log) /\ f.at \in 1..Len(log) /\ cl.at < f.at
        /\ DeltaOK(f, log)
        /\ cl.cur = log[cl.at].seq
        /\ cl.cur \in Nat /\ f.seq \in Nat
        /\ 1 <= cl.cur /\ cl.cur < f.seq
        /\ Verdict(c) \in {"accept", "gap"}
    BY DeltaAhead
  <2>2. out \in Seq(Frame) /\ Len(log) \in Nat
    BY DEF StreamInv, TypeOK, SceneRecord
  <2>3. 1 \in 1..Len(out) /\ f = out[1]
    BY <2>2
  <2>4. OutOK(out, log) /\ OrderOK(out, q, cl) /\ LogOK(log) /\ NothingLostFor(c)
    BY DEF StreamInv, SessionOK, SceneOK, NothingLost
  <2>5. ASSUME Tracking(c)  PROVE f.seq = cl.cur + 1
    <3>. HIDE DEF out, f, cl, log, q
    <3>1. ASSUME NEW m \in cl.at + 1..f.at - 1  PROVE log[m].kind # "emit"
      <4>. SUFFICES ASSUME log[m].kind = "emit"  PROVE FALSE
        OBVIOUS
      <4>1. m \in cl.at + 1..Len(log) /\ m < f.at
        <5>. DEFINE a == cl.at
                    b == f.at
                    n == Len(log)
        <5>1. a \in 1..n /\ b \in 1..n /\ n \in Nat /\ m \in a + 1..b - 1
          BY <2>1, <2>2
        <5>. HIDE DEF a, b, n
        <5>2. m \in a + 1..n /\ m < b
          BY <5>1
        <5>. QED  BY <5>2 DEF a, b, n
      <4>2. OnItsWay(c, m)
        BY <2>4, <2>5, <4>1 DEF NothingLostFor, cl, log
      <4>3. ASSUME NEW i \in 1..Len(out), out[i].at = m  PROVE FALSE
        <5>1. i = 1 \/ 1 < i
          OBVIOUS
        <5>2. i = 1 \/ out[1].at < out[i].at
          BY <2>3, <2>4, <5>1 DEF OutOK
        <5>. QED  BY <2>1, <2>3, <4>1, <4>3, <5>2
      <4>4. ASSUME NEW i \in 1..Len(out), out[i].type = "snapshot"  PROVE FALSE
        <5>1. Len(out) = 1
          BY <2>4, <4>4 DEF OutOK
        <5>2. f.type = "delta"
          BY DEF f, out
        <5>. QED  BY <2>3, <4>4, <5>1, <5>2
      <4>5. ASSUME NEW i \in 1..Len(q), q[i] # Sentinel, q[i].at = m  PROVE FALSE
        <5>1. out[1].at < q[i].at
          BY <2>3, <2>4, <4>5 DEF OrderOK
        <5>. QED  BY <2>1, <2>3, <4>1, <4>5, <5>1
      <4>. QED  BY <4>2, <4>3, <4>4, <4>5 DEF OnItsWay, out, q
    <3>2. f.seq = log[f.at].seq /\ log[f.at].kind = "emit"
      BY <2>1 DEF DeltaOK
    <3>3. \A i, j \in 1..Len(log) :
            i < j /\ (\A m \in i+1..j-1 : log[m].kind # "emit") /\ log[j].kind = "emit"
              => log[j].seq = log[i].seq + 1
      BY <2>4 DEF LogOK
    <3>. QED  BY <2>1, <3>1, <3>2, <3>3
  <2>6. ASSUME Tracking(c)  PROVE Verdict(c) = "accept"
    <3>1. Verdict(c) = ObserveServer(cl.cur, f.seq)
      BY DEF Verdict
    <3>. HIDE DEF cl, f
    <3>. QED  BY <2>1, <2>5, <2>6, <3>1 DEF ObserveServer, Fresh
  <2>7. Verdict(c) # "replay"
    BY <2>1
  <2>. QED  BY <2>6, <2>7
<1>. QED  BY <1>1, Invariance, PTL

(* A tracking receiver with nothing left to receive has the scene's state,  *)
(* but for the leaves changed by Set or Reset while it was away.            *)
THEOREM CurrentOnceDrained == Spec => []DrainedIsCurrent
<1>1. StreamInv => DrainedIsCurrent
  <2>. SUFFICES ASSUME StreamInv, NEW c \in Clients, Tracking(c), Pending(c) = <<>>,
                       NEW p \in Paths \ Doubtful(c)
                PROVE  client[c].state[p] = scene.store[p]
    BY DEF DrainedIsCurrent
  <2>. DEFINE out == session[c].out
              cl == client[c]
              log == scene.log
              q == subs[c].queue
              n == Len(scene.log)
  <2>1. /\ out \in Seq(Frame) /\ q \in Seq(Frame \cup {Sentinel})
        /\ log \in Seq(LogEntry) /\ n \in Nat /\ cl.at \in Nat
    BY DEF StreamInv, TypeOK, SceneRecord, Pipe
  <2>2. out = <<>> /\ q = <<>>
    <3>1. out \in Seq(Frame \cup {Sentinel})
      BY <2>1
    <3>2. out \o q = <<>>
      BY DEF Pending
    <3>. HIDE DEF out, q
    <3>. QED  BY <2>1, <3>1, <3>2, ConcatEmpty
  <2>3. SessionOK(c) /\ NothingLostFor(c) /\ SceneOK(scene) /\ session[c].status = "on"
    BY DEF StreamInv, NothingLost, Tracking
  <2>4. cl.at # 0
    BY <2>2, <2>3 DEF SessionOK
  <2>5. ClientOK(cl, log) /\ LogOK(log) /\ scene.store = log[n].state
    BY <2>3 DEF SessionOK, SceneOK
  <2>6. cl.at \in 1..n /\ n \in 1..n
    BY <2>1, <2>4, <2>5 DEF ClientOK
  <2>7. p \notin cl.owed /\ p \notin Unannounced(cl.at, n + 1)
    BY DEF Doubtful
  <2>. HIDE DEF out, cl, log, q, n
  <2>8. \A m \in cl.at + 1..n : log[m].kind # "emit"
    <3>. SUFFICES ASSUME NEW m \in cl.at + 1..n, log[m].kind = "emit"  PROVE FALSE
      OBVIOUS
    <3>1. OnItsWay(c, m)
      BY <2>3 DEF NothingLostFor, cl, log, n
    <3>2. Len(out) = 0 /\ Len(q) = 0
      BY <2>2
    <3>. QED  BY <3>1, <3>2 DEF OnItsWay, out, q
  <2>9. \A m \in cl.at + 1..n : p \notin log[m].wrote
    <3>1. \A m \in cl.at + 1..n : m \in cl.at + 1..(n + 1) - 1
      BY <2>1
    <3>. QED  BY <2>7, <2>8, <3>1 DEF Unannounced, log
  <2>10. log[cl.at].state[p] = log[n].state[p]
    <3>1. \A i, j \in 1..Len(log) : \A x \in Paths :
            i <= j /\ (\A m \in i+1..j : x \notin log[m].wrote)
              => log[i].state[x] = log[j].state[x]
      BY <2>5 DEF LogOK
    <3>2. cl.at <= n /\ n = Len(log)
      BY <2>6 DEF n, log
    <3>. QED  BY <2>6, <2>9, <3>1, <3>2
  <2>11. cl.state[p] = log[cl.at].state[p]
    BY <2>1, <2>6, <2>7, <2>5 DEF ClientOK
  <2>12. cl.state[p] = scene.store[p]
    BY <2>5, <2>10, <2>11
  <2>. QED  BY <2>12 DEF cl
<1>. QED  BY <1>1, Invariance, PTL

(* Every resume point the ring covers is answered by exactly the emissions  *)
(* after it, in order.                                                      *)
THEOREM ResumesCompletely == Spec => []ResumeComplete
<1>1. StreamInv => ResumeComplete
  <2>. SUFFICES ASSUME StreamInv, NEW since \in 1..scene.seq, Resumes(scene, since)
                PROVE  LET records == RecordsAfter(scene.replay, since)
                       IN  /\ Len(records) = scene.seq - since
                           /\ \A i \in 1..Len(records) : records[i].seq = since + i
    BY DEF ResumeComplete
  <2>. DEFINE b == scene.replay
              seq == scene.seq
              log == scene.log
              n == Len(scene.log)
              records == RecordsAfter(b, since)
              k == Skipped(b, since)
  <2>1. b \in Seq(Record) /\ seq \in Nat /\ log \in Seq(LogEntry) /\ n \in Nat
    BY DEF StreamInv, TypeOK, SceneRecord
  <2>2. Contiguous(b, seq) /\ LogOK(log) /\ seq = log[n].seq
    BY DEF StreamInv, SceneOK
  <2>3. b = <<>> => \A j \in 1..n : log[j].kind # "emit"
    BY DEF StreamInv, SceneOK
  <2>4. b # <<>> => since + 1 >= b[1].seq
    BY DEF Resumes, Covered
  <2>5. since \in Nat /\ 1 <= since /\ since <= seq
    BY <2>1
  <2>6. /\ k \in 0..Len(b)
        /\ Len(records) = Len(b) - k
        /\ \A i \in 1..Len(records) : records[i] = b[i + k]
    BY <2>1, <2>2, <2>5, RecordsAfterContiguous
  <2>7. \A i \in 1..Len(b) : (b[i].seq > since) <=> (i > k)
    BY <2>1, <2>2, <2>5, SkippedContiguous
  <2>. HIDE DEF b, seq, log, n, records, k
  <2>8. seq - since <= Len(b)
    <3>1. CASE b = <<>>
      <4>1. n >= 1 /\ n = Len(log) /\ log[1].seq = 1
        BY <2>2 DEF LogOK, n, log
      <4>2. \A i, j \in 1..n :
              i < j /\ (\A m \in i+1..j : log[m].kind # "emit") => log[i].seq = log[j].seq
        BY <2>2, <4>1 DEF LogOK
      <4>3. log[n].seq = 1
        <5>1. n = 1 \/ 1 < n
          BY <2>1, <4>1
        <5>2. 1 \in 1..n /\ n \in 1..n
          BY <2>1, <4>1
        <5>3. \A m \in 1 + 1..n : log[m].kind # "emit"
          BY <2>1, <2>3, <3>1
        <5>4. 1 < n => log[1].seq = log[n].seq
          BY <4>2, <5>2, <5>3
        <5>. QED  BY <4>1, <5>1, <5>4
      <4>4. Len(b) = 0
        BY <3>1
      <4>. QED  BY <2>1, <2>2, <2>5, <4>3, <4>4
    <3>2. CASE b # <<>>
      <4>1. Len(b) \in Nat /\ 1 \in 1..Len(b)
        BY <2>1, <3>2
      <4>2. b[1].seq = (seq - Len(b)) + 1
        BY <2>2, <4>1 DEF Contiguous
      <4>. QED  BY <2>1, <2>4, <2>5, <3>2, <4>1, <4>2
    <3>. QED  BY <3>1, <3>2
  <2>9. Len(b) \in Nat /\ \A i \in 1..Len(b) : b[i].seq = (seq - Len(b)) + i
    BY <2>1, <2>2 DEF Contiguous
  <2>10. k = Len(b) - (seq - since)
    <3>. DEFINE x == Len(b) - (seq - since)
    <3>1. x \in 0..Len(b)
      BY <2>1, <2>5, <2>8, <2>9
    <3>2. ~(x > k)
      <4>. SUFFICES ASSUME x > k  PROVE FALSE
        OBVIOUS
      <4>1. x \in 1..Len(b)
        BY <2>6, <3>1
      <4>2. b[x].seq = since /\ b[x].seq > since
        BY <2>1, <2>5, <2>7, <2>9, <4>1
      <4>. QED  BY <2>5, <4>2
    <3>3. ~(k > x)
      <4>. SUFFICES ASSUME k > x  PROVE FALSE
        OBVIOUS
      <4>1. x + 1 \in 1..Len(b) /\ ~(x + 1 > k)
        BY <2>6, <2>9, <3>1
      <4>2. b[x + 1].seq = since + 1 /\ ~(b[x + 1].seq > since)
        <5>1. b[x + 1].seq = (seq - Len(b)) + (x + 1)
          BY <2>9, <4>1
        <5>2. ~(b[x + 1].seq > since)
          BY <2>7, <4>1
        <5>. QED  BY <2>1, <2>5, <2>9, <5>1, <5>2
      <4>. QED  BY <2>5, <4>2
    <3>. QED  BY <2>6, <2>9, <3>1, <3>2, <3>3
  <2>11. Len(records) = seq - since
    BY <2>1, <2>5, <2>6, <2>9, <2>10
  <2>12. \A i \in 1..Len(records) : records[i].seq = since + i
    <3>. SUFFICES ASSUME NEW i \in 1..Len(records)  PROVE records[i].seq = since + i
      OBVIOUS
    <3>1. i + k \in 1..Len(b)
      BY <2>1, <2>5, <2>6, <2>9
    <3>2. records[i].seq = (seq - Len(b)) + (i + k)
      BY <2>6, <2>9, <3>1
    <3>. QED  BY <2>1, <2>5, <2>9, <2>10, <3>2
  <2>. QED  BY <2>11, <2>12 DEF b, seq, records
<1>. QED  BY <1>1, Invariance, PTL

(* No step, of any length of run and over any number of reconnections,      *)
(* takes a receiver back in time.                                           *)
THEOREM NeverGoesBack == Spec => NeverBackwards
<1>1. StreamInv /\ [Next]_vars => [\A c \in Clients : client'[c].at >= client[c].at]_vars
  <2>. SUFFICES ASSUME StreamInv, [Next]_vars, NEW c \in Clients
                PROVE  client'[c].at >= client[c].at
    OBVIOUS
  <2>1. client \in [Clients -> [state : State, cur : Nat, at : Nat, owed : SUBSET Paths]]
    BY DEF StreamInv, TypeOK
  <2>2. client[c].at \in Nat
    BY <2>1
  <2>3. CASE client' = client
    BY <2>2, <2>3
  <2>4. CASE \E d \in Clients : Receive(d)
    <3>1. PICK d \in Clients : Receive(d)
      BY <2>4
    <3>2. PICK cl2 : cl2.at >= client[d].at /\ client' = [client EXCEPT ![d] = cl2]
      BY <3>1, ReceiveFacts
    <3>3. CASE c = d
      BY <2>1, <3>2, <3>3
    <3>4. CASE c # d
      BY <2>1, <2>2, <3>2, <3>4
    <3>. QED  BY <3>3, <3>4
  <2>5. \/ client' = client
        \/ \E d \in Clients : Receive(d)
    BY DEF Next, Set, Emit, Reset, Connect, WriterGet, DetectGap, Leave, vars
  <2>. QED  BY <2>3, <2>4, <2>5
<1>. QED  BY <1>1, Invariance, PTL DEF Spec, NeverBackwards

------------------------------------------------------------------------------
(* SceneStream implements Mirror: queues that drop, a ring that forgets,    *)
(* numbers, sessions and reconnections are, to a reader, jumps to a version *)
(* of the store and steps to the next announced one.                        *)

(* The refinement mapping: an entry of the history is a version, what a     *)
(* receiver holds is a copy.                                                *)
VersionOf(e) == [announced |-> e.kind = "emit", wrote |-> e.wrote, state |-> e.state]

VersionsOf(log) == [i \in 1..Len(log) |-> VersionOf(log[i])]

CopyOf(cl) == [state |-> cl.state, at |-> cl.at, doubt |-> cl.owed]

CopiesOf(cls) == [c \in Clients |-> CopyOf(cls[c])]

LEMMA VersionType ==
  ASSUME NEW e \in LogEntry
  PROVE  /\ VersionOf(e) \in Reflected!Version
         /\ VersionOf(e).announced = (e.kind = "emit")
         /\ VersionOf(e).wrote = e.wrote
         /\ VersionOf(e).state = e.state
<1>1. e.wrote \in SUBSET Paths /\ e.state \in State /\ (e.kind = "emit") \in BOOLEAN
  BY DEF LogEntry
<1>. QED  BY <1>1 DEF VersionOf, Reflected!Version, Reflected!States, State

LEMMA VersionsFacts ==
  ASSUME NEW log \in Seq(LogEntry)
  PROVE  /\ VersionsOf(log) \in Seq(Reflected!Version)
         /\ Len(VersionsOf(log)) = Len(log)
         /\ \A i \in 1..Len(log) :
              /\ VersionsOf(log)[i] = VersionOf(log[i])
              /\ VersionsOf(log)[i].announced = (log[i].kind = "emit")
              /\ VersionsOf(log)[i].wrote = log[i].wrote
              /\ VersionsOf(log)[i].state = log[i].state
<1>1. \A i \in 1..Len(log) : log[i] \in LogEntry
  OBVIOUS
<1>2. Len(log) \in Nat
  OBVIOUS
<1>3. \A i \in 1..Len(log) : VersionOf(log[i]) \in Reflected!Version
  BY <1>1, VersionType
<1>4. VersionsOf(log) \in Seq(Reflected!Version) /\ Len(VersionsOf(log)) = Len(log)
  BY <1>2, <1>3 DEF VersionsOf
<1>5. \A i \in 1..Len(log) : VersionsOf(log)[i] = VersionOf(log[i])
  BY DEF VersionsOf
<1>6. ASSUME NEW i \in 1..Len(log)
      PROVE  /\ VersionsOf(log)[i].announced = (log[i].kind = "emit")
             /\ VersionsOf(log)[i].wrote = log[i].wrote
             /\ VersionsOf(log)[i].state = log[i].state
  BY <1>1, <1>5, VersionType
<1>. QED  BY <1>4, <1>5, <1>6

LEMMA VersionsAppend ==
  ASSUME NEW log \in Seq(LogEntry), NEW e \in LogEntry
  PROVE  VersionsOf(Append(log, e)) = Append(VersionsOf(log), VersionOf(e))
<1>. DEFINE log2 == Append(log, e)
            n == Len(log)
            vs == VersionsOf(log)
<1>1. /\ log2 \in Seq(LogEntry) /\ Len(log2) = n + 1 /\ n \in Nat
      /\ \A i \in 1..n : log2[i] = log[i]
      /\ log2[n + 1] = e
  BY AppendFacts
<1>2. vs \in Seq(Reflected!Version) /\ Len(vs) = n
      /\ \A i \in 1..n : vs[i] = VersionOf(log[i])
  BY VersionsFacts
<1>. HIDE DEF log2, n, vs
<1>. DEFINE v == VersionOf(e)
            ws == Append(vs, v)
<1>. HIDE DEF v
<1>3. VersionsOf(log2) = [i \in 1..n + 1 |-> VersionOf(log2[i])]
  BY <1>1 DEF VersionsOf
<1>4. /\ ws = [i \in 1..n + 1 |-> ws[i]]
      /\ \A i \in 1..n : ws[i] = vs[i]
      /\ ws[n + 1] = v
  <2>1. v \in Reflected!Version
    BY VersionType DEF v
  <2>2. ws \in Seq(Reflected!Version)
    BY <1>2, <2>1
  <2>3. Len(ws) = n + 1 /\ (\A i \in 1..n : ws[i] = vs[i]) /\ ws[n + 1] = v
    BY <1>2, AppendFacts
  <2>. HIDE DEF ws
  <2>4. ws = [i \in 1..Len(ws) |-> ws[i]]
    BY <2>2
  <2>. QED  BY <2>3, <2>4
<1>. HIDE DEF ws
<1>5. \A i \in 1..n + 1 : ws[i] = VersionOf(log2[i])
  <2>. SUFFICES ASSUME NEW i \in 1..n + 1  PROVE ws[i] = VersionOf(log2[i])
    OBVIOUS
  <2>1. i \in 1..n \/ i = n + 1
    BY <1>1
  <2>. QED  BY <1>1, <1>2, <1>4, <2>1 DEF v
<1>. QED  BY <1>3, <1>4, <1>5 DEF log2, ws, vs, v

------------------------------------------------------------------------------
(* The initial state.                                                       *)
LEMMA InitMaps == ASSUME Init PROVE Reflected!Init
<1>. DEFINE e == Entry("new", {}, Blank, 1)
<1>1. scene.log = <<e>>
  BY DEF Init, NewScene, NextServer, Fresh
<1>2. VersionOf(e) = [announced |-> FALSE, wrote |-> {}, state |-> Blank]
  BY DEF VersionOf, Entry
<1>3. VersionsOf(<<e>>) = <<VersionOf(e)>>
  <2>. HIDE DEF e
  <2>1. VersionsOf(<<e>>) = [i \in 1..1 |-> VersionOf(<<e>>[i])]
    BY DEF VersionsOf
  <2>2. \A i \in 1..1 : VersionOf(<<e>>[i]) = VersionOf(e)
    <3>1. \A i \in 1..1 : <<e>>[i] = e
      OBVIOUS
    <3>. QED  BY <3>1
  <2>3. <<VersionOf(e)>> = [i \in 1..1 |-> <<VersionOf(e)>>[i]]
        /\ \A i \in 1..1 : <<VersionOf(e)>>[i] = VersionOf(e)
    OBVIOUS
  <2>. QED  BY <2>1, <2>2, <2>3
<1>4. VersionsOf(scene.log) = <<[announced |-> FALSE, wrote |-> {}, state |-> Reflected!Empty]>>
  <2>1. Reflected!Empty = Blank
    BY DEF Reflected!Empty, Blank
  <2>. QED  BY <1>1, <1>2, <1>3, <2>1
<1>5. CopiesOf(client) = [c \in Clients |-> [state |-> Reflected!Empty, at |-> 0, doubt |-> {}]]
  <2>1. Reflected!Empty = Blank
    BY DEF Reflected!Empty, Blank
  <2>2. \A c \in Clients : CopyOf(client[c]) = [state |-> Blank, at |-> 0, doubt |-> {}]
    BY DEF Init, NewClient, CopyOf
  <2>. QED  BY <2>1, <2>2 DEF CopiesOf
<1>. QED  BY <1>4, <1>5 DEF Reflected!Init, VersionsOf, VersionOf, CopiesOf, CopyOf

------------------------------------------------------------------------------
(* The application makes versions.                                          *)

(* The history gains one entry, which says what it wrote.                   *)
Grows ==
  \E e \in LogEntry : Follows(scene.log, e) /\ scene'.log = Append(scene.log, e)

LEMMA SetGrows ==
  ASSUME StreamInv, NEW patches \in Patches, Set(patches)
  PROVE  Grows
<1>. DEFINE state == Apply(scene.store, patches)
            e == Entry("set", DOMAIN patches, state, scene.seq)
<1>1. scene \in SceneRecord(Clients) /\ SceneOK(scene)
  BY DEF StreamInv, TypeOK
<1>2. scene'.log = Append(scene.log, e)
  BY <1>1 DEF Set, Seeded, SceneRecord
<1>3. /\ scene.store \in State /\ scene.seq \in Nat /\ state \in State
      /\ DOMAIN patches \in SUBSET Paths
  BY <1>1, ApplyType, PatchesType DEF SceneRecord
<1>4. \A p \in Paths \ DOMAIN patches : state[p] = scene.store[p]
  BY <1>3, ApplyAt
<1>. HIDE DEF state
<1>5. /\ e \in LogEntry /\ e.kind = "set" /\ e.seq = scene.seq
      /\ e.wrote = DOMAIN patches /\ e.state = state
  BY <1>3 DEF Entry, LogEntry
<1>. HIDE DEF e
<1>6. Follows(scene.log, e)
  BY <1>1, <1>4, <1>5 DEF Follows, SceneOK
<1>. QED  BY <1>2, <1>5, <1>6 DEF Grows

LEMMA EmitGrows ==
  ASSUME StreamInv, NEW patches \in Patches, Emit(patches)
  PROVE  Grows
<1>. DEFINE state == Apply(scene.store, patches)
            e == Entry("emit", DOMAIN patches, state, scene.seq + 1)
<1>1. scene \in SceneRecord(Clients) /\ SceneOK(scene)
  BY DEF StreamInv, TypeOK
<1>2. scene'.log = Append(scene.log, e)
  BY <1>1 DEF Emit, Emitted, SceneRecord, NextServer
<1>3. /\ scene.store \in State /\ scene.seq \in Nat /\ state \in State
      /\ DOMAIN patches \in SUBSET Paths
  BY <1>1, ApplyType, PatchesType DEF SceneRecord
<1>4. \A p \in Paths \ DOMAIN patches : state[p] = scene.store[p]
  BY <1>3, ApplyAt
<1>. HIDE DEF state
<1>5. /\ e \in LogEntry /\ e.kind = "emit" /\ e.seq = scene.seq + 1
      /\ e.wrote = DOMAIN patches /\ e.state = state
  BY <1>3 DEF Entry, LogEntry
<1>. HIDE DEF e
<1>6. Follows(scene.log, e)
  BY <1>1, <1>4, <1>5 DEF Follows, SceneOK
<1>. QED  BY <1>2, <1>5, <1>6 DEF Grows

LEMMA ResetGrows ==
  ASSUME StreamInv, Reset
  PROVE  Grows
<1>. DEFINE e == Entry("reset", Paths, Blank, scene.seq)
<1>1. scene \in SceneRecord(Clients) /\ SceneOK(scene) /\ scene.seq \in Nat
  BY DEF StreamInv, TypeOK, SceneRecord
<1>2. scene'.log = Append(scene.log, e)
  BY <1>1 DEF Reset, Cleared, SceneRecord
<1>3. Blank \in State
  BY DEF Blank, State
<1>4. e \in LogEntry /\ e.kind = "reset" /\ e.seq = scene.seq /\ e.wrote = Paths
  BY <1>1, <1>3 DEF Entry, LogEntry
<1>. HIDE DEF e
<1>5. Follows(scene.log, e)
  BY <1>1, <1>4 DEF Follows, SceneOK
<1>. QED  BY <1>2, <1>4, <1>5 DEF Grows

LEMMA GrowsMaps ==
  ASSUME StreamInv, Grows, client' = client
  PROVE  Reflected!Change
<1>1. PICK e \in LogEntry : Follows(scene.log, e) /\ scene'.log = Append(scene.log, e)
  BY DEF Grows
<1>. DEFINE log == scene.log
            n == Len(log)
            vs == VersionsOf(log)
            v == VersionOf(e)
<1>2. log \in Seq(LogEntry) /\ n \in Nat /\ n >= 1
  BY DEF StreamInv, TypeOK, SceneRecord, SceneOK, LogOK
<1>3. vs \in Seq(Reflected!Version) /\ Len(vs) = n /\ vs[n].state = log[n].state
  BY <1>2, VersionsFacts
<1>4. VersionsOf(scene.log)' = Append(vs, v)
  BY <1>1, <1>2, VersionsAppend
<1>5. CopiesOf(client)' = CopiesOf(client)
  BY DEF CopiesOf
<1>6. v \in Reflected!Version /\ v.wrote = e.wrote /\ v.state = e.state
  BY <1>1, VersionType
<1>7. \A p \in Paths \ v.wrote : v.state[p] = vs[n].state[p]
  BY <1>1, <1>3, <1>6 DEF Follows
<1>. DEFINE ws == VersionsOf(scene.log)'
<1>8. Len(ws) = n + 1 /\ ws[n + 1] = v /\ ws = Append(vs, v)
  <2>. HIDE DEF vs, v, n
  <2>. QED  BY <1>2, <1>3, <1>4
<1>9. /\ Len(ws) = Len(vs) + 1
      /\ ws[Len(ws)] \in Reflected!Version
      /\ \A p \in Paths \ ws[Len(ws)].wrote : ws[Len(ws)].state[p] = vs[Len(vs)].state[p]
      /\ ws = Append(vs, ws[Len(ws)])
  <2>. HIDE DEF ws, vs, v, n
  <2>. QED  BY <1>3, <1>6, <1>7, <1>8
<1>. QED  BY <1>5, <1>9 DEF Reflected!Change, VersionsOf, VersionOf, CopiesOf, CopyOf

------------------------------------------------------------------------------
(* The receivers move through them.                                         *)

LEMMA CopiesUpdate ==
  ASSUME StreamInv, NEW c \in Clients, NEW cl, client' = [client EXCEPT ![c] = cl]
  PROVE  CopiesOf(client)' = [CopiesOf(client) EXCEPT ![c] = CopyOf(cl)]
<1>1. DOMAIN client = Clients
  BY DEF StreamInv, TypeOK
<1>. QED  BY <1>1 DEF CopiesOf

LEMMA SnapshotMaps ==
  ASSUME StreamInv, NEW c \in Clients, session[c].out # <<>>,
         Head(session[c].out).type = "snapshot",
         client' = [client EXCEPT ![c] = AbsorbSnapshot(client[c], Head(session[c].out))],
         scene' = scene
  PROVE  Reflected!Jump(c)
<1>. DEFINE f == Head(session[c].out)
            cl2 == AbsorbSnapshot(client[c], f)
            vs == VersionsOf(scene.log)
            cs == CopiesOf(client)
            k == f.at
<1>1. scene.log \in Seq(LogEntry) /\ session[c].out \in Seq(Frame)
  BY DEF StreamInv, TypeOK, SceneRecord
<1>2. SessionOK(c)
  BY DEF StreamInv
<1>3. 1 \in 1..Len(session[c].out) /\ f = session[c].out[1]
  BY <1>1
<1>4. FrameOK(f, scene.log) /\ k >= client[c].at
  BY <1>2, <1>3 DEF SessionOK, OutOK, OrderOK
<1>5. k \in 1..Len(scene.log) /\ f.state = scene.log[k].state
  BY <1>4 DEF FrameOK
<1>6. client[c].at \in Nat
  BY DEF StreamInv, TypeOK
<1>7. Len(vs) = Len(scene.log) /\ vs[k].state = f.state
  BY <1>1, <1>5, VersionsFacts
<1>8. cs[c].at = client[c].at
  BY DEF CopiesOf, CopyOf
<1>9. CopyOf(cl2) = [state |-> vs[k].state, at |-> k, doubt |-> {}]
  BY <1>7 DEF CopyOf, AbsorbSnapshot
<1>10. CopiesOf(client)' = [cs EXCEPT ![c] = [state |-> vs[k].state, at |-> k, doubt |-> {}]]
  BY <1>9, CopiesUpdate
<1>11. k \in cs[c].at..Len(vs) /\ k > 0
  <2>. HIDE DEF cs, vs, f
  <2>. QED  BY <1>1, <1>4, <1>5, <1>6, <1>7, <1>8
<1>12. VersionsOf(scene.log)' = vs
  BY DEF VersionsOf
<1>13. \E n \in cs[c].at..Len(vs) :
         /\ n > 0
         /\ CopiesOf(client)' = [cs EXCEPT ![c] = [state |-> vs[n].state, at |-> n,
                                                   doubt |-> {}]]
         /\ VersionsOf(scene.log)' = vs
  <2>. HIDE DEF cs, vs, k
  <2>. QED  BY <1>10, <1>11, <1>12
<1>. QED  BY <1>13 DEF Reflected!Jump, VersionsOf, VersionOf, CopiesOf, CopyOf

(* The next number is the next emission: nothing announced in between.      *)
LEMMA NoneBetween ==
  ASSUME NEW log \in Seq(LogEntry), LogOK(log),
         NEW i \in 1..Len(log), NEW k \in 1..Len(log),
         log[k].kind = "emit", log[k].seq = log[i].seq + 1,
         NEW j \in i + 1..k - 1
  PROVE  log[j].kind # "emit"
<1>. SUFFICES ASSUME log[j].kind = "emit"  PROVE FALSE
  OBVIOUS
<1>1. j \in 1..Len(log) /\ i < j /\ j < k
  OBVIOUS
<1>2. log[i].seq \in Nat /\ log[j].seq \in Nat /\ log[k].seq \in Nat
  <2>1. log[i] \in LogEntry /\ log[j] \in LogEntry /\ log[k] \in LogEntry
    BY <1>1
  <2>. QED  BY <2>1 DEF LogEntry
<1>3. \A x, y \in 1..Len(log) : x < y /\ log[y].kind = "emit" => log[x].seq < log[y].seq
  BY DEF LogOK
<1>4. log[i].seq < log[j].seq /\ log[j].seq < log[k].seq
  BY <1>1, <1>3
<1>. QED  BY <1>2, <1>4

LEMMA DeltaMaps ==
  ASSUME StreamInv, NEW c \in Clients, session[c].out # <<>>,
         Head(session[c].out).type = "delta", Verdict(c) = "accept",
         client' = [client EXCEPT ![c] = AbsorbDelta(client[c], Head(session[c].out))],
         scene' = scene
  PROVE  Reflected!Follow(c)
<1>. DEFINE f == Head(session[c].out)
            cl == client[c]
            log == scene.log
            vs == VersionsOf(log)
            cs == CopiesOf(client)
            k == f.at
            copy(old, n) ==
              [state |-> [p \in Paths |-> IF p \in vs[n].wrote THEN vs[n].state[p]
                                                                ELSE old.state[p]],
               at    |-> n,
               doubt |-> (old.doubt \cup UNION {vs[j].wrote : j \in old.at + 1..n - 1})
                            \ vs[n].wrote]
<1>1. /\ cl.at \in 1..Len(log) /\ k \in 1..Len(log) /\ cl.at < k
      /\ DeltaOK(f, log)
      /\ cl.cur = log[cl.at].seq
      /\ f.seq = cl.cur + 1
  BY DeltaAhead
<1>2. log \in Seq(LogEntry) /\ LogOK(log) /\ Len(log) \in Nat
      /\ session[c].out \in Seq(Frame)
      /\ cl.state \in State
  BY DEF StreamInv, TypeOK, SceneRecord, SceneOK
<1>3. /\ log[k].kind = "emit" /\ log[k].seq = log[cl.at].seq + 1
      /\ log[k].wrote = DOMAIN f.patches
      /\ \A p \in DOMAIN f.patches : f.patches[p] = log[k].state[p]
  BY <1>1 DEF DeltaOK
<1>4. AbsorbDelta(cl, f) =
        [state |-> Apply(cl.state, f.patches), cur |-> f.seq, at |-> k,
         owed |-> (cl.owed \cup Unannounced(cl.at, k)) \ DOMAIN f.patches]
  BY DEF AbsorbDelta, Verdict
<1>5. \A j \in cl.at + 1..k - 1 : log[j].kind # "emit"
  <2>. HIDE DEF cl, log, k
  <2>. QED  BY <1>1, <1>2, <1>3, NoneBetween
<1>6. /\ Len(vs) = Len(log)
      /\ \A i \in 1..Len(log) : /\ vs[i].announced = (log[i].kind = "emit")
                                /\ vs[i].wrote = log[i].wrote
                                /\ vs[i].state = log[i].state
  BY <1>2, VersionsFacts
<1>7. cs[c] = CopyOf(cl)
  BY DEF CopiesOf
<1>8. cs[c].at = cl.at /\ cs[c].state = cl.state /\ cs[c].doubt = cl.owed
  BY <1>7 DEF CopyOf
<1>9. f.patches \in Patches
  <2>1. f \in Frame
    BY <1>2
  <2>. QED  BY <2>1 DEF Frame, Snapshot, Delta
<1>. HIDE DEF cl, vs, cs, f, k, log
<1>10. Apply(cl.state, f.patches)
         = [p \in Paths |-> IF p \in vs[k].wrote THEN vs[k].state[p] ELSE cs[c].state[p]]
  <2>1. vs[k].wrote = DOMAIN f.patches /\ vs[k].state = log[k].state
    BY <1>1, <1>3, <1>6
  <2>2. \A p \in Paths : (IF p \in DOMAIN f.patches THEN f.patches[p] ELSE cl.state[p])
                       = (IF p \in vs[k].wrote THEN vs[k].state[p] ELSE cs[c].state[p])
    BY <1>3, <1>8, <2>1
  <2>. QED  BY <2>2 DEF Apply
<1>11. Unannounced(cl.at, k) = UNION {vs[j].wrote : j \in cs[c].at + 1..k - 1}
  <2>1. {n \in cl.at + 1..k - 1 : log[n].kind # "emit"} = cs[c].at + 1..k - 1
    BY <1>5, <1>8
  <2>2. \A j \in cs[c].at + 1..k - 1 : vs[j].wrote = log[j].wrote
    BY <1>1, <1>2, <1>6, <1>8
  <2>3. Unannounced(cl.at, k) = UNION {log[j].wrote : j \in cs[c].at + 1..k - 1}
    BY <2>1 DEF Unannounced, log
  <2>. QED  BY <2>2, <2>3
<1>12. CopyOf(AbsorbDelta(cl, f)) = copy(cs[c], k)
  <2>1. vs[k].wrote = DOMAIN f.patches
    BY <1>1, <1>3, <1>6
  <2>. QED  BY <1>4, <1>8, <1>10, <1>11, <2>1 DEF CopyOf
<1>13. CopiesOf(client)' = [cs EXCEPT ![c] = copy(cs[c], k)]
  BY <1>12, CopiesUpdate DEF cs, cl, f
<1>14. k \in cs[c].at + 1..Len(vs) /\ cs[c].at > 0
  BY <1>1, <1>2, <1>6, <1>8
<1>15. vs[k].announced
  BY <1>1, <1>3, <1>6
<1>16. \A j \in cs[c].at + 1..k - 1 : ~vs[j].announced
  <2>1. \A j \in cs[c].at + 1..k - 1 : j \in 1..Len(log)
    BY <1>1, <1>2, <1>8
  <2>. QED  BY <1>5, <1>6, <1>8, <2>1
<1>17. VersionsOf(scene.log)' = vs
  BY DEF VersionsOf, vs, log
<1>18. \E n \in cs[c].at + 1..Len(vs) :
         /\ cs[c].at > 0
         /\ vs[n].announced
         /\ \A j \in cs[c].at + 1..n - 1 : ~vs[j].announced
         /\ CopiesOf(client)' = [cs EXCEPT ![c] = copy(cs[c], n)]
         /\ VersionsOf(scene.log)' = vs
  <2>. HIDE DEF copy
  <2>. QED  BY <1>13, <1>14, <1>15, <1>16, <1>17
<1>. QED  BY <1>18 DEF Reflected!Follow, Reflected!Between, VersionsOf, VersionOf,
                       CopiesOf, CopyOf, vs, cs, log

LEMMA ReceiveMaps ==
  ASSUME StreamInv, NEW c \in Clients, Receive(c)
  PROVE  Reflected!Jump(c) \/ Reflected!Follow(c)
<1>. DEFINE f == Head(session[c].out)
<1>1. session[c].out # <<>> /\ scene' = scene
  BY DEF Receive
<1>2. \/ f.type = "snapshot" /\ client' = [client EXCEPT ![c] = AbsorbSnapshot(client[c], f)]
      \/ /\ f.type = "delta" /\ Verdict(c) # "gap"
         /\ client' = [client EXCEPT ![c] = AbsorbDelta(client[c], f)]
  BY DEF Receive
<1>3. CASE /\ f.type = "snapshot"
           /\ client' = [client EXCEPT ![c] = AbsorbSnapshot(client[c], f)]
  BY <1>1, <1>3, SnapshotMaps
<1>4. CASE /\ f.type = "delta" /\ Verdict(c) # "gap"
           /\ client' = [client EXCEPT ![c] = AbsorbDelta(client[c], f)]
  <2>1. Verdict(c) \in {"accept", "gap"}
    BY <1>1, <1>4, DeltaAhead
  <2>2. Verdict(c) = "accept"
    BY <1>4, <2>1
  <2>. QED  BY <1>1, <1>4, <2>2, DeltaMaps
<1>. QED  BY <1>2, <1>3, <1>4

------------------------------------------------------------------------------
(* Connecting, taking from the queue and hanging up show nothing.           *)
LEMMA StutterMaps ==
  ASSUME scene'.log = scene.log, client' = client
  PROVE  UNCHANGED Reflected!vars
BY DEF Reflected!vars

LEMMA NextMaps ==
  ASSUME StreamInv, [Next]_vars
  PROVE  [Reflected!Next]_(Reflected!vars)
<1>1. scene \in SceneRecord(Clients)
  BY DEF StreamInv, TypeOK
<1>2. CASE \E patches \in Patches : Set(patches) \/ Emit(patches)
  <2>1. Grows /\ client' = client
    BY <1>2, SetGrows, EmitGrows DEF Set, Emit
  <2>. QED  BY <2>1, GrowsMaps DEF Reflected!Next
<1>3. CASE Reset
  <2>1. Grows /\ client' = client
    BY <1>3, ResetGrows DEF Reset
  <2>. QED  BY <2>1, GrowsMaps DEF Reflected!Next
<1>4. CASE \E c \in Clients : Receive(c)
  BY <1>4, ReceiveMaps DEF Reflected!Next
<1>5. CASE \E c \in Clients : \E since \in {0, client[c].cur} : Connect(c, since)
  <2>1. scene'.log = scene.log /\ client' = client
    BY <1>1, <1>5 DEF Connect, Attached, SceneRecord
  <2>. QED  BY <2>1, StutterMaps
<1>6. CASE \E c \in Clients : WriterGet(c)
  BY <1>6, StutterMaps DEF WriterGet
<1>7. CASE \E c \in Clients : DetectGap(c) \/ Leave(c)
  <2>1. scene'.log = scene.log /\ client' = client
    BY <1>1, <1>7 DEF DetectGap, Leave, Hangup, Detached, SceneRecord
  <2>. QED  BY <2>1, StutterMaps
<1>8. CASE UNCHANGED vars
  BY <1>8, StutterMaps DEF vars
<1>. QED  BY <1>2, <1>3, <1>4, <1>5, <1>6, <1>7, <1>8 DEF Next

(* Queues that drop, a replay buffer that forgets, sequence numbers,        *)
(* sessions, reconnections: to a receiver all of it is jumps to a version   *)
(* of the store and steps to the next emission, whatever the sizes          *)
(* (Scene.emit, Scene.subscribe_with_resume, SequenceTracker).              *)
THEOREM MirrorsTheScene == Spec => ImplementsMirror
<1>1. Init => Reflected!Init
  BY InitMaps
<1>2. StreamInv /\ [Next]_vars => [Reflected!Next]_(Reflected!vars)
  BY NextMaps
<1>. QED  BY <1>1, <1>2, Invariance, PTL DEF Spec, ImplementsMirror, Reflected!Spec

==============================================================================
