----------------------------- MODULE ServerProofs -----------------------------
(****************************************************************************)
(* The inductive invariant of Server and the theorems it yields.            *)
(****************************************************************************)
EXTENDS Server, SceneProofs, FiniteSetTheorems

------------------------------------------------------------------------------
(* The invariant, in three parts.                                           *)

(* Types: a frame under way is of a scene that was made, a session that is  *)
(* open has one, and a replay buffer is in order, if with holes.            *)
FramesOf(O) == {f \in Frame : f.scene \in O}

SceneFits(sc, o) ==
  /\ sc \in SceneRecord(Sessions)
  /\ sc.id = o
  /\ Increasing(sc.replay, sc.seq)

Session(O) ==
  {ses \in [status : Statuses, scene : O \cup {NoScene}, out : Seq(FramesOf(O))] :
     ses.status \notin {"new", "over", "failed"} => ses.scene \in O}

Viewer(O) == [scene : O \cup {NoScene}, cur : Nat, open : BOOLEAN,
              past : {"none", "same", "other"}]

TypeInv ==
  /\ Objects \subseteq SceneIds
  /\ \A o \in Objects : SceneFits(scenes[o], o)
  /\ registry \in [Names -> Objects \cup {NoScene}]
  /\ active \in Names \cup {NoName}
  /\ resets \subseteq Objects
  /\ subs \in [Sessions -> Pipe(FramesOf(Objects))]
  /\ session \in [Sessions -> Session(Objects)]
  /\ viewer \in [Sessions -> Viewer(Objects)]

(* The registry: the active name has a scene, no scene has two names, and   *)
(* one whose reset is a task to come has none.                              *)
RegistryInv ==
  /\ active # NoName => registry[active] # NoScene
  /\ \A m, n \in Names : registry[m] = registry[n] /\ registry[m] # NoScene => m = n
  /\ resets \cap Registered = {}

(* Ownership: whom a scene holds on to, at each stage of a session.         *)
OwnerInv ==
  /\ \A o \in Objects : scenes[o].subs # {} => o \in Registered \cup resets
  /\ \A s \in Sessions : \A o, p \in Attachments(s) : o = p
  /\ \A s \in Sessions : \A o \in Attachments(s) :
       /\ session[s].status # "new"
       /\ session[s].status = "over" => o \in resets
       /\ subs[s].live => o = ActiveScene \/ o \in resets
  /\ \A s \in Sessions : Open(s) /\ ~subs[s].closed => Attachments(s) # {}

ServerInv == TypeInv /\ RegistryInv /\ OwnerInv

------------------------------------------------------------------------------
(* Types of what the actions are made of.                                   *)

LEMMA TypeInvTypes == TypeInv => TypeOK
<1>. SUFFICES ASSUME TypeInv  PROVE TypeOK
  OBVIOUS
<1>1. FramesOf(Objects) \subseteq Frame
  BY DEF FramesOf
<1>2. subs \in [Sessions -> Pipe(Frame)]
  BY <1>1, PipeMono DEF TypeInv
<1>3. session \in [Sessions -> [status : Statuses, scene : Objects \cup {NoScene},
                                out : Seq(Frame)]]
  BY <1>1, PipeMono DEF TypeInv, Session
<1>. QED  BY <1>2, <1>3 DEF TypeInv, TypeOK, SceneFits, Viewer

LEMMA FrameTypes ==
  ASSUME NEW O, O \subseteq SceneIds, NEW o \in O, NEW sc, SceneFits(sc, o)
  PROVE  /\ SnapshotOf(sc) \in FramesOf(O)
         /\ \A r \in Record : DeltaOf(sc, r) \in FramesOf(O)
         /\ \A prev : prev.seq \in Nat => SceneChangedOf(sc, prev) \in FramesOf(O)
<1>1. SnapshotOf(sc) \in Snapshot /\ SnapshotOf(sc).scene = o
  BY SnapshotType DEF SnapshotOf, SceneFits
<1>2. \A r \in Record : DeltaOf(sc, r) \in Delta /\ DeltaOf(sc, r).scene = o
  BY DeltaType DEF DeltaOf, SceneFits
<1>3. \A prev : prev.seq \in Nat =>
        SceneChangedOf(sc, prev) \in SceneChanged /\ SceneChangedOf(sc, prev).scene = o
  BY DEF SceneChangedOf, SceneChanged, SceneFits, NextServer
<1>. QED  BY <1>1, <1>2, <1>3 DEF FramesOf, Frame

LEMMA BareFits ==
  ASSUME NEW o, NEW sc \in SceneRecord(Sessions), sc.id = o, Increasing(sc.replay, sc.seq)
  PROVE  /\ SceneFits(Bare(sc), o)
         /\ Bare(sc).subs = sc.subs
         /\ Bare(sc).seq = sc.seq
         /\ Bare(sc).replay = sc.replay
<1>1. Blank \in State /\ <<>> \in Seq(LogEntry)
  BY DEF Blank, State
<1>2. Bare(sc) \in SceneRecord(Sessions)
  BY <1>1 DEF Bare, SceneRecord
<1>. QED  BY <1>2 DEF SceneFits, Bare, SceneRecord

LEMMA NewSceneFits ==
  ASSUME NEW o \in SceneIds
  PROVE  /\ SceneFits(Bare(NewScene(o)), o)
         /\ Bare(NewScene(o)).subs = {}
<1>. DEFINE sc == NewScene(o)
<1>1. Entry("new", {}, Blank, 1) \in LogEntry /\ Blank \in State
  BY DEF Entry, LogEntry, Blank, State
<1>2. sc = [id |-> o, store |-> Blank, seq |-> 1, replay |-> <<>>, subs |-> {},
            log |-> <<Entry("new", {}, Blank, 1)>>]
  BY DEF NewScene, NextServer, Fresh
<1>3. sc \in SceneRecord(Sessions)
  BY <1>1, <1>2 DEF SceneRecord
<1>4. sc.id = o /\ sc.subs = {} /\ sc.replay = <<>>
  BY <1>2
<1>5. Increasing(sc.replay, sc.seq)
  BY <1>4 DEF Increasing
<1>. HIDE DEF sc
<1>6. SceneFits(Bare(sc), o) /\ Bare(sc).subs = {}
  BY <1>3, <1>4, <1>5, BareFits
<1>. QED  BY <1>6 DEF sc

LEMMA SeededFits ==
  ASSUME NEW o, NEW sc, SceneFits(sc, o), NEW patches \in Patches
  PROVE  /\ SceneFits(Bare(Seeded(sc, patches)), o)
         /\ Bare(Seeded(sc, patches)).subs = sc.subs
<1>. DEFINE sc2 == Seeded(sc, patches)
<1>1. sc2 \in SceneRecord(Sessions)
  BY SceneOps DEF SceneFits
<1>2. sc2.id = sc.id /\ sc2.subs = sc.subs /\ sc2.seq = sc.seq /\ sc2.replay = sc.replay
  BY DEF Seeded, SceneFits, SceneRecord
<1>. HIDE DEF sc2
<1>3. SceneFits(Bare(sc2), o) /\ Bare(sc2).subs = sc.subs
  BY <1>1, <1>2, BareFits DEF SceneFits
<1>. QED  BY <1>3 DEF sc2

LEMMA EmittedFits ==
  ASSUME NEW o, NEW sc, SceneFits(sc, o), NEW patches \in Patches
  PROVE  /\ SceneFits(Bare(Emitted(sc, patches)), o)
         /\ Bare(Emitted(sc, patches)).subs = sc.subs
         /\ Bare(Emitted(sc, patches)).seq = sc.seq + 1
         /\ Bare(Emitted(sc, patches)).replay # <<>>
<1>. DEFINE sc2 == Emitted(sc, patches)
            record == [seq |-> sc.seq + 1, patches |-> patches, at |-> Len(sc.log) + 1]
<1>1. sc2 \in SceneRecord(Sessions)
  BY SceneOps DEF SceneFits
<1>2. sc.seq \in Nat /\ sc.replay \in Seq(Record) /\ record \in Record
  BY DEF SceneFits, SceneRecord, Record
<1>3. sc2.id = sc.id /\ sc2.subs = sc.subs /\ sc2.seq = sc.seq + 1
      /\ sc2.replay = Push(sc.replay, record)
  BY DEF Emitted, NextServer, SceneFits, SceneRecord
<1>4. record.seq = sc.seq + 1
  OBVIOUS
<1>. HIDE DEF sc2, record
<1>5. Increasing(sc2.replay, sc2.seq) /\ sc2.replay # <<>>
  BY <1>2, <1>3, <1>4, PushIncreasing, PushType DEF SceneFits
<1>6. SceneFits(Bare(sc2), o) /\ Bare(sc2).subs = sc.subs /\ Bare(sc2).seq = sc.seq + 1
      /\ Bare(sc2).replay # <<>>
  BY <1>1, <1>3, <1>5, BareFits DEF SceneFits
<1>. QED  BY <1>6 DEF sc2

LEMMA ClearedFits ==
  ASSUME NEW o, NEW sc, SceneFits(sc, o)
  PROVE  /\ SceneFits(Bare(Cleared(sc)), o)
         /\ Bare(Cleared(sc)).subs = {}
<1>. DEFINE sc2 == Cleared(sc)
<1>1. sc2 \in SceneRecord(Sessions)
  BY SceneOps DEF SceneFits
<1>2. sc2.id = sc.id /\ sc2.subs = {} /\ sc2.seq = sc.seq /\ sc2.replay = sc.replay
  BY DEF Cleared, SceneFits, SceneRecord
<1>. HIDE DEF sc2
<1>3. SceneFits(Bare(sc2), o) /\ Bare(sc2).subs = {}
  BY <1>1, <1>2, BareFits DEF SceneFits
<1>. QED  BY <1>3 DEF sc2

(* Only the set of subscriptions changes.                                   *)
LEMMA SubsFits ==
  ASSUME NEW o, NEW sc, SceneFits(sc, o)
  PROVE  /\ \A s \in Sessions : /\ SceneFits(Attached(sc, s), o)
                                /\ Attached(sc, s).subs = sc.subs \cup {s}
         /\ \A s : /\ SceneFits(Detached(sc, s), o)
                   /\ Detached(sc, s).subs = sc.subs \ {s}
<1>. USE DEF SceneFits, SceneRecord
<1>1. ASSUME NEW s \in Sessions
      PROVE  SceneFits(Attached(sc, s), o) /\ Attached(sc, s).subs = sc.subs \cup {s}
  BY DEF Attached
<1>2. ASSUME NEW s
      PROVE  SceneFits(Detached(sc, s), o) /\ Detached(sc, s).subs = sc.subs \ {s}
  BY DEF Detached
<1>. QED  BY <1>1, <1>2

------------------------------------------------------------------------------
(* What the operations do to all the pipes.                                 *)

(* Flags never go back, live never changes.                                 *)
SameFlags(pipes, pipes2) ==
  \A s \in Sessions : /\ pipes2[s].live = pipes[s].live
                      /\ pipes[s].closed => pipes2[s].closed

LEMMA RefreshPipes ==
  ASSUME NEW O, O \subseteq SceneIds, NEW o \in O, NEW sc, SceneFits(sc, o),
         NEW pipes \in [Sessions -> Pipe(FramesOf(O))]
  PROVE  /\ RefreshAll(sc, pipes) \in [Sessions -> Pipe(FramesOf(O))]
         /\ SameFlags(pipes, RefreshAll(sc, pipes))
<1>1. SnapshotOf(sc) \in FramesOf(O)
  BY FrameTypes
<1>2. \A s \in Sessions : /\ SendOrDrop(pipes[s], SnapshotOf(sc)) \in Pipe(FramesOf(O))
                          /\ SendOrDrop(pipes[s], SnapshotOf(sc)).live = pipes[s].live
                          /\ SendOrDrop(pipes[s], SnapshotOf(sc)).closed = pipes[s].closed
  BY <1>1, PipeOps, PipeFlags
<1>. QED  BY <1>2 DEF RefreshAll, SameFlags

LEMMA FanOutPipes ==
  ASSUME NEW O, O \subseteq SceneIds, NEW o \in O, NEW sc, SceneFits(sc, o), sc.replay # <<>>,
         NEW pipes \in [Sessions -> Pipe(FramesOf(O))]
  PROVE  /\ FanOut(sc, pipes) \in [Sessions -> Pipe(FramesOf(O))]
         /\ SameFlags(pipes, FanOut(sc, pipes))
<1>. DEFINE delta == DeltaOf(sc, sc.replay[Len(sc.replay)])
            snap == SnapshotOf(sc)
<1>1. sc.replay[Len(sc.replay)] \in Record
  <2>1. sc.replay \in Seq(Record)
    BY DEF SceneFits, SceneRecord
  <2>. QED  BY <2>1
<1>2. snap \in FramesOf(O) /\ delta \in FramesOf(O)
  BY <1>1, FrameTypes
<1>3. FanOut(sc, pipes) =
        [s \in Sessions |-> IF s \in sc.subs THEN SendDelta(pipes[s], delta, snap) ELSE pipes[s]]
  BY DEF FanOut
<1>. HIDE DEF delta, snap
<1>4. \A s \in Sessions : /\ SendDelta(pipes[s], delta, snap) \in Pipe(FramesOf(O))
                          /\ SendDelta(pipes[s], delta, snap).live = pipes[s].live
                          /\ SendDelta(pipes[s], delta, snap).closed = pipes[s].closed
  BY <1>2, PipeOps, PipeFlags
<1>. QED  BY <1>3, <1>4 DEF SameFlags

LEMMA ClosePipe ==
  ASSUME NEW F, NEW sub \in Pipe(F)
  PROVE  Close(sub) \in Pipe(F) /\ Close(sub).live = sub.live /\ Close(sub).closed
BY CloseType, PipeFlags

LEMMA MigratedPipes ==
  ASSUME NEW O, O \subseteq SceneIds, NEW o \in O, NEW sc, SceneFits(sc, o),
         NEW prev, prev.seq \in Nat,
         NEW pipes \in [Sessions -> Pipe(FramesOf(O))]
  PROVE  /\ Migrated(sc, prev, pipes) \in [Sessions -> Pipe(FramesOf(O))]
         /\ SameFlags(pipes, Migrated(sc, prev, pipes))
<1>. DEFINE change == SceneChangedOf(sc, prev)
            snap == SnapshotOf(sc)
            Sent(sub) == SendOrDrop(SendOrDrop(sub, change), snap)
<1>1. snap \in FramesOf(O) /\ change \in FramesOf(O)
  BY FrameTypes
<1>2. Migrated(sc, prev, pipes) =
        [s \in Sessions |-> IF s \in LiveSubs(prev, pipes) THEN Sent(pipes[s]) ELSE pipes[s]]
  BY DEF Migrated
<1>. HIDE DEF change, snap
<1>3. ASSUME NEW s \in Sessions
      PROVE  /\ Sent(pipes[s]) \in Pipe(FramesOf(O))
             /\ Sent(pipes[s]).live = pipes[s].live
             /\ Sent(pipes[s]).closed = pipes[s].closed
  <2>. DEFINE sub == SendOrDrop(pipes[s], change)
  <2>1. sub \in Pipe(FramesOf(O)) /\ sub.live = pipes[s].live /\ sub.closed = pipes[s].closed
    BY <1>1, PipeOps, PipeFlags
  <2>. HIDE DEF sub
  <2>2. /\ SendOrDrop(sub, snap) \in Pipe(FramesOf(O))
        /\ SendOrDrop(sub, snap).live = sub.live
        /\ SendOrDrop(sub, snap).closed = sub.closed
    BY <1>1, <2>1, PipeOps, PipeFlags
  <2>. QED  BY <2>1, <2>2 DEF sub
<1>. HIDE DEF Sent
<1>. QED  BY <1>2, <1>3 DEF SameFlags

------------------------------------------------------------------------------
(* Steps that leave the registry and who is attached where alone.           *)

LEMMA MoreObjects ==
  ASSUME NEW O, NEW P, O \subseteq P
  PROVE  /\ [Sessions -> Pipe(FramesOf(O))] \subseteq [Sessions -> Pipe(FramesOf(P))]
         /\ [Sessions -> Session(O)] \subseteq [Sessions -> Session(P)]
         /\ [Sessions -> Viewer(O)] \subseteq [Sessions -> Viewer(P)]
<1>1. FramesOf(O) \subseteq FramesOf(P)
  BY DEF FramesOf
<1>2. Pipe(FramesOf(O)) \subseteq Pipe(FramesOf(P)) /\ Seq(FramesOf(O)) \subseteq Seq(FramesOf(P))
  BY <1>1, PipeMono
<1>3. Session(O) \subseteq Session(P)
  BY <1>2 DEF Session
<1>4. Viewer(O) \subseteq Viewer(P)
  BY DEF Viewer
<1>. QED  BY <1>2, <1>3, <1>4

LEMMA OneScene ==
  ASSUME TypeInv, NEW o \in Objects, NEW sc, SceneFits(sc, o),
         scenes' = [scenes EXCEPT ![o] = sc]
  PROVE  /\ Objects' = Objects
         /\ \A x \in Objects : SceneFits(scenes[x], x)'
         /\ scenes'[o] = sc
         /\ \A x \in Objects : x # o => scenes'[x] = scenes[x]
<1>1. Objects' = Objects /\ scenes'[o] = sc /\ \A x \in Objects : x # o => scenes'[x] = scenes[x]
  BY DEF Objects
<1>2. ASSUME NEW x \in Objects  PROVE SceneFits(scenes'[x], x)
  BY <1>1 DEF TypeInv
<1>. QED  BY <1>1, <1>2

LEMMA Quiet ==
  ASSUME ServerInv,
         UNCHANGED <<registry, active, resets>>,
         Objects' = Objects,
         \A o \in Objects : scenes'[o].subs = scenes[o].subs,
         SameFlags(subs, subs'),
         \A s \in Sessions :
           \/ session'[s].status = session[s].status
           \/ Open(s) /\ session'[s].status \notin {"new", "over"}
  PROVE  RegistryInv' /\ OwnerInv'
<1>1. RegistryInv'
  BY DEF ServerInv, RegistryInv, Registered
<1>2. Registered' = Registered /\ ActiveScene' = ActiveScene
  BY DEF Registered, ActiveScene
<1>3. \A s : Attachments(s)' = Attachments(s)
  BY DEF Attachments
<1>4. \A s \in Sessions : Open(s)' => Open(s)
  BY DEF Open
<1>5. \A o \in Objects' : scenes'[o].subs # {} => o \in Registered' \cup resets'
  BY <1>2 DEF ServerInv, OwnerInv
<1>6. \A s \in Sessions : \A o, p \in Attachments(s)' : o = p
  BY <1>3 DEF ServerInv, OwnerInv
<1>7. ASSUME NEW s \in Sessions, NEW o \in Attachments(s)'
      PROVE  /\ session'[s].status # "new"
             /\ session'[s].status = "over" => o \in resets'
             /\ subs'[s].live => o = ActiveScene' \/ o \in resets'
  BY <1>2, <1>3 DEF ServerInv, OwnerInv, SameFlags
<1>8. \A s \in Sessions : Open(s)' /\ ~subs'[s].closed => Attachments(s)' # {}
  BY <1>3, <1>4 DEF ServerInv, OwnerInv, SameFlags
<1>. QED  BY <1>1, <1>5, <1>6, <1>7, <1>8 DEF OwnerInv

------------------------------------------------------------------------------
(* The application and the registry.                                        *)

LEMMA InitInv == ASSUME Init PROVE ServerInv
<1>1. Objects = {} /\ Registered = {}
  BY DEF Init, Objects, Registered
<1>2. subs \in [Sessions -> Pipe(FramesOf(Objects))]
  BY NewSubscriptionType DEF Init
<1>3. Ended("new") \in Session(Objects)
  BY DEF Ended, Session, Statuses
<1>4. NoViewer \in Viewer(Objects)
  BY DEF NoViewer, Viewer, Fresh
<1>5. \A s : Attachments(s) = {}
  BY <1>1 DEF Attachments
<1>6. \A s \in Sessions : ~Open(s)
  BY DEF Init, Open, Ended
<1>7. TypeInv
  BY <1>1, <1>2, <1>3, <1>4 DEF TypeInv, Init
<1>8. RegistryInv
  BY <1>1 DEF RegistryInv, Init
<1>9. OwnerInv
  BY <1>1, <1>5, <1>6 DEF OwnerInv
<1>. QED  BY <1>7, <1>8, <1>9 DEF ServerInv

LEMMA SetInv ==
  ASSUME ServerInv, NEW o \in Objects, NEW patches \in Patches, Set(o, patches)
  PROVE  ServerInv'
<1>. DEFINE sc == Bare(Seeded(scenes[o], patches))
<1>1. TypeInv /\ Objects \subseteq SceneIds /\ SceneFits(scenes[o], o)
  BY DEF ServerInv, TypeInv
<1>2. SceneFits(sc, o) /\ sc.subs = scenes[o].subs
  BY <1>1, SeededFits
<1>3. scenes' = [scenes EXCEPT ![o] = sc]
  BY DEF Set
<1>. HIDE DEF sc
<1>4. /\ Objects' = Objects
      /\ \A x \in Objects : SceneFits(scenes[x], x)'
      /\ scenes'[o] = sc
      /\ \A x \in Objects : x # o => scenes'[x] = scenes[x]
  BY <1>1, <1>2, <1>3, OneScene
<1>5. subs' = RefreshAll(sc, subs)
  BY <1>4 DEF Set
<1>6. subs' \in [Sessions -> Pipe(FramesOf(Objects))] /\ SameFlags(subs, subs')
  BY <1>1, <1>2, <1>5, RefreshPipes DEF TypeInv
<1>7. UNCHANGED <<registry, active, resets, session, viewer>>
  BY DEF Set
<1>8. TypeInv'
  BY <1>1, <1>4, <1>6, <1>7 DEF TypeInv
<1>9. \A x \in Objects : scenes'[x].subs = scenes[x].subs
  BY <1>2, <1>4
<1>10. RegistryInv' /\ OwnerInv'
  BY <1>4, <1>6, <1>7, <1>9, Quiet
<1>. QED  BY <1>8, <1>10 DEF ServerInv

(* An emission, by the application or by an input.                          *)
LEMMA PublishFacts ==
  ASSUME ServerInv, NEW o \in Objects, NEW patches \in Patches, Publish(o, patches)
  PROVE  /\ Objects' = Objects
         /\ \A x \in Objects : SceneFits(scenes[x], x)'
         /\ \A x \in Objects : scenes'[x].subs = scenes[x].subs
         /\ subs' \in [Sessions -> Pipe(FramesOf(Objects))]
         /\ SameFlags(subs, subs')
<1>. DEFINE sc == Bare(Emitted(scenes[o], patches))
<1>1. TypeInv /\ Objects \subseteq SceneIds /\ SceneFits(scenes[o], o)
  BY DEF ServerInv, TypeInv
<1>2. SceneFits(sc, o) /\ sc.subs = scenes[o].subs /\ sc.replay # <<>>
  BY <1>1, EmittedFits
<1>3. scenes' = [scenes EXCEPT ![o] = sc]
  BY DEF Publish
<1>. HIDE DEF sc
<1>4. /\ Objects' = Objects
      /\ \A x \in Objects : SceneFits(scenes[x], x)'
      /\ scenes'[o] = sc
      /\ \A x \in Objects : x # o => scenes'[x] = scenes[x]
  BY <1>1, <1>2, <1>3, OneScene
<1>5. subs' = FanOut(sc, subs)
  BY <1>4 DEF Publish
<1>6. subs' \in [Sessions -> Pipe(FramesOf(Objects))] /\ SameFlags(subs, subs')
  BY <1>1, <1>2, <1>5, FanOutPipes DEF TypeInv
<1>7. \A x \in Objects : scenes'[x].subs = scenes[x].subs
  BY <1>2, <1>4
<1>. QED  BY <1>4, <1>6, <1>7

LEMMA EmitInv ==
  ASSUME ServerInv, NEW o \in Objects, NEW patches \in Patches, Emit(o, patches)
  PROVE  ServerInv'
<1>1. /\ Objects' = Objects
      /\ \A x \in Objects : SceneFits(scenes[x], x)'
      /\ \A x \in Objects : scenes'[x].subs = scenes[x].subs
      /\ subs' \in [Sessions -> Pipe(FramesOf(Objects))]
      /\ SameFlags(subs, subs')
  BY PublishFacts DEF Emit
<1>2. UNCHANGED <<registry, active, resets, session, viewer>>
  BY DEF Emit
<1>3. TypeInv'
  BY <1>1, <1>2 DEF ServerInv, TypeInv
<1>4. RegistryInv' /\ OwnerInv'
  BY <1>1, <1>2, Quiet
<1>. QED  BY <1>3, <1>4 DEF ServerInv

LEMMA RegisterInv ==
  ASSUME ServerInv, NEW n \in Names, Register(n)
  PROVE  ServerInv'
<1>. PICK o \in SceneIds \ Objects :
       /\ scenes' = [x \in Objects \cup {o} |-> IF x = o THEN Bare(NewScene(o)) ELSE scenes[x]]
       /\ registry' = [registry EXCEPT ![n] = o]
  BY DEF Register
<1>1. /\ active' = IF active = NoName THEN n ELSE active
      /\ resets' = resets \cup ({registry[n]} \ {NoScene})
      /\ UNCHANGED <<subs, session, viewer>>
  BY DEF Register
<1>2. TypeInv /\ RegistryInv /\ OwnerInv
  BY DEF ServerInv
<1>3. o # NoScene /\ o \notin resets /\ o \notin Registered
  BY <1>2, NoSceneAssumption DEF TypeInv, Registered
<1>4. SceneFits(Bare(NewScene(o)), o) /\ Bare(NewScene(o)).subs = {}
  BY NewSceneFits
<1>5. /\ Objects' = Objects \cup {o}
      /\ SceneFits(scenes'[o], o) /\ scenes'[o].subs = {}
      /\ \A x \in Objects : scenes'[x] = scenes[x]
  BY <1>4 DEF Objects
<1>6. TypeInv'
  <2>1. /\ subs' \in [Sessions -> Pipe(FramesOf(Objects'))]
        /\ session' \in [Sessions -> Session(Objects')]
        /\ viewer' \in [Sessions -> Viewer(Objects')]
    BY <1>1, <1>2, <1>5, MoreObjects DEF TypeInv
  <2>2. \A x \in Objects' : SceneFits(scenes'[x], x)
    BY <1>2, <1>5 DEF TypeInv
  <2>3. Objects' \subseteq SceneIds
    BY <1>2, <1>5 DEF TypeInv
  <2>4. /\ registry' \in [Names -> Objects' \cup {NoScene}]
        /\ active' \in Names \cup {NoName}
        /\ resets' \subseteq Objects'
    BY <1>1, <1>2, <1>5 DEF TypeInv
  <2>. QED  BY <2>1, <2>2, <2>3, <2>4 DEF TypeInv
<1>7. registry'[n] = o /\ \A m \in Names : m # n => registry'[m] = registry[m]
  BY <1>2 DEF TypeInv
<1>8. /\ Registered' \subseteq Registered \cup {o}
      /\ Registered \subseteq Registered' \cup ({registry[n]} \ {NoScene})
  BY <1>7 DEF Registered
<1>9. RegistryInv'
  <2>1. active' # NoName => registry'[active'] # NoScene
    BY <1>1, <1>2, <1>3, <1>7 DEF RegistryInv, TypeInv
  <2>2. \A m \in Names : registry[m] # o
    BY <1>3 DEF Registered
  <2>3. \A k, m \in Names : registry'[k] = registry'[m] /\ registry'[k] # NoScene => k = m
    BY <1>2, <1>7, <2>2 DEF RegistryInv
  <2>4. registry[n] # NoScene => registry[n] \notin Registered'
    BY <1>2, <1>7, <2>2 DEF RegistryInv, Registered
  <2>5. resets' \cap Registered' = {}
    BY <1>1, <1>2, <1>3, <1>8, <2>4 DEF RegistryInv
  <2>. QED  BY <2>1, <2>3, <2>5 DEF RegistryInv
<1>10. OwnerInv'
  <2>1. \A s : Attachments(s)' = Attachments(s)
    BY <1>5 DEF Attachments
  <2>2. \A x \in Objects' : scenes'[x].subs # {} => x \in Registered' \cup resets'
    BY <1>1, <1>2, <1>5, <1>8 DEF OwnerInv
  <2>3. \A x \in Objects : x = ActiveScene => x = ActiveScene' \/ x \in resets'
    <3>1. ASSUME active = NoName  PROVE ActiveScene = NoScene
      BY <3>1 DEF ActiveScene
    <3>2. NoScene \notin Objects
      BY <1>2, NoSceneAssumption DEF TypeInv
    <3>3. CASE active # NoName /\ active = n
      BY <1>1, <3>2, <3>3 DEF ActiveScene
    <3>4. CASE active # NoName /\ active # n
      BY <1>1, <1>2, <1>7, <3>4 DEF ActiveScene, TypeInv
    <3>. QED  BY <3>1, <3>2, <3>3, <3>4
  <2>4. \A s : Attachments(s) \subseteq Objects
    BY DEF Attachments
  <2>5. ASSUME NEW s \in Sessions, NEW x \in Attachments(s)
        PROVE  /\ session'[s].status # "new"
               /\ session'[s].status = "over" => x \in resets'
               /\ subs'[s].live => x = ActiveScene' \/ x \in resets'
    BY <1>1, <1>2, <2>3, <2>4 DEF OwnerInv
  <2>6. \A s \in Sessions : Open(s)' /\ ~subs'[s].closed => Attachments(s) # {}
    BY <1>1, <1>2 DEF OwnerInv, Open
  <2>. QED  BY <1>2, <2>1, <2>2, <2>5, <2>6 DEF OwnerInv
<1>. QED  BY <1>6, <1>9, <1>10 DEF ServerInv

LEMMA RunResetInv ==
  ASSUME ServerInv, NEW o \in Objects, RunReset(o)
  PROVE  ServerInv'
<1>. DEFINE sc == Bare(Cleared(scenes[o]))
<1>1. TypeInv /\ RegistryInv /\ OwnerInv
  BY DEF ServerInv
<1>2. SceneFits(sc, o) /\ sc.subs = {}
  BY <1>1, ClearedFits DEF TypeInv
<1>3. scenes' = [scenes EXCEPT ![o] = sc]
  BY DEF RunReset
<1>. HIDE DEF sc
<1>4. /\ Objects' = Objects
      /\ \A x \in Objects : SceneFits(scenes[x], x)'
      /\ scenes'[o] = sc
      /\ \A x \in Objects : x # o => scenes'[x] = scenes[x]
  BY <1>1, <1>2, <1>3, OneScene
<1>5. /\ o \in resets
      /\ resets' = resets \ {o}
      /\ subs' = CloseAll(scenes[o], subs)
      /\ UNCHANGED <<registry, active, session, viewer>>
  BY DEF RunReset
<1>6. /\ subs' \in [Sessions -> Pipe(FramesOf(Objects))]
      /\ SameFlags(subs, subs')
      /\ \A s \in Sessions : o \in Attachments(s) => subs'[s].closed
  <2>1. \A s \in Sessions : /\ Close(subs[s]) \in Pipe(FramesOf(Objects))
                            /\ Close(subs[s]).live = subs[s].live
                            /\ Close(subs[s]).closed
    BY <1>1, ClosePipe DEF TypeInv
  <2>. QED  BY <1>1, <1>5, <2>1 DEF CloseAll, SameFlags, TypeInv, Attachments
<1>7. TypeInv'
  BY <1>1, <1>4, <1>5, <1>6 DEF TypeInv
<1>8. Registered' = Registered /\ ActiveScene' = ActiveScene
  BY <1>5 DEF Registered, ActiveScene
<1>9. RegistryInv'
  BY <1>1, <1>5, <1>8 DEF RegistryInv
<1>10. \A s : Attachments(s)' = Attachments(s) \ {o}
  BY <1>2, <1>4 DEF Attachments
<1>11. OwnerInv'
  <2>1. \A x \in Objects' : scenes'[x].subs # {} => x \in Registered' \cup resets'
    BY <1>1, <1>2, <1>4, <1>5, <1>8 DEF OwnerInv
  <2>2. \A s \in Sessions : \A x, y \in Attachments(s)' : x = y
    BY <1>1, <1>10 DEF OwnerInv
  <2>3. ASSUME NEW s \in Sessions, NEW x \in Attachments(s)'
        PROVE  /\ session'[s].status # "new"
               /\ session'[s].status = "over" => x \in resets'
               /\ subs'[s].live => x = ActiveScene' \/ x \in resets'
    BY <1>1, <1>5, <1>6, <1>8, <1>10 DEF OwnerInv, SameFlags
  <2>4. ASSUME NEW s \in Sessions, Open(s)', ~subs'[s].closed  PROVE Attachments(s)' # {}
    <3>1. Open(s) /\ ~subs[s].closed
      BY <1>5, <1>6, <2>4 DEF Open, SameFlags
    <3>2. o \notin Attachments(s)
      BY <1>6, <2>4
    <3>. QED  BY <1>1, <1>10, <3>1, <3>2 DEF OwnerInv
  <2>. QED  BY <2>1, <2>2, <2>3, <2>4 DEF OwnerInv
<1>. QED  BY <1>7, <1>9, <1>11 DEF ServerInv

LEMMA ResetAllInv ==
  ASSUME ServerInv, ResetAll
  PROVE  ServerInv'
<1>1. TypeInv /\ RegistryInv /\ OwnerInv
  BY DEF ServerInv
<1>2. /\ registry' = [n \in Names |-> NoScene]
      /\ active' = NoName
      /\ scenes' = [o \in Objects |-> IF o \in Registered THEN Bare(Cleared(scenes[o]))
                                                          ELSE scenes[o]]
      /\ subs' = [s \in Sessions |->
                    IF \E o \in Registered : s \in scenes[o].subs THEN Close(subs[s])
                                                                  ELSE subs[s]]
      /\ UNCHANGED <<resets, session, viewer>>
  BY DEF ResetAll
<1>3. \A o \in Objects : SceneFits(Bare(Cleared(scenes[o])), o) /\ Bare(Cleared(scenes[o])).subs = {}
  BY <1>1, ClearedFits DEF TypeInv
<1>4. /\ Objects' = Objects
      /\ \A o \in Objects : SceneFits(scenes'[o], o)
      /\ \A o \in Registered \cap Objects : scenes'[o].subs = {}
      /\ \A o \in Objects \ Registered : scenes'[o] = scenes[o]
  BY <1>1, <1>2, <1>3 DEF Objects, TypeInv
<1>5. \A s \in Sessions : /\ Close(subs[s]) \in Pipe(FramesOf(Objects))
                          /\ Close(subs[s]).live = subs[s].live
                          /\ Close(subs[s]).closed
  BY <1>1, ClosePipe DEF TypeInv
<1>6. /\ subs' \in [Sessions -> Pipe(FramesOf(Objects))]
      /\ SameFlags(subs, subs')
      /\ \A s \in Sessions : Attachments(s) \cap Registered # {} => subs'[s].closed
  BY <1>1, <1>2, <1>5 DEF SameFlags, TypeInv, Attachments
<1>7. TypeInv'
  BY <1>1, <1>2, <1>4, <1>6 DEF TypeInv
<1>8. Registered' = {} /\ ActiveScene' = NoScene
  BY <1>2 DEF Registered, ActiveScene
<1>9. RegistryInv'
  BY <1>2, <1>8 DEF RegistryInv
<1>10. \A s : Attachments(s)' = Attachments(s) \ Registered
  BY <1>4 DEF Attachments
<1>11. OwnerInv'
  <2>1. \A x \in Objects' : scenes'[x].subs # {} => x \in Registered' \cup resets'
    BY <1>1, <1>2, <1>4 DEF OwnerInv
  <2>2. \A s \in Sessions : \A x, y \in Attachments(s)' : x = y
    BY <1>1, <1>10 DEF OwnerInv
  <2>3. \A s : Attachments(s) \subseteq Registered \cup resets
    BY <1>1 DEF OwnerInv, Attachments
  <2>4. ASSUME NEW s \in Sessions, NEW x \in Attachments(s)'
        PROVE  /\ session'[s].status # "new"
               /\ session'[s].status = "over" => x \in resets'
               /\ subs'[s].live => x = ActiveScene' \/ x \in resets'
    BY <1>1, <1>2, <1>10, <2>3 DEF OwnerInv
  <2>5. ASSUME NEW s \in Sessions, Open(s)', ~subs'[s].closed  PROVE Attachments(s)' # {}
    <3>1. Open(s) /\ ~subs[s].closed
      BY <1>2, <1>6, <2>5 DEF Open, SameFlags
    <3>. QED  BY <1>1, <1>6, <1>10, <2>5, <3>1 DEF OwnerInv
  <2>. QED  BY <2>1, <2>2, <2>4, <2>5 DEF OwnerInv
<1>. QED  BY <1>7, <1>9, <1>11 DEF ServerInv

LEMMA JoinedFits ==
  ASSUME NEW o, NEW prev \in SceneRecord(Sessions), NEW next, SceneFits(next, o), NEW pipes
  PROVE  /\ SceneFits(Joined(next, prev, pipes), o)
         /\ Joined(next, prev, pipes).subs = next.subs \cup LiveSubs(prev, pipes)
<1>. DEFINE live == LiveSubs(prev, pipes)
<1>1. live \subseteq Sessions
  BY DEF LiveSubs, SceneRecord
<1>2. Joined(next, prev, pipes) = [next EXCEPT !.subs = next.subs \cup live]
  BY DEF Joined
<1>. HIDE DEF live
<1>. QED  BY <1>1, <1>2 DEF SceneFits, SceneRecord, live

LEMMA AbandonedFits ==
  ASSUME NEW o, NEW prev, SceneFits(prev, o), NEW pipes
  PROVE  /\ SceneFits(Abandoned(prev, pipes), o)
         /\ Abandoned(prev, pipes).subs = prev.subs \ LiveSubs(prev, pipes)
<1>. DEFINE live == LiveSubs(prev, pipes)
            kept == prev.subs \ live
            number == prev.seq + 1
            sc == [prev EXCEPT !.subs = kept, !.seq = number]
<1>1. CASE live = {}
  BY <1>1 DEF Abandoned
<1>2. CASE live # {}
  <2>1. Abandoned(prev, pipes) = sc
    BY <1>2 DEF Abandoned, NextServer
  <2>2. kept \in SUBSET Sessions /\ number \in Nat
    BY DEF SceneFits, SceneRecord
  <2>3. prev.seq \in Nat /\ prev.seq <= number
        /\ \A i \in 1..Len(prev.replay) : prev.replay[i].seq \in Nat
    BY RecordSeqs DEF SceneFits, SceneRecord
  <2>. HIDE DEF kept, number
  <2>4. /\ sc \in SceneRecord(Sessions)
        /\ sc.subs = kept /\ sc.seq = number
        /\ sc.id = prev.id /\ sc.replay = prev.replay
    BY <2>2 DEF SceneFits, SceneRecord
  <2>. HIDE DEF sc
  <2>5. Increasing(sc.replay, sc.seq)
    BY <2>2, <2>3, <2>4 DEF SceneFits, Increasing
  <2>. QED  BY <2>1, <2>4, <2>5 DEF SceneFits, kept
<1>. QED  BY <1>1, <1>2

(* What a change of the active scene does when there was one.               *)
LEMMA MigrationFacts ==
  ASSUME ServerInv, NEW n \in Names, SetActive(n), ActiveScene # NoScene
  PROVE  LET prev == ActiveScene
             next == registry[n]
             live == LiveSubs(scenes[prev], subs)
         IN  /\ prev \in Objects /\ next \in Objects /\ prev # next
             /\ prev \in Registered /\ next \in Registered
             /\ Objects' = Objects
             /\ \A x \in Objects : SceneFits(scenes'[x], x)
             /\ scenes'[prev].subs = scenes[prev].subs \ live
             /\ scenes'[next].subs = scenes[next].subs \cup live
             /\ \A x \in Objects \ {prev, next} : scenes'[x] = scenes[x]
             /\ subs' \in [Sessions -> Pipe(FramesOf(Objects))]
             /\ SameFlags(subs, subs')
<1>. DEFINE prev == ActiveScene
            next == registry[n]
            live == LiveSubs(scenes[prev], subs)
            old == Abandoned(scenes[prev], subs)
            new == Joined(scenes[next], scenes[prev], subs)
<1>1. TypeInv /\ RegistryInv
  BY DEF ServerInv
<1>2. /\ registry[n] # NoScene /\ n # active
      /\ scenes' = [scenes EXCEPT ![prev] = Abandoned(@, subs),
                                  ![next] = Joined(@, scenes[prev], subs)]
      /\ subs' = Migrated(scenes[next], scenes[prev], subs)
  BY DEF SetActive
<1>3. active # NoName /\ prev = registry[active] /\ active \in Names
  BY <1>1 DEF ActiveScene, TypeInv
<1>4. prev # next
  BY <1>1, <1>2, <1>3 DEF RegistryInv
<1>5. /\ prev \in Objects /\ next \in Objects
      /\ prev \in Registered /\ next \in Registered
  BY <1>1, <1>2, <1>3 DEF TypeInv, Registered
<1>6. SceneFits(scenes[prev], prev) /\ SceneFits(scenes[next], next)
  BY <1>1, <1>5 DEF TypeInv
<1>7. /\ SceneFits(old, prev) /\ old.subs = scenes[prev].subs \ live
      /\ SceneFits(new, next) /\ new.subs = scenes[next].subs \cup live
  <2>. HIDE DEF prev, next
  <2>1. /\ SceneFits(Abandoned(scenes[prev], subs), prev)
        /\ Abandoned(scenes[prev], subs).subs = scenes[prev].subs \ LiveSubs(scenes[prev], subs)
    BY <1>6, AbandonedFits
  <2>2. scenes[prev] \in SceneRecord(Sessions)
    BY <1>6 DEF SceneFits
  <2>3. /\ SceneFits(Joined(scenes[next], scenes[prev], subs), next)
        /\ Joined(scenes[next], scenes[prev], subs).subs =
             scenes[next].subs \cup LiveSubs(scenes[prev], subs)
    BY <1>6, <2>2, JoinedFits
  <2>. QED  BY <2>1, <2>3
<1>8. scenes[prev].seq \in Nat
  BY <1>6 DEF SceneFits, SceneRecord
<1>9. subs' \in [Sessions -> Pipe(FramesOf(Objects))] /\ SameFlags(subs, subs')
  <2>. HIDE DEF prev, next
  <2>. QED  BY <1>1, <1>2, <1>5, <1>6, <1>8, MigratedPipes DEF TypeInv
<1>10. /\ Objects' = Objects
       /\ scenes'[prev] = old /\ scenes'[next] = new
       /\ \A x \in Objects \ {prev, next} : scenes'[x] = scenes[x]
  <2>. HIDE DEF prev, next
  <2>. QED  BY <1>2, <1>4, <1>5 DEF Objects, old, new
<1>. HIDE DEF old, new, live
<1>11. \A x \in Objects : SceneFits(scenes'[x], x)
  BY <1>1, <1>7, <1>10 DEF TypeInv
<1>. QED  BY <1>4, <1>5, <1>7, <1>9, <1>10, <1>11 DEF live

LEMMA SetActiveInv ==
  ASSUME ServerInv, NEW n \in Names, SetActive(n)
  PROVE  ServerInv'
<1>1. TypeInv /\ RegistryInv /\ OwnerInv
  BY DEF ServerInv
<1>2. /\ registry[n] # NoScene /\ n # active /\ active' = n
      /\ UNCHANGED <<registry, resets, session, viewer>>
  BY DEF SetActive
<1>3. Registered' = Registered /\ ActiveScene' = registry[n]
  BY <1>1, <1>2, NoNameAssumption DEF Registered, ActiveScene
<1>4. RegistryInv'
  BY <1>1, <1>2, <1>3 DEF RegistryInv
<1>5. CASE ActiveScene = NoScene
  <2>1. UNCHANGED <<scenes, subs>>
    BY <1>5 DEF SetActive
  <2>2. TypeInv'
    BY <1>1, <1>2, <2>1 DEF TypeInv, Objects
  <2>3. \A s : Attachments(s)' = Attachments(s)
    BY <2>1 DEF Attachments, Objects
  <2>4. NoScene \notin Objects /\ \A s : Attachments(s) \subseteq Objects
    BY <1>1, NoSceneAssumption DEF TypeInv, Attachments
  <2>5. OwnerInv'
    BY <1>1, <1>2, <1>3, <1>5, <2>1, <2>3, <2>4 DEF OwnerInv, Open, Objects
  <2>. QED  BY <1>4, <2>2, <2>5 DEF ServerInv
<1>6. CASE ActiveScene # NoScene
  <2>. DEFINE prev == ActiveScene
              next == registry[n]
              live == LiveSubs(scenes[prev], subs)
  <2>1. /\ prev \in Objects /\ next \in Objects /\ prev # next
        /\ prev \in Registered /\ next \in Registered
        /\ Objects' = Objects
        /\ \A x \in Objects : SceneFits(scenes'[x], x)
        /\ scenes'[prev].subs = scenes[prev].subs \ live
        /\ scenes'[next].subs = scenes[next].subs \cup live
        /\ \A x \in Objects \ {prev, next} : scenes'[x] = scenes[x]
        /\ subs' \in [Sessions -> Pipe(FramesOf(Objects))]
        /\ SameFlags(subs, subs')
    BY <1>6, MigrationFacts
  <2>2. \A s : s \in live <=> prev \in Attachments(s) /\ subs[s].live
    BY <2>1 DEF LiveSubs, Attachments
  <2>. HIDE DEF prev, next, live
  <2>3. TypeInv'
    BY <1>1, <1>2, <2>1 DEF TypeInv
  <2>4. \A s : Attachments(s)' = IF s \in live THEN (Attachments(s) \ {prev}) \cup {next}
                                              ELSE Attachments(s)
    BY <2>1, <2>2 DEF Attachments
  <2>5. \A x \in Objects' : scenes'[x].subs # {} => x \in Registered' \cup resets'
    BY <1>1, <1>2, <1>3, <2>1 DEF OwnerInv
  <2>6. \A s \in Sessions : \A x, y \in Attachments(s)' : x = y
    <3>. SUFFICES ASSUME NEW s \in Sessions, NEW x \in Attachments(s)', NEW y \in Attachments(s)'
                  PROVE  x = y
      OBVIOUS
    <3>1. CASE s \in live
      BY <1>1, <2>2, <2>4, <3>1 DEF OwnerInv
    <3>2. CASE s \notin live
      BY <1>1, <2>4, <3>2 DEF OwnerInv
    <3>. QED  BY <3>1, <3>2
  <2>7. ASSUME NEW s \in Sessions, NEW x \in Attachments(s)'
        PROVE  /\ session'[s].status # "new"
               /\ session'[s].status = "over" => x \in resets'
               /\ subs'[s].live => x = ActiveScene' \/ x \in resets'
    <3>1. CASE s \in live
      <4>1. prev \in Attachments(s) /\ prev \notin resets
        BY <1>1, <2>1, <2>2, <3>1 DEF RegistryInv
      <4>2. session[s].status \notin {"new", "over"}
        BY <1>1, <4>1 DEF OwnerInv
      <4>3. x = next
        <5>1. \A y \in Attachments(s) : y = prev
          BY <1>1, <4>1 DEF OwnerInv
        <5>. QED  BY <2>4, <2>7, <3>1, <5>1
      <4>. QED  BY <1>2, <1>3, <4>2, <4>3 DEF next
    <3>2. CASE s \notin live
      <4>1. x \in Attachments(s) /\ (subs[s].live => x # prev)
        BY <2>2, <2>4, <2>7, <3>2
      <4>. QED  BY <1>1, <1>2, <2>1, <4>1 DEF OwnerInv, SameFlags, prev
    <3>. QED  BY <3>1, <3>2
  <2>8. \A s \in Sessions : Open(s)' /\ ~subs'[s].closed => Attachments(s)' # {}
    <3>1. \A s \in Sessions : Open(s)' /\ ~subs'[s].closed => Attachments(s) # {}
      BY <1>1, <1>2, <2>1 DEF OwnerInv, Open, SameFlags
    <3>. QED  BY <2>4, <3>1
  <2>. QED  BY <1>4, <2>3, <2>5, <2>6, <2>7, <2>8 DEF ServerInv, OwnerInv
<1>. QED  BY <1>5, <1>6

------------------------------------------------------------------------------
(* A session.                                                               *)

Ends == {"new", "over", "failed"}

(* A step of an open session that takes nothing from a scene.               *)
LEMMA OneSession ==
  ASSUME ServerInv, NEW s \in Sessions, Open(s),
         NEW ses \in Session(Objects), ses.status \notin Ends,
         session' = [session EXCEPT ![s] = ses]
  PROVE  /\ session' \in [Sessions -> Session(Objects)]
         /\ \A x \in Sessions :
              \/ session'[x].status = session[x].status
              \/ Open(x) /\ session'[x].status \notin {"new", "over"}
<1>1. session \in [Sessions -> Session(Objects)]
  BY DEF ServerInv, TypeInv
<1>2. session'[s] = ses /\ \A x \in Sessions : x # s => session'[x] = session[x]
  BY <1>1
<1>. QED  BY <1>1, <1>2 DEF Ends

LEMMA QuietSession ==
  ASSUME ServerInv, NEW s \in Sessions, Open(s),
         NEW ses \in Session(Objects), ses.status \notin Ends,
         session' = [session EXCEPT ![s] = ses],
         UNCHANGED server,
         subs' \in [Sessions -> Pipe(FramesOf(Objects))],
         SameFlags(subs, subs'),
         viewer' \in [Sessions -> Viewer(Objects)]
  PROVE  ServerInv'
<1>1. /\ session' \in [Sessions -> Session(Objects)]
      /\ \A x \in Sessions :
           \/ session'[x].status = session[x].status
           \/ Open(x) /\ session'[x].status \notin {"new", "over"}
  BY OneSession
<1>2. UNCHANGED <<scenes, registry, active, resets>> /\ Objects' = Objects
  BY DEF server, Objects
<1>3. TypeInv'
  BY <1>1, <1>2 DEF ServerInv, TypeInv
<1>4. RegistryInv' /\ OwnerInv'
  <2>1. \A o \in Objects : scenes'[o].subs = scenes[o].subs
    BY <1>2
  <2>. QED  BY <1>1, <1>2, <2>1, Quiet
<1>. QED  BY <1>3, <1>4 DEF ServerInv

(* What the steps of a session have in common.                              *)
LEMMA SessionFacts ==
  ASSUME ServerInv, NEW s \in Sessions
  PROVE  /\ session[s] \in Session(Objects)
         /\ session[s].status \in Statuses
         /\ session[s].out \in Seq(FramesOf(Objects))
         /\ subs[s] \in Pipe(FramesOf(Objects))
         /\ viewer[s] \in Viewer(Objects)
         /\ SameFlags(subs, subs)
         /\ session[s].status \notin Ends => Open(s) /\ session[s].scene \in Objects
BY DEF ServerInv, TypeInv, Session, SameFlags, Open, Ends

LEMMA WriterGetInv ==
  ASSUME ServerInv, NEW s \in Sessions, WriterGet(s)
  PROVE  ServerInv'
<1>. DEFINE ses == session[s]
            q == subs[s].queue
            F == FramesOf(Objects)
<1>1. /\ ses \in Session(Objects) /\ ses.status \notin Ends /\ Open(s)
      /\ subs[s] \in Pipe(F)
      /\ subs \in [Sessions -> Pipe(F)] /\ viewer \in [Sessions -> Viewer(Objects)]
      /\ session \in [Sessions -> Session(Objects)]
  BY SessionFacts DEF WriterGet, Ends, ServerInv, TypeInv
<1>2. q # <<>> /\ q \in Seq(F \cup {Sentinel})
  BY <1>1 DEF WriterGet, Pipe
<1>3. Head(q) \in F \cup {Sentinel} /\ Tail(q) \in Seq(F \cup {Sentinel})
  BY <1>2
<1>4. subs' = [subs EXCEPT ![s] = [subs[s] EXCEPT !.queue = Tail(q)]]
  BY DEF WriterGet
<1>5. UNCHANGED server /\ UNCHANGED viewer
  BY DEF WriterGet
<1>6. subs' \in [Sessions -> Pipe(F)] /\ SameFlags(subs, subs')
  <2>. DEFINE sub == [subs[s] EXCEPT !.queue = Tail(q)]
  <2>1. sub \in Pipe(F) /\ sub.live = subs[s].live /\ sub.closed = subs[s].closed
    BY <1>1, <1>3 DEF Pipe
  <2>. HIDE DEF sub, F
  <2>2. subs' = [subs EXCEPT ![s] = sub]
    BY <1>4 DEF sub
  <2>. QED  BY <1>1, <2>1, <2>2 DEF SameFlags
<1>7. CASE Head(q) = Sentinel
  <2>. DEFINE ses2 == [ses EXCEPT !.status = AfterWriter(ses.status)]
  <2>1. session' = [session EXCEPT ![s] = ses2]
    BY <1>7 DEF WriterGet
  <2>2. AfterWriter(ses.status) \in Statuses /\ AfterWriter(ses.status) \notin Ends
    BY DEF AfterWriter, Statuses, Ends
  <2>3. ses2 \in Session(Objects) /\ ses2.status \notin Ends
    BY <1>1, <2>2 DEF Session, Ends
  <2>. HIDE DEF ses2, F
  <2>. QED  BY <1>1, <1>5, <1>6, <2>1, <2>3, QuietSession DEF F
<1>8. CASE Head(q) # Sentinel
  <2>. DEFINE ses2 == [ses EXCEPT !.out = <<Head(q)>>]
  <2>1. session' = [session EXCEPT ![s] = ses2]
    BY <1>8 DEF WriterGet
  <2>2. <<Head(q)>> \in Seq(F)
    BY <1>3, <1>8
  <2>3. ses2 \in Session(Objects) /\ ses2.status \notin Ends
    BY <1>1, <2>2 DEF Session, Ends
  <2>. HIDE DEF ses2, F
  <2>. QED  BY <1>1, <1>5, <1>6, <2>1, <2>3, QuietSession DEF F
<1>. QED  BY <1>7, <1>8

LEMMA SendFailsInv ==
  ASSUME ServerInv, NEW s \in Sessions, SendFails(s)
  PROVE  ServerInv'
<1>. DEFINE status == AfterWriter(session[s].status)
            ses2 == [session[s] EXCEPT !.status = status, !.out = <<>>]
<1>1. session[s] \in Session(Objects) /\ session[s].status \notin Ends /\ Open(s)
  BY SessionFacts DEF SendFails, Ends
<1>2. status \in Statuses /\ status \notin Ends /\ <<>> \in Seq(FramesOf(Objects))
  BY DEF AfterWriter, Statuses, Ends
<1>3. session' = [session EXCEPT ![s] = ses2]
  BY SessionFacts DEF SendFails, ServerInv, TypeInv
<1>. HIDE DEF status
<1>4. ses2 \in Session(Objects) /\ ses2.status \notin Ends
  BY <1>1, <1>2 DEF Session, Ends
<1>5. UNCHANGED server /\ subs' = subs /\ viewer' = viewer
  BY DEF SendFails
<1>6. /\ subs' \in [Sessions -> Pipe(FramesOf(Objects))]
      /\ SameFlags(subs, subs')
      /\ viewer' \in [Sessions -> Viewer(Objects)]
  BY <1>5, SessionFacts DEF ServerInv, TypeInv
<1>. HIDE DEF ses2
<1>. QED  BY <1>1, <1>3, <1>4, <1>5, <1>6, QuietSession

LEMMA PingOutInv ==
  ASSUME ServerInv, NEW s \in Sessions, PingOut(s)
  PROVE  ServerInv'
<1>. DEFINE ses2 == [session[s] EXCEPT !.status = "closing"]
<1>1. session[s] \in Session(Objects) /\ session[s].status \notin Ends /\ Open(s)
  BY SessionFacts DEF PingOut, Ends
<1>2. session' = [session EXCEPT ![s] = ses2]
  BY DEF PingOut
<1>3. ses2 \in Session(Objects) /\ ses2.status \notin Ends
  BY <1>1 DEF Session, Statuses, Ends
<1>4. UNCHANGED server /\ subs' = subs /\ viewer' = viewer
  BY DEF PingOut
<1>5. /\ subs' \in [Sessions -> Pipe(FramesOf(Objects))]
      /\ SameFlags(subs, subs')
      /\ viewer' \in [Sessions -> Viewer(Objects)]
  BY <1>4, SessionFacts DEF ServerInv, TypeInv
<1>. HIDE DEF ses2
<1>. QED  BY <1>1, <1>2, <1>3, <1>4, <1>5, QuietSession

LEMMA ReaderEndsInv ==
  ASSUME ServerInv, NEW s \in Sessions, ReaderEnds(s)
  PROVE  ServerInv'
<1>. DEFINE status == IF session[s].status = "running" THEN "gone" ELSE "closing"
            ses2 == [session[s] EXCEPT !.status = status]
<1>1. session[s] \in Session(Objects) /\ session[s].status \notin Ends /\ Open(s)
  BY SessionFacts DEF ReaderEnds, Ends
<1>2. session' = [session EXCEPT ![s] = ses2]
  BY DEF ReaderEnds
<1>3. ses2 \in Session(Objects) /\ ses2.status \notin Ends
  BY <1>1 DEF Session, Statuses, Ends
<1>4. UNCHANGED server /\ subs' = subs /\ viewer' = viewer
  BY DEF ReaderEnds
<1>5. /\ subs' \in [Sessions -> Pipe(FramesOf(Objects))]
      /\ SameFlags(subs, subs')
      /\ viewer' \in [Sessions -> Viewer(Objects)]
  BY <1>4, SessionFacts DEF ServerInv, TypeInv
<1>. HIDE DEF ses2
<1>. QED  BY <1>1, <1>2, <1>3, <1>4, <1>5, QuietSession

LEMMA InputInv ==
  ASSUME ServerInv, NEW s \in Sessions, NEW patches \in Patches, Input(s, patches)
  PROVE  ServerInv'
<1>. DEFINE o == session[s].scene
            status == IF session[s].status = "silent" THEN "closing" ELSE session[s].status
            ses2 == [session[s] EXCEPT !.status = status]
<1>1. /\ session[s] \in Session(Objects) /\ session[s].status \notin Ends /\ Open(s)
      /\ session[s].status \in Statuses /\ o \in Objects
  BY SessionFacts DEF Input, Ends
<1>2. session' = [session EXCEPT ![s] = ses2]
  BY DEF Input
<1>3. status \in Statuses /\ status \notin Ends
  BY <1>1 DEF Statuses, Ends
<1>. HIDE DEF status
<1>4. ses2 \in Session(Objects) /\ ses2.status \notin Ends
  BY <1>1, <1>3 DEF Session, Ends
<1>. HIDE DEF ses2
<1>5. /\ Objects' = Objects
      /\ \A x \in Objects : SceneFits(scenes[x], x)'
      /\ \A x \in Objects : scenes'[x].subs = scenes[x].subs
      /\ subs' \in [Sessions -> Pipe(FramesOf(Objects))]
      /\ SameFlags(subs, subs')
  <2>1. Publish(o, patches)
    BY DEF Input
  <2>. QED  BY <1>1, <2>1, PublishFacts
<1>6. /\ session' \in [Sessions -> Session(Objects)]
      /\ \A x \in Sessions :
           \/ session'[x].status = session[x].status
           \/ Open(x) /\ session'[x].status \notin {"new", "over"}
  BY <1>1, <1>2, <1>4, OneSession
<1>7. UNCHANGED <<registry, active, resets, viewer>>
  BY DEF Input
<1>8. TypeInv'
  BY <1>5, <1>6, <1>7 DEF ServerInv, TypeInv
<1>9. RegistryInv' /\ OwnerInv'
  BY <1>5, <1>6, <1>7, Quiet
<1>. QED  BY <1>8, <1>9 DEF ServerInv

LEMMA ViewType ==
  ASSUME NEW O, O \subseteq SceneIds, NEW v \in Viewer(O), NEW f \in FramesOf(O)
  PROVE  View(v, f) \in Viewer(O)
<1>1. f.scene \in O /\ f.seq \in Nat
  BY DEF FramesOf, Frame, Snapshot, Delta, SceneChanged
<1>2. NoViewer \in Viewer(O)
  BY DEF NoViewer, Viewer, Fresh
<1>3. ObserveSnapshot(v.cur, f.seq) \in Nat
  BY <1>1 DEF ObserveSnapshot, Viewer
<1>4. [v EXCEPT !.scene = f.scene, !.cur = ObserveSnapshot(v.cur, f.seq), !.past = "none"] \in Viewer(O)
  BY <1>1, <1>3 DEF Viewer
<1>5. [v EXCEPT !.cur = f.seq] \in Viewer(O)
  BY <1>1 DEF Viewer
<1>. QED  BY <1>2, <1>4, <1>5 DEF View

LEMMA ReceiveInv ==
  ASSUME ServerInv, NEW s \in Sessions, Receive(s)
  PROVE  ServerInv'
<1>. DEFINE out == session[s].out
            F == FramesOf(Objects)
            status == AfterSend(session[s].status, Tail(out))
            ses2 == [session[s] EXCEPT !.out = Tail(out), !.status = status]
            v2 == View(viewer[s], Head(out))
<1>1. /\ session[s] \in Session(Objects) /\ session[s].status \notin Ends /\ Open(s)
      /\ session[s].status \in Statuses /\ out \in Seq(F) /\ viewer[s] \in Viewer(Objects)
      /\ viewer \in [Sessions -> Viewer(Objects)] /\ Objects \subseteq SceneIds
  BY SessionFacts DEF Receive, Ends, ServerInv, TypeInv
<1>2. out # <<>>
  BY DEF Receive
<1>3. Head(out) \in F /\ Tail(out) \in Seq(F)
  <2>. HIDE DEF F
  <2>. QED  BY <1>1, <1>2
<1>4. session' = [session EXCEPT ![s] = ses2] /\ viewer' = [viewer EXCEPT ![s] = v2]
  BY DEF Receive
<1>5. status \in Statuses /\ status \notin Ends
  BY <1>1 DEF AfterSend, Statuses, Ends
<1>6. v2 \in Viewer(Objects)
  BY <1>1, <1>3, ViewType
<1>. HIDE DEF status, v2
<1>7. ses2 \in Session(Objects) /\ ses2.status \notin Ends
  <2>. DEFINE rest == Tail(out)
  <2>1. rest \in Seq(F)
    BY <1>3
  <2>. HIDE DEF rest
  <2>2. [session[s] EXCEPT !.out = rest, !.status = status] \in Session(Objects)
    BY <1>1, <1>5, <2>1 DEF Session, Ends
  <2>. QED  BY <1>5, <2>2 DEF rest, Session
<1>8. UNCHANGED server /\ subs' = subs
  BY DEF Receive
<1>9. /\ subs' \in [Sessions -> Pipe(FramesOf(Objects))]
      /\ SameFlags(subs, subs')
      /\ viewer' \in [Sessions -> Viewer(Objects)]
  BY <1>1, <1>4, <1>6, <1>8, SessionFacts DEF ServerInv, TypeInv
<1>. HIDE DEF ses2
<1>. QED  BY <1>1, <1>4, <1>7, <1>8, <1>9, QuietSession

(* A handshake that is refused leaves no trace.                             *)
LEMMA RefusedInv ==
  ASSUME ServerInv, NEW s \in Sessions, session[s].status = "new",
         session' = [session EXCEPT ![s] = Ended("over")],
         UNCHANGED <<server, subs, viewer>>
  PROVE  ServerInv'
<1>1. TypeInv /\ RegistryInv /\ OwnerInv
  BY DEF ServerInv
<1>2. Ended("over") \in Session(Objects)
  BY DEF Ended, Session, Statuses
<1>3. session' \in [Sessions -> Session(Objects)]
  BY <1>1, <1>2 DEF TypeInv
<1>4. /\ session'[s].status = "over"
      /\ \A x \in Sessions : x # s => session'[x] = session[x]
  BY <1>1 DEF TypeInv, Ended
<1>5. UNCHANGED <<scenes, registry, active, resets>>
  BY DEF server
<1>6. /\ Objects' = Objects /\ Registered' = Registered /\ ActiveScene' = ActiveScene
      /\ \A x : Attachments(x)' = Attachments(x)
  BY <1>5 DEF Objects, Registered, ActiveScene, Attachments
<1>7. Attachments(s) = {}
  BY <1>1 DEF OwnerInv
<1>8. TypeInv'
  BY <1>1, <1>3, <1>5, <1>6 DEF TypeInv
<1>9. RegistryInv'
  BY <1>1, <1>5, <1>6 DEF RegistryInv
<1>10. OwnerInv'
  BY <1>1, <1>4, <1>5, <1>6, <1>7 DEF OwnerInv, Open
<1>. QED  BY <1>8, <1>9, <1>10 DEF ServerInv

(* The opening fails: the scene resolved at the start lets go of it.        *)
LEMMA FailOpeningInv ==
  ASSUME ServerInv, NEW s \in Sessions, FailOpening(s)
  PROVE  ServerInv'
<1>. DEFINE o == session[s].scene
            sc == Detached(scenes[o], s)
<1>1. TypeInv /\ RegistryInv /\ OwnerInv
  BY DEF ServerInv
<1>2. Open(s) /\ o \in Objects
  BY SessionFacts DEF FailOpening, Ends
<1>3. SceneFits(sc, o) /\ sc.subs = scenes[o].subs \ {s}
  BY <1>1, <1>2, SubsFits DEF TypeInv
<1>4. scenes' = [scenes EXCEPT ![o] = sc]
  BY DEF FailOpening
<1>. HIDE DEF o, sc
<1>5. /\ Objects' = Objects
      /\ \A x \in Objects : SceneFits(scenes[x], x)'
      /\ scenes'[o] = sc
      /\ \A x \in Objects : x # o => scenes'[x] = scenes[x]
  BY <1>1, <1>2, <1>3, <1>4, OneScene
<1>6. /\ subs' = [subs EXCEPT ![s] = Close(subs[s])]
      /\ session' = [session EXCEPT ![s] = Ended("failed")]
      /\ viewer' = [viewer EXCEPT ![s] = NoViewer]
      /\ UNCHANGED <<registry, active, resets>>
  BY DEF FailOpening
<1>7. /\ Close(subs[s]) \in Pipe(FramesOf(Objects))
      /\ Close(subs[s]).live = subs[s].live /\ Close(subs[s]).closed
  BY <1>1, ClosePipe DEF TypeInv
<1>8. /\ subs' \in [Sessions -> Pipe(FramesOf(Objects))]
      /\ SameFlags(subs, subs')
  BY <1>1, <1>6, <1>7 DEF TypeInv, SameFlags
<1>9. Ended("failed") \in Session(Objects) /\ NoViewer \in Viewer(Objects)
  BY DEF Ended, Session, Statuses, NoViewer, Viewer, Fresh
<1>10. TypeInv'
  BY <1>1, <1>5, <1>6, <1>8, <1>9 DEF TypeInv
<1>11. Registered' = Registered /\ ActiveScene' = ActiveScene
  BY <1>6 DEF Registered, ActiveScene
<1>12. RegistryInv'
  BY <1>1, <1>6, <1>11 DEF RegistryInv
<1>13. /\ Attachments(s)' \subseteq Attachments(s)
       /\ \A x : x # s => Attachments(x)' = Attachments(x)
  BY <1>3, <1>5 DEF Attachments
<1>14. /\ session'[s].status = "failed"
       /\ \A x \in Sessions : x # s => session'[x] = session[x]
  BY <1>1, <1>6 DEF TypeInv, Ended
<1>15. OwnerInv'
  <2>1. \A x \in Objects' : scenes'[x].subs # {} => x \in Registered' \cup resets'
    BY <1>1, <1>3, <1>5, <1>6, <1>11 DEF OwnerInv
  <2>2. \A x \in Sessions : \A y, z \in Attachments(x)' : y = z
    BY <1>1, <1>13 DEF OwnerInv
  <2>3. ASSUME NEW x \in Sessions, NEW y \in Attachments(x)'
        PROVE  /\ session'[x].status # "new"
               /\ session'[x].status = "over" => y \in resets'
               /\ subs'[x].live => y = ActiveScene' \/ y \in resets'
    BY <1>1, <1>6, <1>8, <1>11, <1>13, <1>14, <2>3 DEF OwnerInv, SameFlags
  <2>4. \A x \in Sessions : Open(x)' /\ ~subs'[x].closed => Attachments(x)' # {}
    BY <1>1, <1>8, <1>13, <1>14 DEF OwnerInv, Open, SameFlags
  <2>. QED  BY <2>1, <2>2, <2>3, <2>4 DEF OwnerInv
<1>. QED  BY <1>10, <1>12, <1>15 DEF ServerInv

(* Server.detach: every registered scene lets go of it; what is left is a   *)
(* scene that was replaced, whose reset is to come.                         *)
LEMMA FinishInv ==
  ASSUME ServerInv, NEW s \in Sessions, Finish(s)
  PROVE  ServerInv'
<1>1. TypeInv /\ RegistryInv /\ OwnerInv
  BY DEF ServerInv
<1>2. /\ scenes' = [o \in Objects |-> IF o \in Registered THEN Detached(scenes[o], s)
                                                          ELSE scenes[o]]
      /\ subs' = IF Registered = {} THEN subs ELSE [subs EXCEPT ![s] = Close(subs[s])]
      /\ session' = [session EXCEPT ![s] = Ended("over")]
      /\ viewer' = [viewer EXCEPT ![s] = NoViewer]
      /\ UNCHANGED <<registry, active, resets>>
  BY DEF Finish
<1>3. \A o \in Objects : /\ SceneFits(Detached(scenes[o], s), o)
                         /\ Detached(scenes[o], s).subs = scenes[o].subs \ {s}
  BY <1>1, SubsFits DEF TypeInv
<1>4. /\ Objects' = Objects
      /\ \A o \in Objects : SceneFits(scenes'[o], o)
      /\ \A o \in Objects \cap Registered : scenes'[o].subs = scenes[o].subs \ {s}
      /\ \A o \in Objects \ Registered : scenes'[o] = scenes[o]
  BY <1>1, <1>2, <1>3 DEF Objects, TypeInv
<1>5. /\ Close(subs[s]) \in Pipe(FramesOf(Objects))
      /\ Close(subs[s]).live = subs[s].live /\ Close(subs[s]).closed
  BY <1>1, ClosePipe DEF TypeInv
<1>6. /\ subs' \in [Sessions -> Pipe(FramesOf(Objects))]
      /\ SameFlags(subs, subs')
  BY <1>1, <1>2, <1>5 DEF TypeInv, SameFlags
<1>7. Ended("over") \in Session(Objects) /\ NoViewer \in Viewer(Objects)
  BY DEF Ended, Session, Statuses, NoViewer, Viewer, Fresh
<1>8. TypeInv'
  BY <1>1, <1>2, <1>4, <1>6, <1>7 DEF TypeInv
<1>9. Registered' = Registered /\ ActiveScene' = ActiveScene
  BY <1>2 DEF Registered, ActiveScene
<1>10. RegistryInv'
  BY <1>1, <1>2, <1>9 DEF RegistryInv
<1>11. /\ Attachments(s)' = Attachments(s) \ Registered
       /\ \A x : x # s => Attachments(x)' = Attachments(x)
  BY <1>4 DEF Attachments
<1>12. /\ session'[s].status = "over"
       /\ \A x \in Sessions : x # s => session'[x] = session[x]
  BY <1>1, <1>2 DEF TypeInv, Ended
<1>13. OwnerInv'
  <2>1. \A x \in Objects' : scenes'[x].subs # {} => x \in Registered' \cup resets'
    BY <1>1, <1>2, <1>4, <1>9 DEF OwnerInv
  <2>2. \A x \in Sessions : \A y, z \in Attachments(x)' : y = z
    BY <1>1, <1>11 DEF OwnerInv
  <2>3. Attachments(s)' \subseteq resets
    BY <1>1, <1>11 DEF OwnerInv, Attachments
  <2>4. ASSUME NEW x \in Sessions, NEW y \in Attachments(x)'
        PROVE  /\ session'[x].status # "new"
               /\ session'[x].status = "over" => y \in resets'
               /\ subs'[x].live => y = ActiveScene' \/ y \in resets'
    <3>1. CASE x = s
      BY <1>2, <1>12, <2>3, <2>4, <3>1
    <3>2. CASE x # s
      BY <1>1, <1>2, <1>6, <1>9, <1>11, <1>12, <2>4, <3>2 DEF OwnerInv, SameFlags
    <3>. QED  BY <3>1, <3>2
  <2>5. \A x \in Sessions : Open(x)' /\ ~subs'[x].closed => Attachments(x)' # {}
    BY <1>1, <1>6, <1>11, <1>12 DEF OwnerInv, Open, SameFlags
  <2>. QED  BY <2>1, <2>2, <2>4, <2>5 DEF OwnerInv
<1>. QED  BY <1>8, <1>10, <1>13 DEF ServerInv

(* Whatever has been forgotten or was never recorded, what a subscription   *)
(* begins with are frames of the scene it is for.                           *)
LEMMA InitialFramesType ==
  ASSUME NEW O, O \subseteq SceneIds, NEW o \in O, NEW sc, SceneFits(sc, o), NEW since \in Nat
  PROVE  InitialFrames(sc, since) \in Seq(FramesOf(O))
<1>. DEFINE records == RecordsAfter(sc.replay, since)
            F == FramesOf(O)
<1>1. SnapshotOf(sc) \in F /\ \A r \in Record : DeltaOf(sc, r) \in F
  BY FrameTypes
<1>2. records \in Seq(Record)
  BY RecordsAfterIncreasing DEF SceneFits, SceneRecord
<1>. HIDE DEF records, F
<1>3. \A i \in 1..Len(records) : DeltaOf(sc, records[i]) \in F
  BY <1>1, <1>2
<1>4. Len(records) \in Nat
  BY <1>2
<1>5. [i \in 1..Len(records) |-> DeltaOf(sc, records[i])] \in Seq(F)
  BY <1>3, <1>4
<1>6. <<SnapshotOf(sc)>> \in Seq(F)
  BY <1>1
<1>. QED  BY <1>5, <1>6 DEF InitialFrames, records, F

LEMMA PastTypes ==
  ASSUME TypeInv, NEW past \in Pasts
  PROVE  past.cur \in Nat /\ past.scene \in Objects \cup {NoScene}
BY MaxSeqAssumption DEF Pasts, Fresh

LEMMA SubscribeInv ==
  ASSUME ServerInv, NEW s \in Sessions, NEW n \in Names \cup {NoName}, NEW role,
         NEW past \in Pasts, Subscribe(s, n, role, past)
  PROVE  ServerInv'
<1>. DEFINE o == Resolve(n, role)
            out == InitialFrames(scenes[o], past.cur)
            sc == Attached(scenes[o], s)
            ses2 == [status |-> IF out = <<>> THEN "running" ELSE "opening",
                     scene |-> o, out |-> out]
            v2 == [scene |-> IF Memory(past, o) = "none" THEN NoScene ELSE past.scene,
                   cur |-> past.cur, open |-> TRUE, past |-> Memory(past, o)]
<1>1. TypeInv /\ RegistryInv /\ OwnerInv
  BY DEF ServerInv
<1>2. /\ session[s].status = "new" /\ o # NoScene
      /\ scenes' = [scenes EXCEPT ![o] = sc]
      /\ subs' = [subs EXCEPT ![s] = NewSubscription(n = NoName)]
      /\ session' = [session EXCEPT ![s] = ses2]
      /\ viewer' = [viewer EXCEPT ![s] = v2]
      /\ UNCHANGED <<registry, active, resets>>
  BY DEF Subscribe
<1>3. o \in Objects /\ o \in Registered /\ (n = NoName => o = ActiveScene)
  BY <1>1, <1>2 DEF Resolve, ActiveScene, Registered, TypeInv
<1>4. past.cur \in Nat /\ past.scene \in Objects \cup {NoScene}
  BY <1>1, PastTypes
<1>5. Objects \subseteq SceneIds /\ SceneFits(scenes[o], o)
  BY <1>1, <1>3 DEF TypeInv
<1>6. out \in Seq(FramesOf(Objects))
  BY <1>3, <1>4, <1>5, InitialFramesType
<1>7. ses2 \in Session(Objects) /\ ses2.status \notin Ends
  <2>. HIDE DEF out, o
  <2>. QED  BY <1>3, <1>6 DEF Session, Statuses, Ends
<1>8. v2 \in Viewer(Objects)
  <2>1. Memory(past, o) \in {"none", "same", "other"}
    BY DEF Memory
  <2>. HIDE DEF o
  <2>. QED  BY <1>4, <2>1 DEF Viewer
<1>9. SceneFits(sc, o) /\ sc.subs = scenes[o].subs \cup {s}
  BY <1>5, SubsFits
<1>. HIDE DEF o, out, sc, ses2, v2
<1>10. /\ Objects' = Objects
       /\ \A x \in Objects : SceneFits(scenes[x], x)'
       /\ scenes'[o] = sc
       /\ \A x \in Objects : x # o => scenes'[x] = scenes[x]
  BY <1>1, <1>2, <1>3, <1>9, OneScene
<1>11. /\ NewSubscription(n = NoName) \in Pipe(FramesOf(Objects))
       /\ NewSubscription(n = NoName).live => n = NoName
  BY NewSubscriptionType DEF NewSubscription
<1>12. /\ subs' \in [Sessions -> Pipe(FramesOf(Objects))]
       /\ subs'[s].live => n = NoName
       /\ \A x \in Sessions : x # s => subs'[x] = subs[x]
  BY <1>1, <1>2, <1>11 DEF TypeInv
<1>13. TypeInv'
  BY <1>1, <1>2, <1>7, <1>8, <1>10, <1>12 DEF TypeInv
<1>14. Registered' = Registered /\ ActiveScene' = ActiveScene
  BY <1>2 DEF Registered, ActiveScene
<1>15. RegistryInv'
  BY <1>1, <1>2, <1>14 DEF RegistryInv
<1>16. /\ Attachments(s) = {}
       /\ Attachments(s)' = {o}
       /\ \A x : x # s => Attachments(x)' = Attachments(x)
  <2>1. Attachments(s) = {}
    BY <1>1, <1>2 DEF OwnerInv
  <2>. QED  BY <1>3, <1>9, <1>10, <2>1 DEF Attachments
<1>17. /\ session'[s] = ses2
       /\ \A x \in Sessions : x # s => session'[x] = session[x]
  BY <1>1, <1>2 DEF TypeInv
<1>18. OwnerInv'
  <2>1. \A x \in Objects' : scenes'[x].subs # {} => x \in Registered' \cup resets'
    BY <1>1, <1>2, <1>3, <1>10, <1>14 DEF OwnerInv
  <2>2. \A x \in Sessions : \A y, z \in Attachments(x)' : y = z
    BY <1>1, <1>16 DEF OwnerInv
  <2>3. ASSUME NEW x \in Sessions, NEW y \in Attachments(x)'
        PROVE  /\ session'[x].status # "new"
               /\ session'[x].status = "over" => y \in resets'
               /\ subs'[x].live => y = ActiveScene' \/ y \in resets'
    <3>1. CASE x = s
      BY <1>3, <1>7, <1>12, <1>14, <1>16, <1>17, <2>3, <3>1 DEF Ends
    <3>2. CASE x # s
      BY <1>1, <1>2, <1>12, <1>14, <1>16, <1>17, <2>3, <3>2 DEF OwnerInv
    <3>. QED  BY <3>1, <3>2
  <2>4. \A x \in Sessions : Open(x)' /\ ~subs'[x].closed => Attachments(x)' # {}
    BY <1>1, <1>12, <1>16, <1>17 DEF OwnerInv, Open
  <2>. QED  BY <2>1, <2>2, <2>3, <2>4 DEF OwnerInv
<1>. QED  BY <1>13, <1>15, <1>18 DEF ServerInv

------------------------------------------------------------------------------
(* The invariant is inductive.                                              *)

LEMMA StutterInv ==
  ASSUME ServerInv, UNCHANGED vars
  PROVE  ServerInv'
<1>1. UNCHANGED <<scenes, registry, active, resets, subs, session, viewer>>
  BY DEF vars
<1>2. Objects' = Objects /\ UNCHANGED <<registry, active, resets>> /\ scenes' = scenes
  BY <1>1 DEF Objects
<1>3. SameFlags(subs, subs')
  BY <1>1 DEF SameFlags
<1>4. RegistryInv' /\ OwnerInv'
  BY <1>1, <1>2, <1>3, Quiet
<1>5. TypeInv'
  BY <1>1, <1>2 DEF ServerInv, TypeInv
<1>. QED  BY <1>4, <1>5 DEF ServerInv

LEMMA NextInv ==
  ASSUME ServerInv, [Next]_vars
  PROVE  ServerInv'
<1>1. CASE \E n \in Names : Register(n) \/ SetActive(n)
  BY <1>1, RegisterInv, SetActiveInv
<1>2. CASE ResetAll
  BY <1>2, ResetAllInv
<1>3. CASE \E o \in Objects : RunReset(o)
  BY <1>3, RunResetInv
<1>4. CASE \E o \in Objects : \E patches \in Patches : Set(o, patches) \/ Emit(o, patches)
  BY <1>4, SetInv, EmitInv
<1>5. CASE \E s \in Sessions : \E n \in Names \cup {NoName}, role \in Roles : Refuse(s, n, role)
  BY <1>5, RefusedInv DEF Refuse
<1>6. CASE \E s \in Sessions : \E n \in Names \cup {NoName}, role \in Roles :
             \E past \in Pasts : Subscribe(s, n, role, past)
  BY <1>6, SubscribeInv
<1>7. CASE \E s \in Sessions : FailOpening(s) \/ Finish(s)
  BY <1>7, FailOpeningInv, FinishInv
<1>8. CASE \E s \in Sessions : WriterGet(s) \/ SendFails(s) \/ PingOut(s)
  BY <1>8, WriterGetInv, SendFailsInv, PingOutInv
<1>9. CASE \E s \in Sessions : ReaderEnds(s) \/ Receive(s)
  BY <1>9, ReaderEndsInv, ReceiveInv
<1>10. CASE \E s \in Sessions : \E patches \in Patches : Input(s, patches)
  BY <1>10, InputInv
<1>11. CASE UNCHANGED vars
  BY <1>11, StutterInv
<1>. QED  BY <1>1, <1>2, <1>3, <1>4, <1>5, <1>6, <1>7, <1>8, <1>9, <1>10, <1>11 DEF Next

------------------------------------------------------------------------------
(* The theorems.                                                            *)

(* Registry, pipes and sessions keep in step in every behaviour of the      *)
(* server, over any number of scenes, names and sessions.                   *)
THEOREM ServerInvariance == Spec => []ServerInv
<1>1. Init => ServerInv
  BY InitInv
<1>2. ServerInv /\ [Next]_vars => ServerInv'
  BY NextInv
<1>. QED  BY <1>1, <1>2, PTL DEF Spec

(* Every scene, pipe, session and receiver has the type its annotation      *)
(* states.                                                                  *)
THEOREM ServerTypes == Spec => []TypeOK
<1>1. ServerInv => TypeOK
  BY TypeInvTypes DEF ServerInv
<1>. QED  BY <1>1, ServerInvariance, PTL

(* No subscription is ever in two scenes, whatever is registered, replaced, *)
(* made active or reset around it (migrate_subscribers_from).               *)
THEOREM OneOwnerHolds == Spec => []OneOwner
<1>1. ServerInv => OneOwner
  <2>. SUFFICES ASSUME ServerInv, NEW s \in Sessions
                PROVE  Cardinality(Attachments(s)) <= 1
    BY DEF OneOwner
  <2>1. CASE Attachments(s) = {}
    BY <2>1, FS_EmptySet
  <2>2. CASE Attachments(s) # {}
    <3>1. PICK o : Attachments(s) = {o}
      BY <2>2 DEF ServerInv, OwnerInv
    <3>2. Cardinality({o}) = 1
      BY FS_Singleton
    <3>. QED  BY <3>1, <3>2
  <2>. QED  BY <2>1, <2>2
<1>. QED  BY <1>1, ServerInvariance, PTL

(* A live session is fed by the active scene, unless a reset that is to     *)
(* come will close it.                                                      *)
THEOREM LiveOnActiveHolds == Spec => []LiveOnActive
<1>1. ServerInv => LiveOnActive
  BY DEF ServerInv, OwnerInv, LiveOnActive
<1>. QED  BY <1>1, ServerInvariance, PTL

(* A session that ran to its end is left in no scene that goes on.          *)
THEOREM NoGhostsHolds == Spec => []NoGhosts
<1>1. ServerInv => NoGhosts
  BY DEF ServerInv, OwnerInv, NoGhosts
<1>. QED  BY <1>1, ServerInvariance, PTL

------------------------------------------------------------------------------
(* The proof of Server's InStep: what is on its way to a receiver, from the *)
(* state it shows to the last frame its scene has sent, makes one chain.    *)

(* The invariant.                                                           *)

Sending == {"opening", "running", "gone"}

(* Where the receiver stands, as the frame that would have put it there.    *)
(* One that resumed with the state of another scene takes what it is sent   *)
(* for a continuation of the scene the session is on.                       *)
Start(ses, v) ==
  [type  |-> IF v.past = "none" THEN "snapshot" ELSE "delta",
   scene |-> IF v.past = "other" THEN ses.scene ELSE v.scene,
   seq   |-> v.cur]

Stream(ses, sub, v) == <<Start(ses, v)>> \o (ses.out \o sub.queue)

(* Before the first snapshot there may be holes where a number was spent on *)
(* a frame that the replay buffer does not record.                          *)
Exact(str, i) == \E j \in 1..i : str[j].type = "snapshot"

Link(prev, m, exact) ==
  /\ m.seq >= 1
  /\ prev.type = "scene_changed" => m.type = "snapshot"
  /\ m.type = "delta" => /\ m.scene = prev.scene
                         /\ prev.seq < m.seq
                         /\ exact => m.seq = prev.seq + 1

Chain(str, live) ==
  \A i \in 1..Len(str) - 1 : Link(str[i], str[i + 1], live /\ Exact(str, i))

(* The chain ends where the scene that feeds it is.                         *)
Arrives(str, live, o, seq) ==
  LET last == str[Len(str)]
  IN  /\ last.type # "scene_changed"
      /\ last.scene = o
      /\ last.seq <= seq
      /\ live /\ Exact(str, Len(str)) => last.seq = seq

Followed(ses, sub, v) ==
  ses.status \in Sending /\ ~sub.stale /\ ~sub.closed /\ v.open

Flow(s) ==
  LET str == Stream(session[s], subs[s], viewer[s])
  IN  Followed(session[s], subs[s], viewer[s]) =>
        /\ Chain(str, subs[s].live)
        /\ \A o \in Attachments(s) : Arrives(str, subs[s].live, o, scenes[o].seq)

Tidy(ses, sub) ==
  /\ ~sub.closed => sub.queue \in Seq(Frame)
  /\ ses.status # "opening" => Len(ses.out) <= 1
  /\ ses.status \notin Sending => ses.out = <<>>

StepInv ==
  /\ \A o \in Objects : scenes[o].seq >= 1
  /\ \A s \in Sessions : Tidy(session[s], subs[s]) /\ Flow(s)

------------------------------------------------------------------------------
(* Chains.                                                                  *)

Place == [type : {"snapshot", "delta"}, scene : SceneIds \cup {NoScene}, seq : Nat]

Item == Place \cup Frame

LEMMA FrameFields ==
  ASSUME NEW m \in Frame
  PROVE  /\ m.type \in {"snapshot", "delta", "scene_changed"}
         /\ m.seq \in Nat /\ m.scene \in SceneIds /\ m # Sentinel
<1>1. "type" \in DOMAIN m /\ m.type # "none"
  BY DEF Frame, Snapshot, Delta, SceneChanged
<1>2. Sentinel.type = "none"
  BY DEF Sentinel
<1>. QED  BY <1>1, <1>2 DEF Frame, Snapshot, Delta, SceneChanged

LEMMA ItemFields ==
  ASSUME NEW m \in Item
  PROVE  m.type \in {"snapshot", "delta", "scene_changed"} /\ m.seq \in Nat
BY FrameFields DEF Item, Place

LEMMA ChainAppend ==
  ASSUME NEW str \in Seq(Item), str # <<>>, NEW m \in Item, NEW live \in BOOLEAN,
         Chain(str, live),
         Link(str[Len(str)], m, live /\ Exact(str, Len(str)))
  PROVE  Chain(Append(str, m), live)
<1>. DEFINE str2 == Append(str, m)
<1>1. /\ Len(str2) = Len(str) + 1 /\ Len(str) \in Nat /\ Len(str) >= 1
      /\ \A i \in 1..Len(str) : str2[i] = str[i]
      /\ str2[Len(str) + 1] = m
  OBVIOUS
<1>. HIDE DEF str2
<1>2. \A i \in 1..Len(str) : Exact(str2, i) <=> Exact(str, i)
  <2>. SUFFICES ASSUME NEW i \in 1..Len(str)  PROVE Exact(str2, i) <=> Exact(str, i)
    OBVIOUS
  <2>1. \A j \in 1..i : j \in 1..Len(str)
    BY <1>1
  <2>. QED  BY <1>1, <2>1 DEF Exact
<1>3. ASSUME NEW i \in 1..Len(str2) - 1
      PROVE  Link(str2[i], str2[i + 1], live /\ Exact(str2, i))
  <2>1. i \in 1..Len(str) /\ str2[i] = str[i] /\ (Exact(str2, i) <=> Exact(str, i))
    BY <1>1, <1>2
  <2>2. CASE i = Len(str)
    BY <1>1, <2>1, <2>2 DEF Link
  <2>3. CASE i # Len(str)
    <3>1. i \in 1..Len(str) - 1 /\ str2[i + 1] = str[i + 1]
      BY <1>1, <2>1, <2>3
    <3>. QED  BY <2>1, <3>1 DEF Chain, Link
  <2>. QED  BY <2>2, <2>3
<1>. QED  BY <1>3 DEF Chain, str2

LEMMA ArrivesAppend ==
  ASSUME NEW str \in Seq(Item), NEW m \in Item, m.type # "scene_changed",
         NEW live \in BOOLEAN
  PROVE  Arrives(Append(str, m), live, m.scene, m.seq)
<1>. DEFINE str2 == Append(str, m)
<1>1. /\ Len(str2) = Len(str) + 1 /\ Len(str) \in Nat
      /\ \A i \in 1..Len(str) : str2[i] = str[i]
      /\ str2[Len(str) + 1] = m
  OBVIOUS
<1>. HIDE DEF str2
<1>2. m.seq \in Nat
  BY ItemFields
<1>. QED  BY <1>1, <1>2 DEF Arrives, str2

(* The receiver takes the first frame: the chain starts one link later.     *)
LEMMA ChainAdvance ==
  ASSUME NEW str \in Seq(Item), NEW str2 \in Seq(Item), NEW live \in BOOLEAN,
         Len(str2) = Len(str) - 1, Len(str) >= 2,
         \A i \in 2..Len(str2) : str2[i] = str[i + 1],
         str2[1].type = "snapshot" <=> str[1].type = "snapshot" \/ str[2].type = "snapshot",
         \/ str[2].type = "scene_changed"
         \/ str2[1].scene = str[2].scene /\ str2[1].seq = str[2].seq,
         str2[1].type # "scene_changed",
         Chain(str, live)
  PROVE  /\ Chain(str2, live)
         /\ \A o, seq : Arrives(str, live, o, seq) => Arrives(str2, live, o, seq)
<1>1. Len(str) \in Nat /\ Len(str2) \in Nat /\ Len(str) = Len(str2) + 1
  OBVIOUS
<1>2. \A i \in 1..Len(str2) : Exact(str2, i) <=> Exact(str, i + 1)
  <2>. SUFFICES ASSUME NEW i \in 1..Len(str2)  PROVE Exact(str2, i) <=> Exact(str, i + 1)
    OBVIOUS
  <2>1. ASSUME Exact(str2, i)  PROVE Exact(str, i + 1)
    <3>1. PICK j \in 1..i : str2[j].type = "snapshot"
      BY <2>1 DEF Exact
    <3>2. CASE j = 1
      BY <1>1, <3>1, <3>2 DEF Exact
    <3>3. CASE j # 1
      <4>1. j \in 2..Len(str2) /\ j + 1 \in 1..i + 1
        BY <1>1, <3>3
      <4>. QED  BY <3>1, <4>1 DEF Exact
    <3>. QED  BY <3>2, <3>3
  <2>2. ASSUME Exact(str, i + 1)  PROVE Exact(str2, i)
    <3>1. PICK j \in 1..i + 1 : str[j].type = "snapshot"
      BY <2>2 DEF Exact
    <3>2. CASE j \in 1..2
      BY <1>1, <3>1, <3>2 DEF Exact
    <3>3. CASE j \notin 1..2
      <4>1. j - 1 \in 2..Len(str2) /\ j - 1 \in 1..i /\ (j - 1) + 1 = j
        BY <1>1, <3>3
      <4>2. str2[j - 1] = str[j]
        BY <4>1
      <4>. QED  BY <3>1, <4>1, <4>2 DEF Exact
    <3>. QED  BY <3>2, <3>3
  <2>. QED  BY <2>1, <2>2
<1>3. ASSUME NEW i \in 1..Len(str2) - 1
      PROVE  Link(str2[i], str2[i + 1], live /\ Exact(str2, i))
  <2>1. /\ i + 1 \in 1..Len(str) - 1 /\ i \in 1..Len(str2)
        /\ i + 1 \in 2..Len(str2) /\ (i + 1) + 1 = i + 2
    BY <1>1
  <2>2. Link(str[i + 1], str[i + 2], live /\ Exact(str, i + 1))
    BY <2>1 DEF Chain
  <2>3. str2[i + 1] = str[i + 2] /\ (Exact(str2, i) <=> Exact(str, i + 1))
    BY <1>2, <2>1
  <2>4. CASE i = 1
    BY <2>2, <2>3, <2>4 DEF Link
  <2>5. CASE i # 1
    <3>1. str2[i] = str[i + 1]
      BY <1>1, <2>5
    <3>. QED  BY <2>2, <2>3, <3>1 DEF Link
  <2>. QED  BY <2>4, <2>5
<1>4. ASSUME NEW o, NEW seq, Arrives(str, live, o, seq)  PROVE Arrives(str2, live, o, seq)
  <2>1. Len(str2) \in 1..Len(str2) /\ Len(str2) + 1 = Len(str)
    BY <1>1
  <2>2. Exact(str2, Len(str2)) <=> Exact(str, Len(str))
    BY <1>2, <2>1
  <2>3. CASE Len(str2) = 1
    BY <1>1, <1>4, <2>2, <2>3 DEF Arrives
  <2>4. CASE Len(str2) # 1
    <3>1. Len(str2) \in 2..Len(str2)
      BY <1>1, <2>4
    <3>2. str2[Len(str2)] = str[Len(str)]
      BY <2>1, <3>1
    <3>. QED  BY <1>4, <2>2, <3>2 DEF Arrives
  <2>. QED  BY <2>3, <2>4
<1>. QED  BY <1>3, <1>4 DEF Chain

------------------------------------------------------------------------------
(* Streams.                                                                 *)

(* What TypeInv and Tidy say of one session.                                *)
Typed(ses, sub, v) ==
  /\ ses \in [status : Statuses, scene : SceneIds \cup {NoScene}, out : Seq(Frame)]
  /\ sub \in Pipe(Frame)
  /\ v \in [scene : SceneIds \cup {NoScene}, cur : Nat, open : BOOLEAN,
            past : {"none", "same", "other"}]

LaidOut(str, start, out, queue) ==
  /\ str \in Seq(Item) /\ str # <<>>
  /\ str[1] = start
  /\ Len(str) = 1 + (Len(out) + Len(queue))
  /\ \A i \in 1..Len(out) : str[i + 1] = out[i]
  /\ \A i \in 1..Len(queue) : str[i + (Len(out) + 1)] = queue[i]

LEMMA StreamFacts ==
  ASSUME NEW ses, NEW sub, NEW v, Typed(ses, sub, v), sub.queue \in Seq(Frame)
  PROVE  /\ LaidOut(Stream(ses, sub, v), Start(ses, v), ses.out, sub.queue)
         /\ \A m \in Frame :
              Stream(ses, PutNowait(sub, m), v) = Append(Stream(ses, sub, v), m)
<1>. DEFINE a == Start(ses, v)
            out == ses.out
            q == sub.queue
            rest == out \o q
            str == <<a>> \o rest
<1>1. a \in Item /\ out \in Seq(Item) /\ q \in Seq(Item)
  <2>1. Frame \subseteq Item
    BY DEF Item
  <2>2. a \in Place
    BY DEF Start, Typed, Place
  <2>. QED  BY <2>1, <2>2 DEF Typed, Item
<1>2. str = Stream(ses, sub, v)
  BY DEF Stream
<1>. HIDE DEF a, out, q
<1>3. /\ rest \in Seq(Item) /\ Len(rest) = Len(out) + Len(q)
      /\ \A i \in 1..Len(out) : rest[i] = out[i]
      /\ \A i \in 1..Len(q) : rest[i + Len(out)] = q[i]
  BY <1>1
<1>. HIDE DEF rest
<1>4. /\ str \in Seq(Item) /\ Len(str) = 1 + Len(rest) /\ str[1] = a /\ str # <<>>
      /\ \A i \in 1..Len(rest) : str[i + 1] = rest[i]
  <2>1. <<a>> \in Seq(Item) /\ Len(<<a>>) = 1 /\ <<a>>[1] = a
    BY <1>1
  <2>. DEFINE one == <<a>>
  <2>. HIDE DEF one
  <2>2. /\ one \o rest \in Seq(Item) /\ Len(one \o rest) = 1 + Len(rest)
        /\ (one \o rest)[1] = one[1]
        /\ \A i \in 1..Len(rest) : (one \o rest)[i + 1] = rest[i]
    BY <1>3, <2>1 DEF one
  <2>. QED  BY <2>1, <2>2 DEF one
<1>. HIDE DEF str
<1>5. Len(out) \in Nat /\ Len(q) \in Nat
  BY <1>1
<1>6. \A i \in 1..Len(out) : str[i + 1] = out[i]
  BY <1>3, <1>4, <1>5
<1>7. \A i \in 1..Len(q) : str[i + (Len(out) + 1)] = q[i]
  <2>. SUFFICES ASSUME NEW i \in 1..Len(q)  PROVE str[i + (Len(out) + 1)] = q[i]
    OBVIOUS
  <2>1. i + Len(out) \in 1..Len(rest) /\ (i + Len(out)) + 1 = i + (Len(out) + 1)
    BY <1>3, <1>5
  <2>. QED  BY <1>3, <1>4, <2>1
<1>8. ASSUME NEW m \in Frame
      PROVE  Stream(ses, PutNowait(sub, m), v) = Append(str, m)
  <2>1. PutNowait(sub, m).queue = Append(q, m)
    BY DEF PutNowait, Typed, Pipe, q
  <2>2. Stream(ses, PutNowait(sub, m), v) = <<a>> \o (out \o Append(q, m))
    BY <2>1 DEF Stream, a, out
  <2>3. m \in Item
    BY DEF Item
  <2>4. out \o Append(q, m) = Append(out \o q, m)
    BY <1>1, <2>3
  <2>5. <<a>> \o Append(rest, m) = Append(<<a>> \o rest, m)
    BY <1>1, <1>3, <2>3
  <2>. QED  BY <2>2, <2>4, <2>5 DEF rest, str
<1>9. LaidOut(str, a, out, q)
  BY <1>3, <1>4, <1>6, <1>7 DEF LaidOut
<1>. QED  BY <1>2, <1>8, <1>9 DEF a, out, q

(* What a scene offers a pipe either goes to the end of the stream or puts  *)
(* an end to what can be said of it.                                        *)
LEMMA Offered ==
  ASSUME NEW ses, NEW sub, NEW v, Typed(ses, sub, v),
         ~sub.closed => sub.queue \in Seq(Frame), NEW m \in Frame
  PROVE  /\ SendOrDrop(sub, m) \in Pipe(Frame)
         /\ SendOrDrop(sub, m).live = sub.live
         /\ SendOrDrop(sub, m).closed = sub.closed
         /\ ~sub.closed => SendOrDrop(sub, m).queue \in Seq(Frame)
         /\ Followed(ses, SendOrDrop(sub, m), v) =>
              /\ Followed(ses, sub, v)
              /\ sub.queue \in Seq(Frame)
              /\ Stream(ses, SendOrDrop(sub, m), v) = Append(Stream(ses, sub, v), m)
<1>. DEFINE sub2 == SendOrDrop(sub, m)
<1>1. sub \in Pipe(Frame)
  BY DEF Typed
<1>2. sub2 \in Pipe(Frame) /\ sub2.live = sub.live /\ sub2.closed = sub.closed
  BY <1>1, PipeOps, PipeFlags
<1>3. CASE IsFull(sub)
  <2>1. sub2.stale /\ sub2.queue = sub.queue
    BY <1>1, <1>3 DEF SendOrDrop, Pipe
  <2>. HIDE DEF sub2
  <2>2. ~Followed(ses, sub2, v)
    BY <2>1 DEF Followed
  <2>. QED  BY <1>2, <2>1, <2>2 DEF sub2
<1>4. CASE ~IsFull(sub)
  <2>1. sub2 = PutNowait(sub, m)
    BY <1>4 DEF SendOrDrop
  <2>2. sub2.queue = Append(sub.queue, m) /\ sub2.stale = sub.stale
    BY <1>1, <2>1 DEF PutNowait, Pipe
  <2>. HIDE DEF sub2
  <2>3. ~sub.closed => sub2.queue \in Seq(Frame)
    BY <2>2
  <2>4. Followed(ses, sub2, v) => Followed(ses, sub, v) /\ ~sub.closed
    BY <1>2, <2>2 DEF Followed
  <2>5. ~sub.closed => Stream(ses, sub2, v) = Append(Stream(ses, sub, v), m)
    BY <2>1, StreamFacts
  <2>. QED  BY <1>2, <2>3, <2>4, <2>5 DEF sub2
<1>. QED  BY <1>3, <1>4

LEMMA OfferedDelta ==
  ASSUME NEW ses, NEW sub, NEW v, Typed(ses, sub, v),
         ~sub.closed => sub.queue \in Seq(Frame), NEW delta \in Frame, NEW snap \in Frame
  PROVE  /\ ~sub.closed => SendDelta(sub, delta, snap).queue \in Seq(Frame)
         /\ Followed(ses, SendDelta(sub, delta, snap), v) =>
              SendDelta(sub, delta, snap) = SendOrDrop(sub, delta)
<1>1. CASE IsFull(sub)
  <2>1. SendDelta(sub, delta, snap) = SendOrDrop(sub, snap)
    BY <1>1 DEF SendDelta
  <2>2. SendOrDrop(sub, snap).stale
    BY <1>1 DEF SendOrDrop, Typed, Pipe
  <2>3. ~Followed(ses, SendOrDrop(sub, snap), v)
    BY <2>2 DEF Followed
  <2>4. ~sub.closed => SendOrDrop(sub, snap).queue \in Seq(Frame)
    BY Offered
  <2>. QED  BY <2>1, <2>3, <2>4
<1>2. CASE ~IsFull(sub)
  <2>1. SendDelta(sub, delta, snap) = SendOrDrop(sub, delta)
    BY <1>2 DEF SendDelta, SendOrDrop
  <2>2. ~sub.closed => SendOrDrop(sub, delta).queue \in Seq(Frame)
    BY Offered
  <2>. QED  BY <2>1, <2>2
<1>. QED  BY <1>1, <1>2

(* A snapshot can follow anything.                                          *)
LEMMA SnapshotAppends ==
  ASSUME NEW str \in Seq(Item), str # <<>>, NEW live \in BOOLEAN, Chain(str, live),
         NEW m \in Frame, m.type = "snapshot", m.seq >= 1
  PROVE  /\ Chain(Append(str, m), live)
         /\ Arrives(Append(str, m), live, m.scene, m.seq)
<1>1. m \in Item /\ m.seq \in Nat
  BY FrameFields DEF Item
<1>2. Link(str[Len(str)], m, live /\ Exact(str, Len(str)))
  BY <1>1 DEF Link
<1>3. Chain(Append(str, m), live)
  BY <1>1, <1>2, ChainAppend
<1>4. Arrives(Append(str, m), live, m.scene, m.seq)
  BY <1>1, ArrivesAppend
<1>. QED  BY <1>3, <1>4

(* A delta can follow the frames of its scene.                              *)
LEMMA DeltaFollows ==
  ASSUME NEW str \in Seq(Item), str # <<>>, NEW live \in BOOLEAN, Chain(str, live),
         NEW m \in Frame, m.type = "delta", NEW seq \in Nat,
         Arrives(str, live, m.scene, seq), m.seq = seq + 1
  PROVE  /\ Chain(Append(str, m), live)
         /\ Arrives(Append(str, m), live, m.scene, m.seq)
<1>1. m \in Item /\ m.seq \in Nat
  BY FrameFields DEF Item
<1>2. str[Len(str)] \in Item
  OBVIOUS
<1>3. str[Len(str)].seq \in Nat
  BY <1>2, ItemFields
<1>4. Link(str[Len(str)], m, live /\ Exact(str, Len(str)))
  BY <1>1, <1>3 DEF Link, Arrives
<1>5. Chain(Append(str, m), live)
  BY <1>1, <1>4, ChainAppend
<1>6. Arrives(Append(str, m), live, m.scene, m.seq)
  BY <1>1, ArrivesAppend
<1>. QED  BY <1>5, <1>6

(* The writer takes a frame from the queue: the stream is the same.         *)
LEMMA Taken ==
  ASSUME NEW ses, NEW sub, NEW v, Typed(ses, sub, v), sub.queue \in Seq(Frame),
         ses.out = <<>>, sub.queue # <<>>,
         NEW ses2, ses2.out = <<Head(sub.queue)>>, ses2.scene = ses.scene,
         NEW sub2, sub2.queue = Tail(sub.queue)
  PROVE  Stream(ses2, sub2, v) = Stream(ses, sub, v)
<1>. DEFINE q == sub.queue
<1>1. q \in Seq(Frame) /\ q # <<>>
  OBVIOUS
<1>2. <<Head(q)>> \o Tail(q) = <<>> \o q
  <2>. HIDE DEF q
  <2>. QED  BY <1>1
<1>3. Start(ses2, v) = Start(ses, v)
  BY DEF Start
<1>. QED  BY <1>2, <1>3 DEF Stream

Shifted(str, str2, start, f, start2) ==
  /\ f \in Frame
  /\ str \in Seq(Item) /\ str[1] = start /\ str[2] = f
  /\ str2 \in Seq(Item) /\ str2[1] = start2
  /\ Len(str2) = Len(str) - 1 /\ Len(str) >= 2
  /\ \A i \in 2..Len(str2) : str2[i] = str[i + 1]

LEMMA StreamShift ==
  ASSUME NEW ses, NEW sub, NEW v, Typed(ses, sub, v), sub.queue \in Seq(Frame),
         ses.out # <<>>,
         NEW ses2, NEW v2, Typed(ses2, sub, v2), ses2.out = Tail(ses.out)
  PROVE  Shifted(Stream(ses, sub, v), Stream(ses2, sub, v2),
                 Start(ses, v), Head(ses.out), Start(ses2, v2))
<1>. DEFINE str == Stream(ses, sub, v)
            str2 == Stream(ses2, sub, v2)
            out == ses.out
            out2 == ses2.out
            q == sub.queue
<1>1. out \in Seq(Frame) /\ out # <<>> /\ out2 = Tail(out) /\ q \in Seq(Frame)
  BY DEF Typed
<1>2. /\ str \in Seq(Item) /\ str[1] = Start(ses, v)
      /\ Len(str) = 1 + (Len(out) + Len(q))
      /\ \A i \in 1..Len(out) : str[i + 1] = out[i]
      /\ \A i \in 1..Len(q) : str[i + (Len(out) + 1)] = q[i]
  <2>1. LaidOut(Stream(ses, sub, v), Start(ses, v), ses.out, sub.queue)
    BY StreamFacts
  <2>. QED  BY <2>1 DEF LaidOut
<1>3. /\ str2 \in Seq(Item) /\ str2[1] = Start(ses2, v2)
      /\ Len(str2) = 1 + (Len(out2) + Len(q))
      /\ \A i \in 1..Len(out2) : str2[i + 1] = out2[i]
      /\ \A i \in 1..Len(q) : str2[i + (Len(out2) + 1)] = q[i]
  <2>1. LaidOut(Stream(ses2, sub, v2), Start(ses2, v2), ses2.out, sub.queue)
    BY StreamFacts
  <2>. QED  BY <2>1 DEF LaidOut
<1>. HIDE DEF str, str2, out, out2, q
<1>4. /\ out2 \in Seq(Frame) /\ Head(out) = out[1] /\ Head(out) \in Frame
      /\ Len(out) >= 1 /\ Len(out) \in Nat /\ Len(out2) = Len(out) - 1
      /\ \A i \in 1..Len(out2) : out2[i] = out[i + 1]
      /\ Len(q) \in Nat
  BY <1>1
<1>5. Len(str2) = Len(str) - 1 /\ Len(str) >= 2 /\ str[2] = Head(out)
  BY <1>2, <1>3, <1>4
<1>6. \A i \in 2..Len(str2) : str2[i] = str[i + 1]
  <2>. SUFFICES ASSUME NEW i \in 2..Len(str2)  PROVE str2[i] = str[i + 1]
    OBVIOUS
  <2>1. i \in Nat /\ i >= 2 /\ i <= Len(out2) + (Len(q) + 1)
    BY <1>3, <1>4
  <2>2. CASE i <= Len(out2) + 1
    <3>. DEFINE k == i - 1
    <3>1. k \in 1..Len(out2) /\ k + 1 \in 1..Len(out) /\ k + 1 = i
      BY <1>4, <2>1, <2>2
    <3>. HIDE DEF k
    <3>2. str2[k + 1] = out2[k] /\ str[(k + 1) + 1] = out[k + 1] /\ out2[k] = out[k + 1]
      BY <1>2, <1>3, <1>4, <3>1
    <3>. QED  BY <3>1, <3>2
  <2>3. CASE ~(i <= Len(out2) + 1)
    <3>. DEFINE k == i - (Len(out2) + 1)
    <3>1. /\ k \in 1..Len(q) /\ k + (Len(out2) + 1) = i /\ k + (Len(out) + 1) = i + 1
      BY <1>4, <2>1, <2>3
    <3>. HIDE DEF k
    <3>2. str2[k + (Len(out2) + 1)] = q[k] /\ str[k + (Len(out) + 1)] = q[k]
      BY <1>2, <1>3, <3>1
    <3>. QED  BY <3>1, <3>2
  <2>. QED  BY <2>2, <2>3
<1>7. Shifted(str, str2, Start(ses, v), Head(out), Start(ses2, v2))
  BY <1>2, <1>3, <1>4, <1>5, <1>6 DEF Shifted
<1>. QED  BY <1>7 DEF str, str2, out

(* What the start of a chain becomes when the first frame is seen: on a gap *)
(* the receiver is lost, and of a chain no replay can come.                 *)
Restarts(start, f, start2) ==
  /\ start2.type = "snapshot" <=> start.type = "snapshot" \/ f.type = "snapshot"
  /\ \/ f.type = "scene_changed"
     \/ start2.scene = f.scene /\ start2.seq = f.seq
  /\ start2.type # "scene_changed"

LEMMA StartAfter ==
  ASSUME NEW ses, NEW sub, NEW v, Typed(ses, sub, v), NEW f \in Frame, v.open,
         NEW v2, v2 = View(v, f), v2.open, NEW exact, Link(Start(ses, v), f, exact),
         NEW ses2, ses2.scene = ses.scene
  PROVE  Restarts(Start(ses, v), f, Start(ses2, v2))
<1>1. /\ f.type \in {"snapshot", "delta", "scene_changed"} /\ f.seq \in Nat /\ f.seq >= 1
      /\ v.cur \in Nat
  BY FrameFields DEF Link, Typed
<1>2. CASE f.type = "snapshot"
  <2>1. v2 = [v EXCEPT !.scene = f.scene, !.cur = f.seq, !.past = "none"]
    BY <1>1, <1>2 DEF View, ObserveSnapshot
  <2>2. v2.scene = f.scene /\ v2.cur = f.seq /\ v2.past = "none"
    BY <2>1 DEF Typed
  <2>3. Start(ses2, v2).type = "snapshot" /\ Start(ses2, v2).scene = f.scene
        /\ Start(ses2, v2).seq = f.seq
    BY <2>2 DEF Start
  <2>. QED  BY <1>2, <2>3 DEF Restarts
<1>3. CASE f.type # "snapshot" /\ ObserveServer(v.cur, f.seq) = "accept"
  <2>1. v2 = [v EXCEPT !.cur = f.seq]
    BY <1>3 DEF View
  <2>2. v2.scene = v.scene /\ v2.cur = f.seq /\ v2.past = v.past
    BY <2>1 DEF Typed
  <2>3. /\ Start(ses2, v2).type = Start(ses, v).type
        /\ Start(ses2, v2).scene = Start(ses, v).scene
        /\ Start(ses2, v2).seq = f.seq
        /\ Start(ses, v).type # "scene_changed"
    BY <2>2 DEF Start
  <2>4. f.type = "scene_changed" \/ f.scene = Start(ses, v).scene
    BY <1>1, <1>3 DEF Link
  <2>. QED  BY <1>3, <2>3, <2>4 DEF Restarts
<1>4. CASE f.type # "snapshot" /\ ObserveServer(v.cur, f.seq) = "gap"
  BY <1>4 DEF View, NoViewer
<1>5. CASE f.type # "snapshot" /\ ObserveServer(v.cur, f.seq) \notin {"accept", "gap"}
  <2>1. v2 = v
    BY <1>5 DEF View
  <2>2. f.seq <= v.cur
    BY <1>1, <1>5 DEF ObserveServer, Fresh
  <2>3. f.type = "scene_changed"
    BY <1>1, <1>5, <2>2 DEF Link, Start
  <2>4. Start(ses2, v2).type = Start(ses, v).type /\ Start(ses2, v2).type # "scene_changed"
    BY <2>1 DEF Start
  <2>. QED  BY <1>5, <2>3, <2>4 DEF Restarts
<1>. QED  BY <1>2, <1>3, <1>4, <1>5

(* One chain is still one, and ends where the other did.                    *)
Passes(str, str2, live) ==
  /\ Chain(str2, live)
  /\ \A o, seq : Arrives(str, live, o, seq) => Arrives(str2, live, o, seq)

LEMMA Received ==
  ASSUME NEW ses, NEW sub, NEW v, Typed(ses, sub, v), sub.queue \in Seq(Frame),
         ses.out # <<>>, v.open, Chain(Stream(ses, sub, v), sub.live),
         NEW ses2, NEW v2, Typed(ses2, sub, v2),
         ses2.out = Tail(ses.out), ses2.scene = ses.scene, v2 = View(v, Head(ses.out)), v2.open
  PROVE  Passes(Stream(ses, sub, v), Stream(ses2, sub, v2), sub.live)
<1>. DEFINE f == Head(ses.out)
            str == Stream(ses, sub, v)
            str2 == Stream(ses2, sub, v2)
<1>1. /\ f \in Frame
      /\ str \in Seq(Item) /\ str[1] = Start(ses, v) /\ str[2] = f
      /\ str2 \in Seq(Item) /\ str2[1] = Start(ses2, v2)
      /\ Len(str2) = Len(str) - 1 /\ Len(str) >= 2
      /\ \A i \in 2..Len(str2) : str2[i] = str[i + 1]
  <2>1. Shifted(Stream(ses, sub, v), Stream(ses2, sub, v2),
                Start(ses, v), Head(ses.out), Start(ses2, v2))
    BY StreamShift
  <2>. QED  BY <2>1 DEF Shifted
<1>2. Chain(str, sub.live) /\ sub.live \in BOOLEAN
  BY DEF Typed, Pipe
<1>. HIDE DEF str, str2, f
<1>3. Link(Start(ses, v), f, sub.live /\ Exact(str, 1))
  <2>1. 1 \in 1..Len(str) - 1 /\ 1 + 1 = 2
    BY <1>1
  <2>2. Link(str[1], str[1 + 1], sub.live /\ Exact(str, 1))
    BY <1>2, <2>1 DEF Chain
  <2>. QED  BY <1>1, <2>1, <2>2
<1>4. Restarts(Start(ses, v), f, Start(ses2, v2))
  BY <1>1, <1>3, StartAfter DEF f
<1>5. /\ str2[1].type = "snapshot" <=> str[1].type = "snapshot" \/ str[2].type = "snapshot"
      /\ \/ str[2].type = "scene_changed"
         \/ str2[1].scene = str[2].scene /\ str2[1].seq = str[2].seq
      /\ str2[1].type # "scene_changed"
  BY <1>1, <1>4 DEF Restarts
<1>6. /\ Chain(str2, sub.live)
      /\ \A o, seq : Arrives(str, sub.live, o, seq) => Arrives(str2, sub.live, o, seq)
  BY <1>1, <1>2, <1>5, ChainAdvance
<1>. QED  BY <1>6 DEF Passes, str, str2

------------------------------------------------------------------------------
(* What one step can do to the stream of one session.                       *)

FlowAt(ses, sub, v, o, seq) ==
  Followed(ses, sub, v) => /\ Chain(Stream(ses, sub, v), sub.live)
                           /\ Arrives(Stream(ses, sub, v), sub.live, o, seq)

LEMMA SnapshotKeepsFlow ==
  ASSUME NEW ses, NEW sub, NEW v, Typed(ses, sub, v), Tidy(ses, sub),
         Followed(ses, sub, v) => Chain(Stream(ses, sub, v), sub.live),
         NEW m \in Frame, m.type = "snapshot", m.seq >= 1,
         NEW sub2, sub2 = SendOrDrop(sub, m)
  PROVE  /\ Typed(ses, sub2, v) /\ Tidy(ses, sub2) /\ sub2.live = sub.live
         /\ FlowAt(ses, sub2, v, m.scene, m.seq)
<1>1. /\ sub2 \in Pipe(Frame) /\ sub2.live = sub.live /\ sub2.closed = sub.closed
      /\ ~sub.closed => sub2.queue \in Seq(Frame)
      /\ Followed(ses, sub2, v) =>
           /\ Followed(ses, sub, v)
           /\ sub.queue \in Seq(Frame)
           /\ Stream(ses, sub2, v) = Append(Stream(ses, sub, v), m)
  BY Offered DEF Tidy
<1>2. Typed(ses, sub2, v) /\ Tidy(ses, sub2)
  BY <1>1 DEF Typed, Tidy
<1>3. ASSUME Followed(ses, sub2, v)
      PROVE  /\ Chain(Stream(ses, sub2, v), sub2.live)
             /\ Arrives(Stream(ses, sub2, v), sub2.live, m.scene, m.seq)
  <2>. DEFINE str == Stream(ses, sub, v)
  <2>1. sub.queue \in Seq(Frame) /\ Chain(str, sub.live) /\ Stream(ses, sub2, v) = Append(str, m)
    BY <1>1, <1>3
  <2>2. LaidOut(str, Start(ses, v), ses.out, sub.queue)
    BY <2>1, StreamFacts
  <2>3. str \in Seq(Item) /\ str # <<>> /\ sub.live \in BOOLEAN
    BY <2>2 DEF LaidOut, Typed, Pipe
  <2>. HIDE DEF str
  <2>4. Chain(Append(str, m), sub.live) /\ Arrives(Append(str, m), sub.live, m.scene, m.seq)
    BY <2>1, <2>3, SnapshotAppends
  <2>. QED  BY <1>1, <2>1, <2>4
<1>. QED  BY <1>1, <1>2, <1>3 DEF FlowAt

LEMMA DeltaKeepsFlow ==
  ASSUME NEW ses, NEW sub, NEW v, Typed(ses, sub, v), Tidy(ses, sub),
         NEW m \in Frame, m.type = "delta", NEW snap \in Frame,
         NEW seq \in Nat, FlowAt(ses, sub, v, m.scene, seq), m.seq = seq + 1,
         NEW sub2, sub2 = SendDelta(sub, m, snap)
  PROVE  Tidy(ses, sub2) /\ FlowAt(ses, sub2, v, m.scene, m.seq)
<1>1. /\ ~sub.closed => sub2.queue \in Seq(Frame)
      /\ Followed(ses, sub2, v) => sub2 = SendOrDrop(sub, m)
  BY OfferedDelta DEF Tidy
<1>2. sub2.closed = sub.closed
  BY PipeFlags DEF Typed
<1>3. Tidy(ses, sub2)
  BY <1>1, <1>2 DEF Tidy
<1>4. ASSUME Followed(ses, sub2, v)
      PROVE  /\ Chain(Stream(ses, sub2, v), sub2.live)
             /\ Arrives(Stream(ses, sub2, v), sub2.live, m.scene, m.seq)
  <2>. DEFINE str == Stream(ses, sub, v)
  <2>1. sub2 = SendOrDrop(sub, m)
    BY <1>1, <1>4
  <2>2. /\ Followed(ses, sub, v) /\ sub.queue \in Seq(Frame) /\ sub2.live = sub.live
        /\ Stream(ses, sub2, v) = Append(str, m)
    BY <1>4, <2>1, Offered DEF Tidy
  <2>3. Chain(str, sub.live) /\ Arrives(str, sub.live, m.scene, seq)
    BY <2>2 DEF FlowAt
  <2>4. LaidOut(str, Start(ses, v), ses.out, sub.queue)
    BY <2>2, StreamFacts
  <2>5. str \in Seq(Item) /\ str # <<>> /\ sub.live \in BOOLEAN
    BY <2>4 DEF LaidOut, Typed, Pipe
  <2>. HIDE DEF str
  <2>6. Chain(Append(str, m), sub.live) /\ Arrives(Append(str, m), sub.live, m.scene, m.seq)
    BY <2>3, <2>5, DeltaFollows
  <2>. QED  BY <2>2, <2>6
<1>. QED  BY <1>3, <1>4 DEF FlowAt

(* A change of scene is followed by a snapshot in the same step.            *)
LEMMA ChangeKeepsFlow ==
  ASSUME NEW ses, NEW sub, NEW v, Typed(ses, sub, v), Tidy(ses, sub),
         NEW o, NEW seq, FlowAt(ses, sub, v, o, seq),
         NEW change \in Frame, change.type = "scene_changed", change.seq >= 1,
         NEW snap \in Frame, snap.type = "snapshot", snap.seq >= 1,
         NEW sub2, sub2 = SendOrDrop(SendOrDrop(sub, change), snap)
  PROVE  Tidy(ses, sub2) /\ FlowAt(ses, sub2, v, snap.scene, snap.seq)
<1>. DEFINE mid == SendOrDrop(sub, change)
<1>1. /\ mid \in Pipe(Frame) /\ mid.live = sub.live /\ mid.closed = sub.closed
      /\ ~sub.closed => mid.queue \in Seq(Frame)
      /\ Followed(ses, mid, v) =>
           /\ Followed(ses, sub, v)
           /\ sub.queue \in Seq(Frame)
           /\ Stream(ses, mid, v) = Append(Stream(ses, sub, v), change)
  BY Offered DEF Tidy
<1>2. sub2 = SendOrDrop(mid, snap)
  OBVIOUS
<1>. HIDE DEF mid
<1>3. Typed(ses, mid, v) /\ Tidy(ses, mid)
  BY <1>1 DEF Typed, Tidy
<1>4. ASSUME Followed(ses, mid, v)
      PROVE  Chain(Stream(ses, mid, v), mid.live)
  <2>. DEFINE str == Stream(ses, sub, v)
  <2>1. /\ sub.queue \in Seq(Frame) /\ Stream(ses, mid, v) = Append(str, change)
        /\ Chain(str, sub.live) /\ Arrives(str, sub.live, o, seq)
    BY <1>1, <1>4 DEF FlowAt
  <2>2. LaidOut(str, Start(ses, v), ses.out, sub.queue)
    BY <2>1, StreamFacts
  <2>3. str \in Seq(Item) /\ str # <<>> /\ sub.live \in BOOLEAN
    BY <2>2 DEF LaidOut, Typed, Pipe
  <2>. HIDE DEF str
  <2>4. change \in Item
    BY DEF Item
  <2>5. Link(str[Len(str)], change, sub.live /\ Exact(str, Len(str)))
    BY <2>1 DEF Link, Arrives
  <2>6. Chain(Append(str, change), sub.live)
    BY <2>1, <2>3, <2>4, <2>5, ChainAppend
  <2>. QED  BY <1>1, <2>1, <2>6
<1>. QED  BY <1>2, <1>3, <1>4, SnapshotKeepsFlow

------------------------------------------------------------------------------
(* From there to the variables.                                             *)

LEMMA TypedIn ==
  ASSUME NEW O, O \subseteq SceneIds, NEW ses \in Session(O), NEW sub \in Pipe(FramesOf(O)),
         NEW v \in Viewer(O)
  PROVE  Typed(ses, sub, v)
<1>1. FramesOf(O) \subseteq Frame
  BY DEF FramesOf
<1>2. sub \in Pipe(Frame) /\ Seq(FramesOf(O)) \subseteq Seq(Frame)
  BY <1>1, PipeMono
<1>. QED  BY <1>2 DEF Session, Viewer, Typed

LEMMA SessionTyped ==
  ASSUME TypeInv, NEW s \in Sessions
  PROVE  Typed(session[s], subs[s], viewer[s])
<1>1. /\ Objects \subseteq SceneIds /\ session[s] \in Session(Objects)
      /\ subs[s] \in Pipe(FramesOf(Objects)) /\ viewer[s] \in Viewer(Objects)
  BY DEF TypeInv
<1>. QED  BY <1>1, TypedIn

LEMMA FlowOf ==
  ASSUME NEW s \in Sessions, Flow(s), NEW o \in Attachments(s)
  PROVE  FlowAt(session[s], subs[s], viewer[s], o, scenes[o].seq)
BY DEF Flow, FlowAt

LEMMA FlowNext ==
  ASSUME NEW s \in Sessions, NEW o, Attachments(s)' \subseteq {o},
         FlowAt(session[s]', subs[s]', viewer[s]', o, scenes'[o].seq)
  PROVE  Flow(s)'
BY DEF Flow, FlowAt

LEMMA NoFlow ==
  ASSUME NEW s \in Sessions, ~Followed(session'[s], subs'[s], viewer'[s])
  PROVE  Flow(s)'
BY DEF Flow

(* Nothing happens to the session; a scene it is not on through the live    *)
(* mode may spend a number on others.                                       *)
LEMMA Untouched ==
  ASSUME TypeInv, StepInv, NEW s \in Sessions,
         session'[s] = session[s], subs'[s] = subs[s], viewer'[s] = viewer[s],
         Attachments(s)' \subseteq Attachments(s),
         \A o \in Attachments(s)' :
           /\ scenes'[o].seq \in Nat
           /\ \/ scenes'[o].seq = scenes[o].seq
              \/ ~subs[s].live /\ scenes'[o].seq >= scenes[o].seq
  PROVE  Tidy(session[s], subs[s])' /\ Flow(s)'
<1>1. Tidy(session[s], subs[s]) /\ Flow(s)
  BY DEF StepInv
<1>2. Tidy(session[s], subs[s])'
  BY <1>1
<1>3. Flow(s)'
  <2>. DEFINE str == Stream(session[s], subs[s], viewer[s])
  <2>. SUFFICES ASSUME Followed(session[s], subs[s], viewer[s])
                PROVE  /\ Chain(str, subs[s].live)
                       /\ \A o \in Attachments(s)' :
                            Arrives(str, subs[s].live, o, scenes'[o].seq)
    BY DEF Flow
  <2>1. Chain(str, subs[s].live)
    BY <1>1 DEF Flow
  <2>2. ASSUME NEW o \in Attachments(s)'
        PROVE  Arrives(str, subs[s].live, o, scenes'[o].seq)
    <3>1. o \in Attachments(s) /\ o \in Objects
      BY <2>2 DEF Attachments
    <3>2. Arrives(str, subs[s].live, o, scenes[o].seq)
      BY <1>1, <3>1 DEF Flow
    <3>3. scenes[o].seq \in Nat /\ scenes'[o].seq \in Nat
      BY <2>2, <3>1 DEF TypeInv, SceneFits, SceneRecord
    <3>4. str[Len(str)].seq \in Nat
      <4>1. Typed(session[s], subs[s], viewer[s]) /\ subs[s].queue \in Seq(Frame)
        BY <1>1, SessionTyped DEF Tidy, Followed
      <4>2. LaidOut(str, Start(session[s], viewer[s]), session[s].out, subs[s].queue)
        BY <4>1, StreamFacts
      <4>3. str \in Seq(Item) /\ str # <<>>
        BY <4>2, Zenon DEF LaidOut
      <4>. HIDE DEF str
      <4>4. str[Len(str)] \in Item
        BY <4>3
      <4>. QED  BY <4>4, ItemFields
    <3>. HIDE DEF str
    <3>. QED  BY <2>2, <3>2, <3>3, <3>4 DEF Arrives
  <2>. QED  BY <2>1, <2>2
<1>. QED  BY <1>2, <1>3

------------------------------------------------------------------------------
(* The application.                                                         *)

LEMMA Numbers ==
  ASSUME NEW o, NEW sc, SceneFits(sc, o)
  PROVE  /\ sc.seq \in Nat
         /\ \A patches : Bare(Seeded(sc, patches)).seq = sc.seq
         /\ Bare(Cleared(sc)).seq = sc.seq
         /\ \A s : Attached(sc, s).seq = sc.seq /\ Detached(sc, s).seq = sc.seq
         /\ \A prev, pipes : Joined(sc, prev, pipes).seq = sc.seq
         /\ \A pipes : Abandoned(sc, pipes).seq =
                         IF LiveSubs(sc, pipes) = {} THEN sc.seq ELSE sc.seq + 1
<1>. USE DEF SceneFits, SceneRecord
<1>1. \A patches : Bare(Seeded(sc, patches)).seq = sc.seq
  BY DEF Bare, Seeded
<1>2. Bare(Cleared(sc)).seq = sc.seq
  BY DEF Bare, Cleared
<1>3. \A s : Attached(sc, s).seq = sc.seq /\ Detached(sc, s).seq = sc.seq
  BY DEF Attached, Detached
<1>4. \A prev, pipes : Joined(sc, prev, pipes).seq = sc.seq
  BY DEF Joined
<1>5. ASSUME NEW pipes
      PROVE  Abandoned(sc, pipes).seq = IF LiveSubs(sc, pipes) = {} THEN sc.seq ELSE sc.seq + 1
  <2>. DEFINE live == LiveSubs(sc, pipes)
              kept == sc.subs \ live
  <2>. HIDE DEF live
  <2>1. [sc EXCEPT !.subs = kept, !.seq = sc.seq + 1].seq = sc.seq + 1
    OBVIOUS
  <2>. QED  BY <2>1 DEF Abandoned, NextServer, live
<1>. QED  BY <1>1, <1>2, <1>3, <1>4, <1>5

LEMMA SnapshotFrame ==
  ASSUME NEW o \in SceneIds, NEW sc, SceneFits(sc, o)
  PROVE  /\ SnapshotOf(sc) \in Frame /\ SnapshotOf(sc).type = "snapshot"
         /\ SnapshotOf(sc).scene = o /\ SnapshotOf(sc).seq = sc.seq
<1>1. SnapshotOf(sc) \in Snapshot
  BY SnapshotType DEF SceneFits
<1>. QED  BY <1>1 DEF Frame, SnapshotOf, SceneFits

(* A session is fed by one scene.                                           *)
LEMMA OneFeeder ==
  ASSUME OwnerInv, NEW s \in Sessions, NEW o \in Attachments(s)
  PROVE  Attachments(s) = {o}
BY DEF OwnerInv

LEMMA SetStep ==
  ASSUME ServerInv, StepInv, NEW o \in Objects, NEW patches \in Patches, Set(o, patches)
  PROVE  StepInv'
<1>. DEFINE sc == Bare(Seeded(scenes[o], patches))
            snap == SnapshotOf(sc)
<1>1. TypeInv /\ OwnerInv /\ o \in SceneIds /\ SceneFits(scenes[o], o) /\ scenes[o].seq >= 1
  BY DEF ServerInv, TypeInv, StepInv
<1>2. /\ SceneFits(sc, o) /\ sc.subs = scenes[o].subs /\ sc.seq = scenes[o].seq
      /\ scenes[o].seq \in Nat
  BY <1>1, SeededFits, Numbers
<1>3. scenes' = [scenes EXCEPT ![o] = sc] /\ UNCHANGED <<session, viewer>>
  BY DEF Set
<1>4. snap \in Frame /\ snap.type = "snapshot" /\ snap.scene = o /\ snap.seq = sc.seq
  <2>. HIDE DEF sc
  <2>. QED  BY <1>1, <1>2, SnapshotFrame
<1>. HIDE DEF sc
<1>5. /\ Objects' = Objects /\ scenes'[o] = sc
      /\ \A x \in Objects : x # o => scenes'[x] = scenes[x]
  BY <1>1, <1>2, <1>3, OneScene
<1>6. subs' = [s \in Sessions |-> IF s \in sc.subs THEN SendOrDrop(subs[s], snap) ELSE subs[s]]
  BY <1>1, <1>5 DEF Set, RefreshAll, TypeInv
<1>. HIDE DEF snap
<1>7. \A x \in Objects' : scenes'[x].seq = scenes[x].seq /\ scenes'[x].subs = scenes[x].subs
  BY <1>2, <1>5
<1>8. \A s : Attachments(s)' = Attachments(s)
  BY <1>5, <1>7 DEF Attachments
<1>9. ASSUME NEW s \in Sessions  PROVE Tidy(session[s], subs[s])' /\ Flow(s)'
  <2>1. Tidy(session[s], subs[s]) /\ Flow(s) /\ Typed(session[s], subs[s], viewer[s])
    BY <1>1, SessionTyped DEF StepInv
  <2>2. CASE s \in sc.subs
    <3>1. o \in Attachments(s) /\ Attachments(s) = {o}
      BY <1>1, <1>2, <2>2, OneFeeder DEF Attachments
    <3>2. subs'[s] = SendOrDrop(subs[s], snap) /\ session'[s] = session[s] /\ viewer'[s] = viewer[s]
      BY <1>3, <1>6, <2>2
    <3>3. Followed(session[s], subs[s], viewer[s]) =>
            Chain(Stream(session[s], subs[s], viewer[s]), subs[s].live)
      BY <2>1 DEF Flow
    <3>4. Tidy(session[s], subs'[s]) /\ FlowAt(session[s], subs'[s], viewer[s], snap.scene, snap.seq)
      BY <1>1, <1>2, <1>4, <2>1, <3>2, <3>3, SnapshotKeepsFlow
    <3>5. Attachments(s)' \subseteq {o}
      BY <1>8, <3>1
    <3>6. FlowAt(session'[s], subs'[s], viewer'[s], o, scenes'[o].seq)
      BY <1>4, <1>5, <3>2, <3>4
    <3>7. Tidy(session'[s], subs'[s])
      BY <3>2, <3>4
    <3>8. Flow(s)'
      BY <3>5, <3>6, FlowNext
    <3>. QED  BY <3>7, <3>8
  <2>3. CASE s \notin sc.subs
    <3>1. subs'[s] = subs[s] /\ session'[s] = session[s] /\ viewer'[s] = viewer[s]
      BY <1>3, <1>6, <2>3
    <3>2. \A x \in Attachments(s)' : scenes'[x].seq \in Nat /\ scenes'[x].seq = scenes[x].seq
      <4>1. \A x \in Objects : scenes[x].seq \in Nat
        BY <1>1, Numbers DEF TypeInv
      <4>. QED  BY <1>5, <1>7, <4>1 DEF Attachments
    <3>. QED  BY <1>1, <1>8, <3>1, <3>2, Untouched
  <2>. QED  BY <2>2, <2>3
<1>10. \A x \in Objects' : scenes'[x].seq >= 1
  BY <1>5, <1>7 DEF StepInv
<1>. QED  BY <1>9, <1>10 DEF StepInv

(* The record an emission leaves is the last of the replay buffer.          *)
LEMMA EmittedRecord ==
  ASSUME NEW o, NEW sc, SceneFits(sc, o), NEW patches \in Patches
  PROVE  LET sc2 == Bare(Emitted(sc, patches))
         IN  /\ sc2.replay[Len(sc2.replay)] \in Record
             /\ sc2.replay[Len(sc2.replay)].seq = sc2.seq
<1>. DEFINE sc2 == Bare(Emitted(sc, patches))
            record == [seq |-> sc.seq + 1, patches |-> patches, at |-> Len(sc.log) + 1]
<1>1. sc.seq \in Nat /\ sc.replay \in Seq(Record) /\ record \in Record
  BY DEF SceneFits, SceneRecord, Record
<1>2. sc2.seq = sc.seq + 1 /\ sc2.replay = Push(sc.replay, record)
  BY DEF Emitted, Bare, NextServer, SceneFits, SceneRecord
<1>3. record.seq = sc.seq + 1
  OBVIOUS
<1>. HIDE DEF sc2, record
<1>4. sc2.replay[Len(sc2.replay)] = record
  BY <1>1, <1>2, PushFacts
<1>5. sc2.replay[Len(sc2.replay)] \in Record /\ sc2.replay[Len(sc2.replay)].seq = sc2.seq
  BY <1>1, <1>2, <1>3, <1>4
<1>. QED  BY <1>5 DEF sc2

(* An emission, of the application or of an input; the session whose input  *)
(* it is may end on it.                                                     *)
LEMMA PublishStep ==
  ASSUME ServerInv, StepInv, NEW o \in Objects, NEW patches \in Patches, Publish(o, patches),
         UNCHANGED viewer,
         \A s \in Sessions :
           \/ session'[s] = session[s]
           \/ session'[s].status \notin Sending /\ session'[s].out = <<>>
  PROVE  StepInv'
<1>. DEFINE sc == Bare(Emitted(scenes[o], patches))
            record == sc.replay[Len(sc.replay)]
            delta == DeltaOf(sc, record)
            snap == SnapshotOf(sc)
<1>1. TypeInv /\ OwnerInv /\ o \in SceneIds /\ SceneFits(scenes[o], o) /\ scenes[o].seq >= 1
  BY DEF ServerInv, TypeInv, StepInv
<1>2. /\ SceneFits(sc, o) /\ sc.subs = scenes[o].subs /\ sc.seq = scenes[o].seq + 1
      /\ sc.replay # <<>> /\ scenes[o].seq \in Nat
  BY <1>1, EmittedFits, Numbers
<1>3. record \in Record /\ record.seq = sc.seq
  BY <1>1, EmittedRecord
<1>4. scenes' = [scenes EXCEPT ![o] = sc]
  BY DEF Publish
<1>. HIDE DEF sc
<1>5. snap \in Frame
  BY <1>1, <1>2, SnapshotFrame
<1>6. delta \in Frame /\ delta.type = "delta" /\ delta.scene = o /\ delta.seq = sc.seq
  <2>1. delta \in Delta
    BY <1>2, <1>3, DeltaType DEF SceneFits
  <2>. QED  BY <1>2, <1>3, <2>1 DEF Frame, DeltaOf, SceneFits
<1>7. /\ Objects' = Objects /\ scenes'[o] = sc
      /\ \A x \in Objects : x # o => scenes'[x] = scenes[x]
  BY <1>1, <1>2, <1>4, OneScene
<1>8. subs' = [s \in Sessions |-> IF s \in sc.subs THEN SendDelta(subs[s], delta, snap) ELSE subs[s]]
  BY <1>1, <1>7 DEF Publish, FanOut, TypeInv
<1>. HIDE DEF record, delta, snap
<1>9. \A s : Attachments(s)' = Attachments(s)
  BY <1>2, <1>7 DEF Attachments
<1>10. \A x \in Objects : scenes[x].seq \in Nat
  BY <1>1, Numbers DEF TypeInv
<1>11. ASSUME NEW s \in Sessions  PROVE Tidy(session[s], subs'[s])
  <2>1. Tidy(session[s], subs[s]) /\ Typed(session[s], subs[s], viewer[s])
    BY <1>1, SessionTyped DEF StepInv
  <2>2. ~subs[s].closed => SendDelta(subs[s], delta, snap).queue \in Seq(Frame)
    BY <1>5, <1>6, <2>1, OfferedDelta DEF Tidy
  <2>3. SendDelta(subs[s], delta, snap).closed = subs[s].closed
    BY <2>1, PipeFlags DEF Typed
  <2>. QED  BY <1>8, <2>1, <2>2, <2>3 DEF Tidy
<1>12. ASSUME NEW s \in Sessions  PROVE Tidy(session[s], subs[s])' /\ Flow(s)'
  <2>1. Tidy(session[s], subs[s]) /\ Flow(s) /\ Typed(session[s], subs[s], viewer[s])
    BY <1>1, SessionTyped DEF StepInv
  <2>2. CASE session'[s] # session[s]
    <3>1. session'[s].status \notin Sending /\ session'[s].out = <<>>
      BY <2>2
    <3>2. Tidy(session'[s], subs'[s])
      BY <1>11, <3>1 DEF Tidy
    <3>3. ~Followed(session'[s], subs'[s], viewer'[s])
      BY <3>1 DEF Followed
    <3>. QED  BY <3>2, <3>3, NoFlow
  <2>3. CASE session'[s] = session[s] /\ s \in sc.subs
    <3>1. o \in Attachments(s) /\ Attachments(s) = {o}
      BY <1>1, <1>2, <2>3, OneFeeder DEF Attachments
    <3>2. subs'[s] = SendDelta(subs[s], delta, snap) /\ viewer'[s] = viewer[s]
      BY <1>8, <2>3
    <3>3. FlowAt(session[s], subs[s], viewer[s], delta.scene, scenes[o].seq)
      BY <1>6, <2>1, <3>1, FlowOf
    <3>4. Tidy(session[s], subs'[s]) /\ FlowAt(session[s], subs'[s], viewer[s], delta.scene, delta.seq)
      BY <1>2, <1>5, <1>6, <2>1, <3>2, <3>3, DeltaKeepsFlow
    <3>5. Attachments(s)' \subseteq {o}
      BY <1>9, <3>1
    <3>6. FlowAt(session'[s], subs'[s], viewer'[s], o, scenes'[o].seq)
      BY <1>6, <1>7, <2>3, <3>2, <3>4
    <3>7. Flow(s)'
      BY <3>5, <3>6, FlowNext
    <3>. QED  BY <2>3, <3>4, <3>7
  <2>4. CASE session'[s] = session[s] /\ s \notin sc.subs
    <3>1. subs'[s] = subs[s] /\ viewer'[s] = viewer[s]
      BY <1>8, <2>4
    <3>2. \A x \in Attachments(s)' : scenes'[x].seq \in Nat /\ scenes'[x].seq = scenes[x].seq
      BY <1>2, <1>7, <1>9, <1>10, <2>4 DEF Attachments
    <3>. QED  BY <1>1, <1>9, <2>4, <3>1, <3>2, Untouched
  <2>. QED  BY <2>2, <2>3, <2>4
<1>13. \A x \in Objects' : scenes'[x].seq >= 1
  BY <1>1, <1>2, <1>7 DEF StepInv
<1>. QED  BY <1>12, <1>13 DEF StepInv

------------------------------------------------------------------------------
(* The registry.                                                            *)

LEMMA RegisterStep ==
  ASSUME ServerInv, StepInv, NEW n \in Names, Register(n)
  PROVE  StepInv'
<1>1. TypeInv
  BY DEF ServerInv
<1>. PICK o \in SceneIds \ Objects :
       scenes' = [x \in Objects \cup {o} |-> IF x = o THEN Bare(NewScene(o)) ELSE scenes[x]]
  BY DEF Register
<1>2. UNCHANGED <<subs, session, viewer>>
  BY DEF Register
<1>3. Bare(NewScene(o)).seq = 1 /\ Bare(NewScene(o)).subs = {}
  BY DEF Bare, NewScene, NextServer, Fresh
<1>4. /\ Objects' = Objects \cup {o}
      /\ scenes'[o].seq = 1 /\ scenes'[o].subs = {}
      /\ \A x \in Objects : scenes'[x] = scenes[x]
  BY <1>3 DEF Objects
<1>5. \A s : Attachments(s)' = Attachments(s)
  BY <1>4 DEF Attachments
<1>6. \A x \in Objects : scenes[x].seq \in Nat
  BY <1>1, Numbers DEF TypeInv
<1>7. ASSUME NEW s \in Sessions  PROVE Tidy(session[s], subs[s])' /\ Flow(s)'
  <2>1. \A x \in Attachments(s)' : scenes'[x].seq \in Nat /\ scenes'[x].seq = scenes[x].seq
    BY <1>4, <1>5, <1>6 DEF Attachments
  <2>. QED  BY <1>1, <1>2, <1>5, <2>1, Untouched
<1>8. \A x \in Objects' : scenes'[x].seq >= 1
  BY <1>4 DEF StepInv
<1>. QED  BY <1>7, <1>8 DEF StepInv

(* Sessions whose pipe is closed say nothing more; the others are not       *)
(* concerned.                                                               *)
LEMMA ResetStep ==
  ASSUME ServerInv, StepInv, UNCHANGED <<session, viewer>>,
         Objects' = Objects,
         \A x \in Objects : scenes'[x].seq = scenes[x].seq,
         \A s \in Sessions : /\ Attachments(s)' \subseteq Attachments(s)
                             /\ subs'[s] = subs[s] \/ subs'[s].closed
  PROVE  StepInv'
<1>1. TypeInv /\ \A x \in Objects : scenes[x].seq \in Nat
  BY Numbers DEF ServerInv, TypeInv
<1>2. ASSUME NEW s \in Sessions  PROVE Tidy(session[s], subs[s])' /\ Flow(s)'
  <2>1. CASE subs'[s] = subs[s]
    <3>1. \A x \in Attachments(s)' : scenes'[x].seq \in Nat /\ scenes'[x].seq = scenes[x].seq
      BY <1>1 DEF Attachments
    <3>. QED  BY <1>1, <2>1, <3>1, Untouched
  <2>2. CASE subs'[s].closed
    <3>1. Tidy(session'[s], subs'[s])
      BY <2>2 DEF StepInv, Tidy
    <3>2. ~Followed(session'[s], subs'[s], viewer'[s])
      BY <2>2 DEF Followed
    <3>. QED  BY <3>1, <3>2, NoFlow
  <2>. QED  BY <2>1, <2>2
<1>3. \A x \in Objects' : scenes'[x].seq >= 1
  BY DEF StepInv
<1>. QED  BY <1>2, <1>3 DEF StepInv

LEMMA RunResetStep ==
  ASSUME ServerInv, StepInv, NEW o \in Objects, RunReset(o)
  PROVE  StepInv'
<1>. DEFINE sc == Bare(Cleared(scenes[o]))
<1>1. TypeInv /\ SceneFits(scenes[o], o)
  BY DEF ServerInv, TypeInv
<1>2. SceneFits(sc, o) /\ sc.subs = {} /\ sc.seq = scenes[o].seq
  BY <1>1, ClearedFits, Numbers
<1>3. /\ scenes' = [scenes EXCEPT ![o] = sc]
      /\ subs' = CloseAll(scenes[o], subs)
      /\ UNCHANGED <<session, viewer>>
  BY DEF RunReset
<1>. HIDE DEF sc
<1>4. /\ Objects' = Objects /\ scenes'[o] = sc
      /\ \A x \in Objects : x # o => scenes'[x] = scenes[x]
  BY <1>1, <1>2, <1>3, OneScene
<1>5. \A s \in Sessions : Attachments(s)' \subseteq Attachments(s)
  BY <1>2, <1>4 DEF Attachments
<1>6. \A s \in Sessions : subs'[s] = subs[s] \/ subs'[s].closed
  BY <1>1, <1>3, ClosePipe DEF CloseAll, TypeInv
<1>7. \A x \in Objects : scenes'[x].seq = scenes[x].seq
  BY <1>2, <1>4
<1>. QED  BY <1>3, <1>4, <1>5, <1>6, <1>7, ResetStep

LEMMA ResetAllStep ==
  ASSUME ServerInv, StepInv, ResetAll
  PROVE  StepInv'
<1>1. TypeInv
  BY DEF ServerInv
<1>2. /\ scenes' = [o \in Objects |-> IF o \in Registered THEN Bare(Cleared(scenes[o]))
                                                          ELSE scenes[o]]
      /\ subs' = [s \in Sessions |->
                    IF \E o \in Registered : s \in scenes[o].subs THEN Close(subs[s])
                                                                  ELSE subs[s]]
      /\ UNCHANGED <<session, viewer>>
  BY DEF ResetAll
<1>3. \A o \in Objects : /\ Bare(Cleared(scenes[o])).subs = {}
                         /\ Bare(Cleared(scenes[o])).seq = scenes[o].seq
  BY <1>1, ClearedFits, Numbers DEF TypeInv
<1>4. /\ Objects' = Objects
      /\ \A o \in Objects : scenes'[o].seq = scenes[o].seq /\ scenes'[o].subs \subseteq scenes[o].subs
  BY <1>2, <1>3 DEF Objects
<1>5. \A s \in Sessions : Attachments(s)' \subseteq Attachments(s)
  BY <1>4 DEF Attachments
<1>6. \A s \in Sessions : subs'[s] = subs[s] \/ subs'[s].closed
  BY <1>1, <1>2, ClosePipe DEF TypeInv
<1>. QED  BY <1>2, <1>4, <1>5, <1>6, ResetStep

(* Every live subscriber goes with the activity: its stream ends in the     *)
(* change and a snapshot of the new scene.                                  *)
LEMMA SetActiveStep ==
  ASSUME ServerInv, StepInv, NEW n \in Names, SetActive(n)
  PROVE  StepInv'
<1>1. TypeInv /\ OwnerInv /\ UNCHANGED <<session, viewer>>
  BY DEF ServerInv, SetActive
<1>2. \A x \in Objects : scenes[x].seq \in Nat /\ SceneFits(scenes[x], x) /\ x \in SceneIds
  BY <1>1, Numbers DEF TypeInv
<1>3. CASE ActiveScene = NoScene
  <2>1. UNCHANGED <<scenes, subs>>
    BY <1>3 DEF SetActive
  <2>2. Objects' = Objects /\ \A s : Attachments(s)' = Attachments(s)
    BY <2>1 DEF Objects, Attachments
  <2>3. /\ \A x \in Objects : scenes'[x].seq = scenes[x].seq
        /\ \A s \in Sessions : Attachments(s)' \subseteq Attachments(s) /\ subs'[s] = subs[s]
    BY <2>1, <2>2
  <2>. QED  BY <1>1, <2>2, <2>3, ResetStep
<1>4. CASE ActiveScene # NoScene
  <2>. DEFINE prev == ActiveScene
              next == registry[n]
              live == LiveSubs(scenes[prev], subs)
              change == SceneChangedOf(scenes[next], scenes[prev])
              snap == SnapshotOf(scenes[next])
  <2>1. /\ prev \in Objects /\ next \in Objects /\ prev # next
        /\ Objects' = Objects
        /\ scenes'[prev].subs = scenes[prev].subs \ live
        /\ scenes'[next].subs = scenes[next].subs \cup live
        /\ \A x \in Objects \ {prev, next} : scenes'[x] = scenes[x]
    BY <1>4, MigrationFacts
  <2>2. /\ scenes' = [scenes EXCEPT ![prev] = Abandoned(@, subs),
                                    ![next] = Joined(@, scenes[prev], subs)]
        /\ subs' = Migrated(scenes[next], scenes[prev], subs)
    BY <1>4 DEF SetActive
  <2>3. \A s : s \in live <=> prev \in Attachments(s) /\ subs[s].live
    BY <2>1 DEF LiveSubs, Attachments
  <2>. HIDE DEF prev, next
  <2>4. /\ scenes'[prev] = Abandoned(scenes[prev], subs)
        /\ scenes'[next] = Joined(scenes[next], scenes[prev], subs)
    BY <2>1, <2>2 DEF Objects
  <2>5. /\ scenes'[prev].seq = IF live = {} THEN scenes[prev].seq ELSE scenes[prev].seq + 1
        /\ scenes'[next].seq = scenes[next].seq
    <3>1. SceneFits(scenes[prev], prev) /\ SceneFits(scenes[next], next)
      BY <1>2, <2>1
    <3>. QED  BY <2>4, <3>1, Numbers
  <2>6. subs' = [s \in Sessions |-> IF s \in live
                                      THEN SendOrDrop(SendOrDrop(subs[s], change), snap)
                                      ELSE subs[s]]
    BY <1>1, <2>2 DEF Migrated, TypeInv
  <2>7. scenes[prev].seq >= 1 /\ scenes[next].seq >= 1
    BY <2>1 DEF StepInv
  <2>8. /\ change \in Frame /\ change.type = "scene_changed" /\ change.seq >= 1
        /\ snap \in Frame /\ snap.type = "snapshot" /\ snap.scene = next
        /\ snap.seq = scenes[next].seq
    <3>1. snap \in Frame /\ snap.type = "snapshot" /\ snap.scene = next /\ snap.seq = scenes[next].seq
      BY <1>2, <2>1, SnapshotFrame
    <3>2. change = [type |-> "scene_changed", scene |-> next, seq |-> scenes[prev].seq + 1]
      BY <1>2, <2>1 DEF SceneChangedOf, NextServer, SceneFits
    <3>3. change \in SceneChanged
      BY <1>2, <2>1, <3>2 DEF SceneChanged
    <3>4. change.type = "scene_changed" /\ change.seq >= 1
      BY <1>2, <2>1, <3>2
    <3>. HIDE DEF change, snap
    <3>. QED  BY <3>1, <3>3, <3>4 DEF Frame
  <2>. HIDE DEF live, change, snap
  <2>9. \A s : Attachments(s)' = IF s \in live THEN (Attachments(s) \ {prev}) \cup {next}
                                              ELSE Attachments(s)
    BY <2>1, <2>3 DEF Attachments
  <2>10. ASSUME NEW s \in Sessions  PROVE Tidy(session[s], subs[s])' /\ Flow(s)'
    <3>1. Tidy(session[s], subs[s]) /\ Flow(s) /\ Typed(session[s], subs[s], viewer[s])
      BY <1>1, SessionTyped DEF StepInv
    <3>2. CASE s \in live
      <4>1. prev \in Attachments(s) /\ Attachments(s) = {prev}
        BY <1>1, <2>3, <3>2, OneFeeder
      <4>2. /\ subs'[s] = SendOrDrop(SendOrDrop(subs[s], change), snap)
            /\ session'[s] = session[s] /\ viewer'[s] = viewer[s]
        BY <1>1, <2>6, <3>2
      <4>3. FlowAt(session[s], subs[s], viewer[s], prev, scenes[prev].seq)
        BY <3>1, <4>1, FlowOf
      <4>4. /\ Tidy(session[s], subs'[s])
            /\ FlowAt(session[s], subs'[s], viewer[s], snap.scene, snap.seq)
        <5>1. snap.seq >= 1
          BY <2>7, <2>8
        <5>. QED  BY <2>8, <3>1, <4>2, <4>3, <5>1, ChangeKeepsFlow
      <4>5. Attachments(s)' \subseteq {next}
        BY <2>9, <3>2, <4>1
      <4>6. FlowAt(session'[s], subs'[s], viewer'[s], next, scenes'[next].seq)
        BY <2>5, <2>8, <4>2, <4>4
      <4>7. Tidy(session'[s], subs'[s])
        BY <4>2, <4>4
      <4>8. Flow(s)'
        BY <4>5, <4>6, FlowNext
      <4>. QED  BY <4>7, <4>8
    <3>3. CASE s \notin live
      <4>1. /\ subs'[s] = subs[s] /\ session'[s] = session[s] /\ viewer'[s] = viewer[s]
            /\ Attachments(s)' \subseteq Attachments(s)
        BY <1>1, <2>6, <2>9, <3>3
      <4>2. ASSUME NEW x \in Attachments(s)'
            PROVE  /\ scenes'[x].seq \in Nat
                   /\ \/ scenes'[x].seq = scenes[x].seq
                      \/ ~subs[s].live /\ scenes'[x].seq >= scenes[x].seq
        <5>1. x \in Attachments(s) /\ x \in Objects /\ scenes[x].seq \in Nat
          BY <1>2, <4>1 DEF Attachments
        <5>2. CASE x = prev
          BY <2>3, <2>5, <3>3, <5>1, <5>2
        <5>3. CASE x # prev
          <6>1. scenes'[x].seq = scenes[x].seq
            BY <2>1, <2>5, <5>1, <5>3
          <6>. QED  BY <5>1, <6>1
        <5>. QED  BY <5>2, <5>3
      <4>. QED  BY <1>1, <4>1, <4>2, Untouched
    <3>. QED  BY <3>2, <3>3
  <2>11. \A x \in Objects' : scenes'[x].seq >= 1
    <3>. SUFFICES ASSUME NEW x \in Objects  PROVE scenes'[x].seq >= 1
      BY <2>1
    <3>1. scenes[x].seq >= 1 /\ scenes[x].seq \in Nat
      BY <1>2 DEF StepInv
    <3>2. scenes'[x].seq = scenes[x].seq \/ scenes'[x].seq = scenes[x].seq + 1
      BY <2>1, <2>5
    <3>. QED  BY <3>1, <3>2
  <2>. QED  BY <2>10, <2>11 DEF StepInv
<1>. QED  BY <1>3, <1>4

------------------------------------------------------------------------------
(* A session.                                                               *)

(* A resumed subscription begins with the deltas that were missed, up to    *)
(* where the scene is; any other begins with a snapshot of it.              *)
LEMMA InitialFlow ==
  ASSUME NEW o \in SceneIds, NEW sc, SceneFits(sc, o), sc.seq >= 1, NEW since \in Nat,
         NEW ses, NEW sub, NEW v, Typed(ses, sub, v), sub.queue = <<>>,
         ses.out = InitialFrames(sc, since), ses.scene = o, v.cur = since,
         ~Resumes(sc, since) => v.past = "none",
         Resumes(sc, since) => v.past = "other" \/ (v.past = "same" /\ v.scene = o)
  PROVE  FlowAt(ses, sub, v, o, sc.seq)
<1>. DEFINE str == Stream(ses, sub, v)
            start == Start(ses, v)
<1>1. sub.live \in BOOLEAN /\ sc.seq \in Nat /\ sub.queue \in Seq(Frame)
  BY DEF Typed, Pipe, SceneFits, SceneRecord
<1>2. LaidOut(str, start, ses.out, sub.queue)
  BY <1>1, StreamFacts
<1>3. CASE ~Resumes(sc, since)
  <2>. DEFINE snap == SnapshotOf(sc)
              one == <<start>>
  <2>1. snap \in Frame /\ snap.type = "snapshot" /\ snap.scene = o /\ snap.seq = sc.seq
    BY SnapshotFrame
  <2>2. ses.out = <<snap>>
    BY <1>3 DEF InitialFrames
  <2>3. start \in Item
    BY DEF Start, Typed, Item, Place
  <2>. HIDE DEF snap, start
  <2>4. str = <<start>> \o (<<snap>> \o <<>>)
    BY <2>2 DEF Stream, start
  <2>5. snap \in Item /\ <<snap>> \o <<>> = <<snap>>
    BY <2>1 DEF Item
  <2>6. one \in Seq(Item) /\ one # <<>> /\ Len(one) = 1 /\ str = Append(one, snap)
    BY <2>3, <2>4, <2>5
  <2>7. Chain(one, sub.live)
    BY <2>6 DEF Chain
  <2>. HIDE DEF one, str
  <2>8. Chain(Append(one, snap), sub.live) /\ Arrives(Append(one, snap), sub.live, snap.scene, snap.seq)
    BY <1>1, <2>1, <2>6, <2>7, SnapshotAppends
  <2>. QED  BY <2>1, <2>6, <2>8 DEF FlowAt, str
<1>4. CASE Resumes(sc, since)
  <2>. DEFINE buffer == sc.replay
              records == RecordsAfter(buffer, since)
              skipped == Skipped(buffer, since)
              out == ses.out
  <2>1. buffer \in Seq(Record) /\ Increasing(buffer, sc.seq)
    BY DEF SceneFits, SceneRecord
  <2>2. /\ skipped \in 0..Len(buffer)
        /\ \A i \in 1..Len(buffer) : (buffer[i].seq > since) <=> (i > skipped)
        /\ records \in Seq(Record)
        /\ Len(records) = Len(buffer) - skipped
        /\ \A i \in 1..Len(records) : records[i] = buffer[i + skipped]
    BY <1>1, <2>1, RecordsAfterIncreasing
  <2>3. 0 < since /\ since <= sc.seq
    BY <1>4 DEF Resumes
  <2>4. start.type = "delta" /\ start.scene = o /\ start.seq = since
    BY <1>4 DEF Start
  <2>5. out = [i \in 1..Len(records) |-> DeltaOf(sc, records[i])]
    BY <1>4 DEF InitialFrames
  <2>. HIDE DEF records, skipped, start, buffer
  <2>6. Len(buffer) \in Nat /\ Len(records) \in Nat
    BY <2>1, <2>2
  <2>7. \A i \in 1..Len(buffer) : buffer[i].seq \in Nat
    BY <2>1, RecordSeqs
  <2>8. \A i \in 1..Len(records) : /\ out[i].type = "delta" /\ out[i].scene = o
                                   /\ out[i].seq = buffer[i + skipped].seq
    BY <2>2, <2>5 DEF DeltaOf, SceneFits
  <2>9. Len(out) = Len(records)
    BY <2>5, <2>6
  <2>. HIDE DEF out, str
  <2>10. /\ Len(str) = Len(records) + 1 /\ str[1] = start
         /\ \A i \in 1..Len(records) : str[i + 1] = out[i]
    BY <1>2, <2>6, <2>9 DEF LaidOut, out
  <2>11. /\ \A i \in 1..Len(records) : /\ i + skipped \in 1..Len(buffer)
                                       /\ str[i + 1].type = "delta" /\ str[i + 1].scene = o
                                       /\ str[i + 1].seq = buffer[i + skipped].seq
                                       /\ str[i + 1].seq \in Nat
                                       /\ since < str[i + 1].seq /\ str[i + 1].seq <= sc.seq
    <3>. SUFFICES ASSUME NEW i \in 1..Len(records)
                  PROVE  /\ i + skipped \in 1..Len(buffer)
                         /\ str[i + 1].type = "delta" /\ str[i + 1].scene = o
                         /\ str[i + 1].seq = buffer[i + skipped].seq
                         /\ str[i + 1].seq \in Nat
                         /\ since < str[i + 1].seq /\ str[i + 1].seq <= sc.seq
      OBVIOUS
    <3>1. i + skipped \in 1..Len(buffer) /\ i + skipped > skipped
      BY <2>2, <2>6
    <3>2. buffer[i + skipped].seq > since /\ buffer[i + skipped].seq <= sc.seq
      BY <2>1, <2>2, <3>1 DEF Increasing
    <3>. QED  BY <2>7, <2>8, <2>10, <3>1, <3>2
  <2>12. \A i \in 1..Len(str) : str[i].type = "delta" /\ str[i].scene = o
                                /\ str[i].seq \in Nat /\ str[i].seq <= sc.seq
    <3>. SUFFICES ASSUME NEW i \in 1..Len(str)
                  PROVE  /\ str[i].type = "delta" /\ str[i].scene = o
                         /\ str[i].seq \in Nat /\ str[i].seq <= sc.seq
      OBVIOUS
    <3>1. CASE i = 1
      BY <2>3, <2>4, <2>10, <3>1
    <3>2. CASE i # 1
      <4>. DEFINE k == i - 1
      <4>1. k \in 1..Len(records) /\ k + 1 = i
        BY <2>6, <2>10, <3>2
      <4>. HIDE DEF k
      <4>. QED  BY <2>11, <4>1
    <3>. QED  BY <3>1, <3>2
  <2>13. \A i \in 1..Len(str) : ~Exact(str, i)
    <3>. SUFFICES ASSUME NEW i \in 1..Len(str), NEW j \in 1..i  PROVE str[j].type # "snapshot"
      BY DEF Exact
    <3>1. j \in 1..Len(str)
      BY <2>6, <2>10
    <3>. QED  BY <2>12, <3>1
  <2>14. ASSUME NEW i \in 1..Len(str) - 1
         PROVE  Link(str[i], str[i + 1], sub.live /\ Exact(str, i))
    <3>1. i \in 1..Len(records) /\ i \in 1..Len(str) /\ i + 1 \in 1..Len(str)
      BY <2>6, <2>10
    <3>2. str[i].seq < str[i + 1].seq
      <4>1. CASE i = 1
        BY <2>4, <2>10, <2>11, <3>1, <4>1
      <4>2. CASE i # 1
        <5>. DEFINE k == i - 1
        <5>1. k \in 1..Len(records) /\ k + 1 = i
          BY <2>6, <3>1, <4>2
        <5>. HIDE DEF k
        <5>2. k + skipped \in 1..Len(buffer) /\ i + skipped \in 1..Len(buffer)
              /\ k + skipped < i + skipped
          BY <2>2, <2>6, <2>11, <3>1, <5>1
        <5>3. buffer[k + skipped].seq < buffer[i + skipped].seq
          BY <2>1, <5>2 DEF Increasing
        <5>4. str[i].seq = buffer[k + skipped].seq /\ str[i + 1].seq = buffer[i + skipped].seq
          BY <2>11, <3>1, <5>1
        <5>. QED  BY <5>3, <5>4
      <4>. QED  BY <4>1, <4>2
    <3>3. str[i + 1].seq >= 1
      BY <2>3, <2>11, <3>1
    <3>. QED  BY <2>12, <2>13, <3>1, <3>2, <3>3 DEF Link
  <2>15. Arrives(str, sub.live, o, sc.seq)
    <3>1. Len(str) \in 1..Len(str)
      BY <2>6, <2>10
    <3>. QED  BY <2>12, <2>13, <3>1 DEF Arrives
  <2>16. Chain(str, sub.live)
    BY <2>14 DEF Chain
  <2>. QED  BY <2>15, <2>16 DEF FlowAt, str
<1>. QED  BY <1>3, <1>4

(* A session takes a step, the others and the numbers of the scenes that    *)
(* feed them are left alone.                                                *)
LEMMA OneStep ==
  ASSUME ServerInv, StepInv, NEW s \in Sessions,
         Objects' = Objects,
         \A x \in Objects : scenes'[x].seq = scenes[x].seq,
         \A x \in Sessions \ {s} :
           /\ session'[x] = session[x] /\ subs'[x] = subs[x] /\ viewer'[x] = viewer[x]
           /\ Attachments(x)' = Attachments(x),
         Tidy(session'[s], subs'[s]),
         Flow(s)'
  PROVE  StepInv'
<1>1. TypeInv /\ \A x \in Objects : scenes[x].seq \in Nat
  BY Numbers DEF ServerInv, TypeInv
<1>2. ASSUME NEW x \in Sessions  PROVE Tidy(session[x], subs[x])' /\ Flow(x)'
  <2>1. CASE x = s
    BY <2>1
  <2>2. CASE x # s
    <3>1. \A o \in Attachments(x)' : scenes'[o].seq \in Nat /\ scenes'[o].seq = scenes[o].seq
      BY <1>1 DEF Attachments
    <3>2. /\ session'[x] = session[x] /\ subs'[x] = subs[x] /\ viewer'[x] = viewer[x]
          /\ Attachments(x)' \subseteq Attachments(x)
      BY <2>2
    <3>. QED  BY <1>1, <3>1, <3>2, Untouched
  <2>. QED  BY <2>1, <2>2
<1>3. \A x \in Objects' : scenes'[x].seq >= 1
  BY DEF StepInv
<1>. QED  BY <1>2, <1>3 DEF StepInv

LEMMA SubscribeStep ==
  ASSUME ServerInv, StepInv, ServerInv', NEW s \in Sessions, NEW n \in Names \cup {NoName},
         NEW role, NEW past \in Pasts, Subscribe(s, n, role, past)
  PROVE  StepInv'
<1>. DEFINE o == Resolve(n, role)
            out == InitialFrames(scenes[o], past.cur)
            ses2 == [status |-> IF out = <<>> THEN "running" ELSE "opening",
                     scene |-> o, out |-> out]
            sub2 == NewSubscription(n = NoName)
            v2 == [scene |-> IF Memory(past, o) = "none" THEN NoScene ELSE past.scene,
                   cur |-> past.cur, open |-> TRUE, past |-> Memory(past, o)]
<1>1. TypeInv /\ RegistryInv /\ OwnerInv
  BY DEF ServerInv
<1>2. /\ session[s].status = "new" /\ o # NoScene
      /\ scenes' = [scenes EXCEPT ![o] = Attached(@, s)]
      /\ subs' = [subs EXCEPT ![s] = sub2]
      /\ session' = [session EXCEPT ![s] = ses2]
      /\ viewer' = [viewer EXCEPT ![s] = v2]
  BY DEF Subscribe
<1>3. o \in Objects
  BY <1>1, <1>2 DEF Resolve, ActiveScene, TypeInv
<1>4. /\ past.cur \in Nat /\ o \in SceneIds /\ SceneFits(scenes[o], o) /\ scenes[o].seq >= 1
  BY <1>1, <1>3, PastTypes DEF TypeInv, StepInv
<1>5. /\ ~Resumes(scenes[o], past.cur) => v2.past = "none"
      /\ Resumes(scenes[o], past.cur) => v2.past = "other" \/ (v2.past = "same" /\ v2.scene = o)
  <2>. DEFINE m == Memory(past, o)
  <2>1. /\ ~Resumes(scenes[o], past.cur) => m = "none"
        /\ Resumes(scenes[o], past.cur) => m = "other" \/ (m = "same" /\ past.scene = o)
    BY DEF Memory
  <2>2. v2.past = m /\ (m # "none" => v2.scene = past.scene)
    OBVIOUS
  <2>. HIDE DEF v2, m
  <2>. QED  BY <2>1, <2>2
<1>6. /\ ses2.out = out /\ ses2.scene = o /\ v2.cur = past.cur
      /\ ses2.status \in Sending /\ (ses2.status # "opening" => ses2.out = <<>>)
      /\ sub2.queue = <<>>
  BY DEF NewSubscription, Sending
<1>. HIDE DEF o, out, ses2, sub2, v2
<1>7. session'[s] = ses2 /\ subs'[s] = sub2 /\ viewer'[s] = v2
  BY <1>1, <1>2 DEF TypeInv
<1>8. TypeInv' /\ Typed(ses2, sub2, v2)
  <2>1. TypeInv'
    BY DEF ServerInv
  <2>2. /\ Objects' \subseteq SceneIds /\ ses2 \in Session(Objects')
        /\ sub2 \in Pipe(FramesOf(Objects')) /\ v2 \in Viewer(Objects')
    BY <1>7, <2>1 DEF TypeInv
  <2>. QED  BY <2>1, <2>2, TypedIn
<1>9. FlowAt(ses2, sub2, v2, o, scenes[o].seq)
  BY <1>4, <1>5, <1>6, <1>8, InitialFlow DEF out
<1>10. Tidy(ses2, sub2)
  <2>1. <<>> \in Seq(Frame) /\ Len(<<>>) = 0
    OBVIOUS
  <2>. QED  BY <1>6, <2>1 DEF Tidy
<1>11. /\ SceneFits(Attached(scenes[o], s), o)
       /\ Attached(scenes[o], s).subs = scenes[o].subs \cup {s}
       /\ Attached(scenes[o], s).seq = scenes[o].seq
  BY <1>4, SubsFits, Numbers
<1>12. /\ Objects' = Objects
       /\ scenes'[o] = Attached(scenes[o], s)
       /\ \A x \in Objects : x # o => scenes'[x] = scenes[x]
  <2>. DEFINE sc == Attached(scenes[o], s)
  <2>1. scenes' = [scenes EXCEPT ![o] = sc] /\ SceneFits(sc, o)
    BY <1>2, <1>11
  <2>. HIDE DEF sc
  <2>2. /\ Objects' = Objects /\ scenes'[o] = sc
        /\ \A x \in Objects : x # o => scenes'[x] = scenes[x]
    BY <1>1, <1>3, <2>1, OneScene
  <2>. QED  BY <2>2 DEF sc
<1>13. Attachments(s)' = {o} /\ \A x \in Sessions \ {s} : Attachments(x)' = Attachments(x)
  <2>1. Attachments(s) = {}
    BY <1>1, <1>2 DEF OwnerInv
  <2>. QED  BY <1>3, <1>11, <1>12, <2>1 DEF Attachments
<1>14. \A x \in Objects : scenes'[x].seq = scenes[x].seq
  BY <1>11, <1>12
<1>15. Flow(s)'
  <2>1. Attachments(s)' \subseteq {o}
    BY <1>13
  <2>2. FlowAt(session'[s], subs'[s], viewer'[s], o, scenes'[o].seq)
    BY <1>3, <1>7, <1>9, <1>14
  <2>. QED  BY <2>1, <2>2, FlowNext
<1>16. \A x \in Sessions \ {s} :
         session'[x] = session[x] /\ subs'[x] = subs[x] /\ viewer'[x] = viewer[x]
  BY <1>1, <1>2 DEF TypeInv
<1>17. Tidy(session'[s], subs'[s])
  BY <1>7, <1>10
<1>. QED  BY <1>12, <1>13, <1>14, <1>15, <1>16, <1>17, OneStep

(* A session that ends: nothing more is under way to its receiver.          *)
LEMMA EndedStep ==
  ASSUME ServerInv, StepInv, NEW s \in Sessions,
         Objects' = Objects,
         \A x \in Objects : scenes'[x].seq = scenes[x].seq,
         \A x \in Sessions \ {s} :
           /\ session'[x] = session[x] /\ subs'[x] = subs[x] /\ viewer'[x] = viewer[x]
           /\ Attachments(x)' = Attachments(x),
         subs'[s] = subs[s] \/ subs'[s].closed,
         session'[s].status \notin Sending, session'[s].out = <<>>
  PROVE  StepInv'
<1>1. Tidy(session'[s], subs'[s])
  BY DEF StepInv, Tidy
<1>2. ~Followed(session'[s], subs'[s], viewer'[s])
  BY DEF Followed
<1>3. Flow(s)'
  BY <1>2, NoFlow
<1>. QED  BY <1>1, <1>3, OneStep

LEMMA RefusedStep ==
  ASSUME ServerInv, StepInv, NEW s \in Sessions,
         session' = [session EXCEPT ![s] = Ended("over")],
         UNCHANGED <<server, subs, viewer>>
  PROVE  StepInv'
<1>1. UNCHANGED <<scenes, subs, viewer>> /\ session \in [Sessions -> Session(Objects)]
  BY DEF server, ServerInv, TypeInv
<1>2. Objects' = Objects /\ \A x : Attachments(x)' = Attachments(x)
  BY <1>1 DEF Objects, Attachments
<1>3. /\ session'[s].status \notin Sending /\ session'[s].out = <<>>
      /\ \A x \in Sessions \ {s} : session'[x] = session[x]
  BY <1>1 DEF Ended, Sending
<1>. QED  BY <1>1, <1>2, <1>3, EndedStep

LEMMA FailOpeningStep ==
  ASSUME ServerInv, StepInv, NEW s \in Sessions, FailOpening(s)
  PROVE  StepInv'
<1>. DEFINE o == session[s].scene
            sc == Detached(scenes[o], s)
<1>1. TypeInv
  BY DEF ServerInv
<1>2. o \in Objects
  BY SessionFacts DEF FailOpening, Ends
<1>3. SceneFits(sc, o) /\ sc.subs = scenes[o].subs \ {s} /\ sc.seq = scenes[o].seq
  BY <1>1, <1>2, SubsFits, Numbers DEF TypeInv
<1>4. scenes' = [scenes EXCEPT ![o] = sc]
  BY DEF FailOpening
<1>. HIDE DEF o, sc
<1>5. /\ Objects' = Objects /\ scenes'[o] = sc
      /\ \A x \in Objects : x # o => scenes'[x] = scenes[x]
  BY <1>1, <1>2, <1>3, <1>4, OneScene
<1>6. /\ subs' = [subs EXCEPT ![s] = Close(subs[s])]
      /\ session' = [session EXCEPT ![s] = Ended("failed")]
      /\ viewer' = [viewer EXCEPT ![s] = NoViewer]
  BY DEF FailOpening
<1>7. /\ subs'[s].closed /\ session'[s] = Ended("failed")
      /\ \A x \in Sessions \ {s} :
           session'[x] = session[x] /\ subs'[x] = subs[x] /\ viewer'[x] = viewer[x]
  BY <1>1, <1>6, ClosePipe DEF TypeInv
<1>8. session'[s].status \notin Sending /\ session'[s].out = <<>>
  BY <1>7 DEF Ended, Sending
<1>9. \A x : x # s => Attachments(x)' = Attachments(x)
  BY <1>3, <1>5 DEF Attachments
<1>10. \A x \in Objects : scenes'[x].seq = scenes[x].seq
  BY <1>3, <1>5
<1>. QED  BY <1>5, <1>7, <1>8, <1>9, <1>10, EndedStep

LEMMA FinishStep ==
  ASSUME ServerInv, StepInv, NEW s \in Sessions, Finish(s)
  PROVE  StepInv'
<1>1. TypeInv
  BY DEF ServerInv
<1>2. /\ scenes' = [o \in Objects |-> IF o \in Registered THEN Detached(scenes[o], s)
                                                          ELSE scenes[o]]
      /\ subs' = IF Registered = {} THEN subs ELSE [subs EXCEPT ![s] = Close(subs[s])]
      /\ session' = [session EXCEPT ![s] = Ended("over")]
      /\ viewer' = [viewer EXCEPT ![s] = NoViewer]
  BY DEF Finish
<1>3. \A o \in Objects : /\ Detached(scenes[o], s).subs = scenes[o].subs \ {s}
                         /\ Detached(scenes[o], s).seq = scenes[o].seq
  BY <1>1, SubsFits, Numbers DEF TypeInv
<1>4. /\ Objects' = Objects
      /\ \A o \in Objects : /\ scenes'[o].seq = scenes[o].seq
                            /\ \A x : x # s => (x \in scenes'[o].subs <=> x \in scenes[o].subs)
  BY <1>2, <1>3 DEF Objects
<1>5. \A x : x # s => Attachments(x)' = Attachments(x)
  BY <1>4 DEF Attachments
<1>6. /\ subs'[s] = subs[s] \/ subs'[s].closed
      /\ session'[s] = Ended("over")
      /\ \A x \in Sessions \ {s} :
           session'[x] = session[x] /\ subs'[x] = subs[x] /\ viewer'[x] = viewer[x]
  BY <1>1, <1>2, ClosePipe DEF TypeInv
<1>7. session'[s].status \notin Sending /\ session'[s].out = <<>>
  BY <1>6 DEF Ended, Sending
<1>. QED  BY <1>4, <1>5, <1>6, <1>7, EndedStep

(* What the steps that touch no scene have in common.                       *)
LEMMA OwnStep ==
  ASSUME ServerInv, StepInv, NEW s \in Sessions, UNCHANGED server,
         NEW ses, session' = [session EXCEPT ![s] = ses],
         NEW sub, subs' = [subs EXCEPT ![s] = sub],
         NEW v, viewer' = [viewer EXCEPT ![s] = v],
         Tidy(ses, sub),
         Followed(ses, sub, v) => /\ Followed(session[s], subs[s], viewer[s])
                                  /\ sub.live = subs[s].live
                                  /\ Passes(Stream(session[s], subs[s], viewer[s]),
                                            Stream(ses, sub, v), sub.live)
  PROVE  StepInv'
<1>1. TypeInv /\ UNCHANGED scenes
  BY DEF ServerInv, server
<1>2. Objects' = Objects /\ \A x : Attachments(x)' = Attachments(x)
  BY <1>1 DEF Objects, Attachments
<1>3. /\ session'[s] = ses /\ subs'[s] = sub /\ viewer'[s] = v
      /\ \A x \in Sessions \ {s} :
           session'[x] = session[x] /\ subs'[x] = subs[x] /\ viewer'[x] = viewer[x]
  BY <1>1 DEF TypeInv
<1>4. Flow(s)'
  <2>1. CASE ~Followed(ses, sub, v)
    BY <1>3, <2>1, NoFlow
  <2>2. CASE Followed(ses, sub, v)
    <3>1. /\ Chain(Stream(ses, sub, v), sub.live)
          /\ \A o \in Attachments(s) : Arrives(Stream(ses, sub, v), sub.live, o, scenes[o].seq)
      BY <2>2 DEF StepInv, Flow, Passes
    <3>. QED  BY <1>1, <1>2, <1>3, <3>1 DEF Flow
  <2>. QED  BY <2>1, <2>2
<1>5. Tidy(session'[s], subs'[s])
  BY <1>3
<1>. QED  BY <1>1, <1>2, <1>3, <1>4, <1>5, OneStep

LEMMA WriterGetStep ==
  ASSUME ServerInv, StepInv, NEW s \in Sessions, WriterGet(s)
  PROVE  StepInv'
<1>. DEFINE q == subs[s].queue
            ses == session[s]
            ses2 == IF Head(q) = Sentinel THEN [ses EXCEPT !.status = AfterWriter(ses.status)]
                                          ELSE [ses EXCEPT !.out = <<Head(q)>>]
            sub2 == [subs[s] EXCEPT !.queue = Tail(q)]
<1>1. TypeInv /\ Typed(ses, subs[s], viewer[s]) /\ Tidy(ses, subs[s]) /\ Flow(s)
  BY SessionTyped DEF ServerInv, StepInv
<1>2. /\ ses.status \in {"running", "gone"} /\ ses.out = <<>> /\ q # <<>>
      /\ session' = [session EXCEPT ![s] = ses2]
      /\ subs' = [subs EXCEPT ![s] = sub2]
      /\ UNCHANGED server /\ viewer' = [viewer EXCEPT ![s] = viewer[s]]
  BY <1>1 DEF WriterGet, TypeInv
<1>3. /\ sub2.queue = Tail(q) /\ sub2.live = subs[s].live
      /\ sub2.closed = subs[s].closed /\ sub2.stale = subs[s].stale
  BY <1>1 DEF Typed, Pipe
<1>4. q \in Seq(Frame \cup {Sentinel})
  BY <1>1 DEF Typed, Pipe
<1>5. ~subs[s].closed => q \in Seq(Frame) /\ Head(q) # Sentinel /\ Tail(q) \in Seq(Frame)
  <2>. SUFFICES ASSUME ~subs[s].closed
                PROVE  q \in Seq(Frame) /\ Head(q) # Sentinel /\ Tail(q) \in Seq(Frame)
    OBVIOUS
  <2>1. q \in Seq(Frame) /\ q # <<>>
    BY <1>1, <1>2 DEF Tidy
  <2>. HIDE DEF q
  <2>2. Head(q) \in Frame /\ Tail(q) \in Seq(Frame)
    BY <2>1
  <2>. QED  BY <2>1, <2>2, FrameFields
<1>6. /\ ses2.scene = ses.scene
      /\ Head(q) = Sentinel => ses2.status \notin Sending /\ ses2.out = <<>>
      /\ Head(q) # Sentinel => ses2.status = ses.status /\ ses2.out = <<Head(q)>>
  <2>1. CASE Head(q) = Sentinel
    <3>1. ses2 = [ses EXCEPT !.status = AfterWriter(ses.status)]
      BY <2>1
    <3>2. AfterWriter(ses.status) \notin Sending
      BY DEF AfterWriter, Sending
    <3>3. ses2.status = AfterWriter(ses.status) /\ ses2.out = ses.out /\ ses2.scene = ses.scene
      BY <1>1, <3>1 DEF Typed
    <3>. QED  BY <1>2, <2>1, <3>2, <3>3
  <2>2. CASE Head(q) # Sentinel
    <3>1. ses2 = [ses EXCEPT !.out = <<Head(q)>>]
      BY <2>2
    <3>2. ses2.status = ses.status /\ ses2.out = <<Head(q)>> /\ ses2.scene = ses.scene
      BY <1>1, <3>1 DEF Typed
    <3>. QED  BY <2>2, <3>2
  <2>. QED  BY <2>1, <2>2
<1>. HIDE DEF ses2, sub2, q
<1>7. Tidy(ses2, sub2)
  <2>1. Len(<<Head(q)>>) = 1 /\ Len(<<>>) = 0
    OBVIOUS
  <2>2. ~sub2.closed => sub2.queue \in Seq(Frame)
    BY <1>3, <1>5
  <2>3. Len(ses2.out) <= 1
    <3>1. CASE Head(q) = Sentinel
      BY <1>6, <2>1, <3>1
    <3>2. CASE Head(q) # Sentinel
      <4>1. Len(ses2.out) = 1
        BY <1>6, <2>1, <3>2
      <4>. QED  BY <4>1
    <3>. QED  BY <3>1, <3>2
  <2>4. ses2.status \notin Sending => ses2.out = <<>>
    BY <1>2, <1>6 DEF Sending
  <2>. QED  BY <2>2, <2>3, <2>4 DEF Tidy
<1>8. ASSUME Followed(ses2, sub2, viewer[s])
      PROVE  /\ Followed(ses, subs[s], viewer[s])
             /\ Stream(ses2, sub2, viewer[s]) = Stream(ses, subs[s], viewer[s])
  <2>1. ~subs[s].closed /\ Head(q) # Sentinel /\ q \in Seq(Frame)
    BY <1>3, <1>5, <1>8 DEF Followed
  <2>2. Followed(ses, subs[s], viewer[s])
    BY <1>3, <1>6, <1>8, <2>1 DEF Followed
  <2>3. Stream(ses2, sub2, viewer[s]) = Stream(ses, subs[s], viewer[s])
    BY <1>1, <1>2, <1>3, <1>6, <2>1, Taken DEF q
  <2>. QED  BY <2>2, <2>3
<1>9. Followed(ses2, sub2, viewer[s]) =>
        Passes(Stream(ses, subs[s], viewer[s]), Stream(ses2, sub2, viewer[s]), sub2.live)
  BY <1>1, <1>3, <1>8 DEF Flow, Passes
<1>. QED  BY <1>2, <1>3, <1>7, <1>8, <1>9, OwnStep

LEMMA SendFailsStep ==
  ASSUME ServerInv, StepInv, NEW s \in Sessions, SendFails(s)
  PROVE  StepInv'
<1>. DEFINE status == AfterWriter(session[s].status)
            ses2 == [session[s] EXCEPT !.status = status, !.out = <<>>]
<1>1. TypeInv /\ Typed(session[s], subs[s], viewer[s]) /\ Tidy(session[s], subs[s])
  BY SessionTyped DEF ServerInv, StepInv
<1>2. /\ session' = [session EXCEPT ![s] = ses2] /\ UNCHANGED server
      /\ subs' = [subs EXCEPT ![s] = subs[s]] /\ viewer' = [viewer EXCEPT ![s] = viewer[s]]
  BY <1>1 DEF SendFails, TypeInv
<1>3. status \notin Sending
  BY DEF AfterWriter, Sending
<1>. HIDE DEF status
<1>4. ses2.status = status /\ ses2.out = <<>>
  BY <1>1 DEF Typed
<1>. HIDE DEF ses2
<1>5. Tidy(ses2, subs[s]) /\ ~Followed(ses2, subs[s], viewer[s])
  BY <1>1, <1>3, <1>4 DEF Tidy, Followed
<1>. QED  BY <1>2, <1>5, OwnStep

LEMMA PingOutStep ==
  ASSUME ServerInv, StepInv, NEW s \in Sessions, PingOut(s)
  PROVE  StepInv'
<1>. DEFINE ses2 == [session[s] EXCEPT !.status = "closing"]
<1>1. TypeInv /\ Typed(session[s], subs[s], viewer[s]) /\ Tidy(session[s], subs[s])
  BY SessionTyped DEF ServerInv, StepInv
<1>2. /\ session' = [session EXCEPT ![s] = ses2] /\ UNCHANGED server /\ session[s].out = <<>>
      /\ subs' = [subs EXCEPT ![s] = subs[s]] /\ viewer' = [viewer EXCEPT ![s] = viewer[s]]
  BY <1>1 DEF PingOut, TypeInv
<1>3. ses2.status = "closing" /\ ses2.out = <<>>
  BY <1>1, <1>2 DEF Typed
<1>. HIDE DEF ses2
<1>4. Tidy(ses2, subs[s]) /\ ~Followed(ses2, subs[s], viewer[s])
  BY <1>1, <1>3 DEF Tidy, Followed, Sending
<1>. QED  BY <1>2, <1>4, OwnStep

LEMMA ReaderEndsStep ==
  ASSUME ServerInv, StepInv, NEW s \in Sessions, ReaderEnds(s)
  PROVE  StepInv'
<1>. DEFINE ses == session[s]
            status == IF ses.status = "running" THEN "gone" ELSE "closing"
            ses2 == [ses EXCEPT !.status = status]
<1>1. TypeInv /\ Typed(ses, subs[s], viewer[s]) /\ Tidy(ses, subs[s]) /\ Flow(s)
  BY SessionTyped DEF ServerInv, StepInv
<1>2. /\ session' = [session EXCEPT ![s] = ses2] /\ UNCHANGED server
      /\ ses.status \in {"running", "silent"}
      /\ subs' = [subs EXCEPT ![s] = subs[s]] /\ viewer' = [viewer EXCEPT ![s] = viewer[s]]
  BY <1>1 DEF ReaderEnds, TypeInv
<1>3. ses2.status = status /\ ses2.out = ses.out /\ ses2.scene = ses.scene
  BY <1>1 DEF Typed
<1>. HIDE DEF ses2
<1>4. Tidy(ses2, subs[s])
  BY <1>1, <1>2, <1>3 DEF Tidy, Sending
<1>5. ASSUME Followed(ses2, subs[s], viewer[s])
      PROVE  /\ Followed(ses, subs[s], viewer[s])
             /\ Stream(ses2, subs[s], viewer[s]) = Stream(ses, subs[s], viewer[s])
  BY <1>2, <1>3, <1>5 DEF Followed, Sending, Stream, Start
<1>6. Followed(ses2, subs[s], viewer[s]) =>
        Passes(Stream(ses, subs[s], viewer[s]), Stream(ses2, subs[s], viewer[s]), subs[s].live)
  BY <1>1, <1>5 DEF Flow, Passes
<1>. QED  BY <1>2, <1>4, <1>5, <1>6, OwnStep

LEMMA InputStep ==
  ASSUME ServerInv, StepInv, NEW s \in Sessions, NEW patches \in Patches, Input(s, patches)
  PROVE  StepInv'
<1>. DEFINE ses == session[s]
            status == IF ses.status = "silent" THEN "closing" ELSE ses.status
            ses2 == [ses EXCEPT !.status = status]
<1>1. TypeInv /\ Typed(ses, subs[s], viewer[s]) /\ Tidy(ses, subs[s])
  BY SessionTyped DEF ServerInv, StepInv
<1>2. /\ session' = [session EXCEPT ![s] = ses2] /\ UNCHANGED viewer
      /\ Publish(ses.scene, patches) /\ ses.status \in {"running", "silent"}
  BY DEF Input
<1>3. ses.scene \in Objects
  BY <1>2, SessionFacts DEF Ends
<1>4. ses2.status = status /\ ses2.out = ses.out
  BY <1>1 DEF Typed
<1>5. ses2 = ses \/ (ses2.status \notin Sending /\ ses2.out = <<>>)
  <2>1. CASE ses.status = "running"
    BY <1>1, <2>1 DEF Typed
  <2>2. CASE ses.status = "silent"
    BY <1>1, <1>4, <2>2 DEF Tidy, Sending
  <2>. QED  BY <1>2, <2>1, <2>2
<1>. HIDE DEF ses2
<1>6. \A x \in Sessions : \/ session'[x] = session[x]
                          \/ session'[x].status \notin Sending /\ session'[x].out = <<>>
  BY <1>1, <1>2, <1>5 DEF TypeInv
<1>. QED  BY <1>2, <1>3, <1>6, PublishStep

LEMMA EmitStep ==
  ASSUME ServerInv, StepInv, NEW o \in Objects, NEW patches \in Patches, Emit(o, patches)
  PROVE  StepInv'
<1>1. Publish(o, patches) /\ UNCHANGED viewer /\ UNCHANGED session
  BY DEF Emit
<1>. QED  BY <1>1, PublishStep

LEMMA ReceiveStep ==
  ASSUME ServerInv, StepInv, NEW s \in Sessions, Receive(s)
  PROVE  StepInv'
<1>. DEFINE ses == session[s]
            sub == subs[s]
            out == ses.out
            status == AfterSend(ses.status, Tail(out))
            ses2 == [ses EXCEPT !.out = Tail(out), !.status = status]
            v2 == View(viewer[s], Head(out))
<1>1. TypeInv /\ Typed(ses, sub, viewer[s]) /\ Tidy(ses, sub) /\ Flow(s)
  BY SessionTyped DEF ServerInv, StepInv
<1>2. /\ session' = [session EXCEPT ![s] = ses2] /\ UNCHANGED server
      /\ ses.status \in {"opening", "running", "gone"} /\ out # <<>>
      /\ subs' = [subs EXCEPT ![s] = sub] /\ viewer' = [viewer EXCEPT ![s] = v2]
  BY <1>1 DEF Receive, TypeInv
<1>3. /\ out \in Seq(FramesOf(Objects)) /\ viewer[s] \in Viewer(Objects)
      /\ sub \in Pipe(FramesOf(Objects)) /\ Objects \subseteq SceneIds
      /\ ses \in Session(Objects) /\ ses.status \notin Ends
  BY <1>2, SessionFacts DEF ServerInv, TypeInv, Ends
<1>4. /\ Head(out) \in FramesOf(Objects) /\ Tail(out) \in Seq(FramesOf(Objects))
      /\ Len(Tail(out)) = Len(out) - 1 /\ Len(out) \in Nat
      /\ (Len(out) <= 1 => Tail(out) = <<>>)
  <2>. HIDE DEF out
  <2>. QED  BY <1>2, <1>3
<1>5. v2 \in Viewer(Objects)
  BY <1>3, <1>4, ViewType
<1>6. ses2.status = status /\ ses2.out = Tail(out) /\ ses2.scene = ses.scene
  <2>. DEFINE rest == Tail(out)
  <2>. HIDE DEF status, rest
  <2>1. LET x == [ses EXCEPT !.out = rest, !.status = status]
        IN  x.status = status /\ x.out = rest /\ x.scene = ses.scene
    BY <1>1 DEF Typed
  <2>. QED  BY <2>1 DEF rest
<1>7. status \in Statuses /\ status \notin Ends
  BY <1>1, <1>2 DEF AfterSend, Statuses, Ends, Typed
<1>8. ses2 \in Session(Objects)
  <2>. DEFINE rest == Tail(out)
  <2>1. rest \in Seq(FramesOf(Objects))
    BY <1>4
  <2>. HIDE DEF status, rest
  <2>2. [ses EXCEPT !.out = rest, !.status = status] \in Session(Objects)
    BY <1>3, <1>7, <2>1 DEF Session, Ends
  <2>. QED  BY <2>2 DEF rest
<1>9. Typed(ses2, sub, v2)
  BY <1>3, <1>5, <1>8, TypedIn
<1>10. Tidy(ses2, sub)
  <2>1. status # "opening" => Tail(out) = <<>>
    <3>1. CASE ses.status = "opening"
      BY <3>1 DEF AfterSend
    <3>2. CASE ses.status # "opening"
      BY <1>1, <1>4, <3>2 DEF Tidy
    <3>. QED  BY <3>1, <3>2
  <2>2. Len(<<>>) = 0
    OBVIOUS
  <2>. HIDE DEF ses2, status
  <2>3. ~sub.closed => sub.queue \in Seq(Frame)
    BY <1>1 DEF Tidy
  <2>4. ses2.status # "opening" => ses2.out = <<>>
    BY <1>6, <2>1
  <2>. QED  BY <2>2, <2>3, <2>4 DEF Tidy, Sending
<1>11. ASSUME Followed(ses2, sub, v2)
       PROVE  /\ Followed(ses, sub, viewer[s])
              /\ Passes(Stream(ses, sub, viewer[s]), Stream(ses2, sub, v2), sub.live)
  <2>1. ~sub.closed /\ ~sub.stale /\ v2.open
    BY <1>11 DEF Followed
  <2>2. viewer[s].open
    BY <2>1 DEF View
  <2>. HIDE DEF ses2, v2
  <2>3. Followed(ses, sub, viewer[s])
    BY <1>2, <2>1, <2>2 DEF Followed, Sending
  <2>4. Chain(Stream(ses, sub, viewer[s]), sub.live) /\ sub.queue \in Seq(Frame)
    BY <1>1, <2>1, <2>3 DEF Flow, Tidy
  <2>5. v2 = View(viewer[s], Head(ses.out)) /\ ses.out # <<>> /\ ses2.out = Tail(ses.out)
    BY <1>2, <1>6 DEF v2
  <2>6. Passes(Stream(ses, sub, viewer[s]), Stream(ses2, sub, v2), sub.live)
    BY <1>1, <1>6, <1>9, <2>1, <2>2, <2>4, <2>5, Received
  <2>. QED  BY <2>3, <2>6
<1>. HIDE DEF ses2, v2
<1>. QED  BY <1>2, <1>10, <1>11, OwnStep

------------------------------------------------------------------------------
(* The theorem.                                                             *)

LEMMA InitStep == ASSUME Init PROVE StepInv
<1>1. Objects = {}
  BY DEF Init, Objects
<1>2. ASSUME NEW s \in Sessions  PROVE Tidy(session[s], subs[s]) /\ Flow(s)
  <2>1. session[s].status = "new" /\ session[s].out = <<>> /\ subs[s].queue = <<>>
    BY DEF Init, Ended, NewSubscription
  <2>2. <<>> \in Seq(Frame) /\ Len(<<>>) = 0
    OBVIOUS
  <2>. QED  BY <2>1, <2>2 DEF Tidy, Flow, Followed, Sending
<1>. QED  BY <1>1, <1>2 DEF StepInv

LEMMA NextStep ==
  ASSUME ServerInv, ServerInv', StepInv, [Next]_vars
  PROVE  StepInv'
<1>1. CASE \E n \in Names : Register(n) \/ SetActive(n)
  BY <1>1, RegisterStep, SetActiveStep
<1>2. CASE ResetAll
  BY <1>2, ResetAllStep
<1>3. CASE \E o \in Objects : RunReset(o)
  BY <1>3, RunResetStep
<1>4. CASE \E o \in Objects : \E patches \in Patches : Set(o, patches) \/ Emit(o, patches)
  BY <1>4, SetStep, EmitStep
<1>5. CASE \E s \in Sessions : \E n \in Names \cup {NoName}, role \in Roles : Refuse(s, n, role)
  BY <1>5, RefusedStep DEF Refuse
<1>6. CASE \E s \in Sessions : \E n \in Names \cup {NoName}, role \in Roles :
             \E past \in Pasts : Subscribe(s, n, role, past)
  BY <1>6, SubscribeStep
<1>7. CASE \E s \in Sessions : FailOpening(s) \/ Finish(s)
  BY <1>7, FailOpeningStep, FinishStep
<1>8. CASE \E s \in Sessions : WriterGet(s) \/ SendFails(s) \/ PingOut(s)
  BY <1>8, WriterGetStep, SendFailsStep, PingOutStep
<1>9. CASE \E s \in Sessions : ReaderEnds(s) \/ Receive(s)
  BY <1>9, ReaderEndsStep, ReceiveStep
<1>10. CASE \E s \in Sessions : \E patches \in Patches : Input(s, patches)
  BY <1>10, InputStep
<1>11. CASE UNCHANGED vars
  <2>1. UNCHANGED <<scenes, subs, session, viewer>>
    BY <1>11 DEF vars
  <2>. QED  BY <2>1 DEF StepInv, Tidy, Flow, Objects, Attachments
<1>. QED  BY <1>1, <1>2, <1>3, <1>4, <1>5, <1>6, <1>7, <1>8, <1>9, <1>10, <1>11 DEF Next

(* What is under way to a receiver is, in every behaviour, one chain of     *)
(* frames from where it stands to where the scene that feeds it is, as long *)
(* as nothing was dropped (put_nowait, migrate_subscribers_from).           *)
THEOREM StepInvariance == Spec => [](ServerInv /\ StepInv)
<1>1. Init => ServerInv /\ StepInv
  BY InitInv, InitStep
<1>2. ServerInv /\ StepInv /\ [Next]_vars => ServerInv' /\ StepInv'
  BY NextInv, NextStep
<1>. QED  BY <1>1, <1>2, PTL DEF Spec

(* Over any number of changes of scene, a receiver that lost no frame gets  *)
(* deltas of the scene it shows, no replay, and, live and begun with a      *)
(* snapshot, no gap.                                                        *)
THEOREM InStepHolds == Spec => []InStep
<1>1. ServerInv /\ StepInv => InStep
  <2>. SUFFICES ASSUME ServerInv, StepInv, NEW s \in Sessions,
                       Lossless(s), viewer[s].past # "other"
                PROVE  /\ Head(session[s].out).scene = viewer[s].scene
                       /\ Verdict(s) # "replay"
                       /\ subs[s].live /\ viewer[s].past = "none" => Verdict(s) = "accept"
    BY DEF InStep
  <2>. DEFINE str == Stream(session[s], subs[s], viewer[s])
              start == Start(session[s], viewer[s])
              f == Head(session[s].out)
  <2>1. Typed(session[s], subs[s], viewer[s]) /\ Tidy(session[s], subs[s]) /\ Flow(s)
    BY SessionTyped DEF ServerInv, StepInv
  <2>2. session[s].out # <<>> /\ f.type = "delta" /\ subs[s].queue \in Seq(Frame)
    BY <2>1 DEF Lossless, Tidy
  <2>3. Followed(session[s], subs[s], viewer[s])
    BY <2>1, <2>2 DEF Lossless, Followed, Tidy
  <2>4. Chain(str, subs[s].live)
    BY <2>1, <2>3 DEF Flow
  <2>5. /\ str[1] = start /\ Len(str) = 1 + (Len(session[s].out) + Len(subs[s].queue))
        /\ 1 \in 1..Len(session[s].out) => str[1 + 1] = session[s].out[1]
    <3>1. LaidOut(str, start, session[s].out, subs[s].queue)
      BY <2>1, <2>2, StreamFacts
    <3>. QED  BY <3>1 DEF LaidOut
  <2>6. f = session[s].out[1] /\ Len(session[s].out) \in Nat /\ Len(session[s].out) >= 1
        /\ f \in Frame
    <3>. DEFINE out == session[s].out
    <3>1. out \in Seq(Frame) /\ out # <<>>
      BY <2>1, <2>2 DEF Typed
    <3>. HIDE DEF out
    <3>2. Head(out) = out[1] /\ Len(out) \in Nat /\ Len(out) >= 1 /\ Head(out) \in Frame
      BY <3>1
    <3>. QED  BY <3>2 DEF out
  <2>7. Len(subs[s].queue) \in Nat
    BY <2>2
  <2>. HIDE DEF str, f, start
  <2>8. Link(start, f, subs[s].live /\ Exact(str, 1))
    <3>. DEFINE m == Len(session[s].out)
                k == Len(subs[s].queue)
    <3>1. 1 \in 1..Len(str) - 1 /\ 1 \in 1..m
      <4>1. m \in Nat /\ m >= 1 /\ k \in Nat /\ Len(str) = 1 + (m + k)
        BY <2>5, <2>6, <2>7
      <4>. HIDE DEF m, k
      <4>. QED  BY <4>1
    <3>2. Link(str[1], str[1 + 1], subs[s].live /\ Exact(str, 1))
      BY <2>4, <3>1 DEF Chain
    <3>. QED  BY <2>5, <2>6, <3>1, <3>2
  <2>9. start.type = "snapshot" => Exact(str, 1)
    <3>1. 1 \in 1..1
      OBVIOUS
    <3>. QED  BY <2>5, <3>1 DEF Exact
  <2>10. /\ start.scene = viewer[s].scene /\ start.seq = viewer[s].cur
         /\ viewer[s].past = "none" => start.type = "snapshot"
         /\ viewer[s].cur \in Nat
    BY <2>1 DEF Lossless, Start, Typed, start
  <2>11. f.seq \in Nat
    BY <2>6, FrameFields
  <2>12. Verdict(s) = ObserveServer(viewer[s].cur, f.seq)
    BY DEF Verdict, f
  <2>13. f.scene = viewer[s].scene
    BY <2>2, <2>8, <2>10 DEF Link
  <2>14. viewer[s].cur < f.seq
    BY <2>2, <2>8, <2>10 DEF Link
  <2>15. Verdict(s) # "replay"
    BY <2>10, <2>11, <2>12, <2>14 DEF ObserveServer, Fresh
  <2>16. subs[s].live /\ viewer[s].past = "none" => Verdict(s) = "accept"
    BY <2>2, <2>8, <2>9, <2>10, <2>11, <2>12, <2>14 DEF Link, ObserveServer, Fresh
  <2>. QED  BY <2>13, <2>15, <2>16 DEF f
<1>. QED  BY <1>1, StepInvariance, PTL

==============================================================================
