-------------------------- MODULE ControlPlaneProofs --------------------------
(****************************************************************************)
(* The inductive invariant of ControlPlane, on top of the server's, and the *)
(* theorems it yields.                                                      *)
(****************************************************************************)
EXTENDS ControlPlane, ServerProofs

------------------------------------------------------------------------------
(* The invariant: the server's, and two parts of its own.                   *)

(* Types: no scene and no session is of a scenario to come.                 *)
TableInv ==
  /\ tokens \in TokenTables
  /\ scenario \in 0..MaxScenario
  /\ birth \in [Objects -> 1..scenario]
  /\ opened \in [Sessions -> 0..scenario]
  /\ DOMAIN holder = Sessions

(* What is under way to a session is of the one scene it was opened on.     *)
OwnFrames(s) ==
  LET F == FramesOf({session[s].scene})
  IN  session[s].out \in Seq(F) /\ subs[s] \in Pipe(F)

(* Scenarios: the registry is of this one, and an open session of the one   *)
(* its scene was made in, whatever has become of that scene.                *)
SessionEra(s) ==
  /\ birth[session[s].scene] = opened[s]
  /\ Attachments(s) \subseteq {session[s].scene}
  /\ OwnFrames(s)
  /\ session[s].scene \in Registered => tokens[holder[s][1]] = holder[s][2]

EraInv ==
  /\ \A o \in Registered : birth[o] = scenario
  /\ \A s \in Sessions : Open(s) => SessionEra(s)

CPInv == ServerInv /\ TableInv /\ EraInv

------------------------------------------------------------------------------
(* What the steps have in common.                                           *)

LEMMA CPInitInv == ASSUME CPInit PROVE CPInv
<1>1. ServerInv
  BY InitInv DEF CPInit
<1>2. Objects = {} /\ Registered = {} /\ \A s \in Sessions : ~Open(s)
  BY DEF CPInit, Init, Objects, Registered, Open, Ended
<1>3. TableInv
  BY <1>2, MaxScenarioAssumption DEF CPInit, TableInv, NoTokens, TokenTables
<1>4. EraInv
  BY <1>2 DEF EraInv
<1>. QED  BY <1>1, <1>3, <1>4 DEF CPInv

(* An open session has a scene, and that scene is a registered one or not.  *)
LEMMA OpenFacts ==
  ASSUME CPInv, NEW s \in Sessions, Open(s)
  PROVE  /\ session[s].scene \in Objects /\ session[s].scene \in SceneIds
         /\ SessionEra(s) /\ OwnFrames(s)
<1>1. session[s].scene \in Objects
  BY DEF CPInv, ServerInv, TypeInv, Session, Open
<1>2. session[s].scene \in SceneIds
  BY <1>1 DEF CPInv, ServerInv, TypeInv
<1>3. SessionEra(s)
  BY DEF CPInv, EraInv
<1>. QED  BY <1>1, <1>2, <1>3 DEF SessionEra

(* A step within a scenario.                                                *)
LEMMA WithinEra ==
  ASSUME CPInv, UNCHANGED <<registry, tokens, history>>, Objects' = Objects,
         \A s \in Sessions : Open(s)' =>
           /\ Open(s)
           /\ session'[s].scene = session[s].scene
           /\ Attachments(s)' \subseteq Attachments(s)
           /\ OwnFrames(s)'
  PROVE  TableInv' /\ EraInv'
<1>1. UNCHANGED <<tokens, scenario, birth, opened, holder>> /\ Registered' = Registered
  BY DEF history, Registered
<1>2. TableInv'
  BY <1>1 DEF CPInv, TableInv
<1>3. ASSUME NEW s \in Sessions, Open(s)'  PROVE SessionEra(s)'
  <2>1. /\ Open(s) /\ session'[s].scene = session[s].scene
        /\ Attachments(s)' \subseteq Attachments(s) /\ OwnFrames(s)'
    BY <1>3
  <2>2. SessionEra(s)
    BY <2>1, OpenFacts
  <2>. QED  BY <1>1, <2>1, <2>2 DEF SessionEra
<1>4. \A o \in Registered' : birth'[o] = scenario'
  BY <1>1 DEF CPInv, EraInv
<1>. QED  BY <1>2, <1>3, <1>4 DEF EraInv

(* A step that begins another scenario: no scene made so far is registered. *)
LEMMA NextEra ==
  ASSUME CPInv, scenario < MaxScenario, scenario' = scenario + 1,
         UNCHANGED <<session, opened, holder>>, tokens' \in TokenTables,
         Objects \subseteq Objects', birth' \in [Objects' -> 1..scenario'],
         \A o \in Objects : birth'[o] = birth[o],
         Registered' \cap Objects = {},
         \A o \in Registered' : birth'[o] = scenario',
         \A s \in Sessions : Open(s) =>
           /\ Attachments(s)' \subseteq Attachments(s)
           /\ subs'[s] = subs[s] \/ subs'[s] = Close(subs[s])
  PROVE  TableInv' /\ EraInv'
<1>1. /\ scenario \in 0..MaxScenario /\ opened \in [Sessions -> 0..scenario]
      /\ DOMAIN holder = Sessions
  BY DEF CPInv, TableInv
<1>2. TableInv'
  BY <1>1, MaxScenarioAssumption DEF TableInv
<1>3. ASSUME NEW s \in Sessions, Open(s)'  PROVE SessionEra(s)'
  <2>. DEFINE F == FramesOf({session[s].scene})
  <2>1. Open(s)
    BY <1>3 DEF Open
  <2>2. session[s].scene \in Objects /\ SessionEra(s) /\ OwnFrames(s)
    BY <2>1, OpenFacts
  <2>3. session[s].out \in Seq(F) /\ subs[s] \in Pipe(F)
    BY <2>2 DEF OwnFrames
  <2>4. subs'[s] \in Pipe(F)
    BY <2>1, <2>3, CloseType
  <2>5. OwnFrames(s)'
    BY <2>3, <2>4 DEF OwnFrames, FramesOf
  <2>6. session[s].scene \notin Registered'
    BY <2>2
  <2>. QED  BY <2>1, <2>2, <2>5, <2>6 DEF SessionEra
<1>. QED  BY <1>2, <1>3 DEF EraInv

------------------------------------------------------------------------------
(* The sessions.                                                            *)

(* A step of one session that keeps its scene.                              *)
LEMMA OneSessionEra ==
  ASSUME CPInv, NEW s \in Sessions, UNCHANGED <<registry, tokens, history>>,
         Objects' = Objects,
         \A x \in Sessions : Attachments(x)' \subseteq Attachments(x),
         \A x \in Sessions : x # s => session'[x] = session[x] /\ subs'[x] = subs[x],
         Open(s)' => /\ Open(s) /\ session'[s].scene = session[s].scene
                     /\ session'[s].out \in Seq(FramesOf({session[s].scene}))
                     /\ subs'[s] \in Pipe(FramesOf({session[s].scene}))
  PROVE  TableInv' /\ EraInv'
<1>1. ASSUME NEW x \in Sessions, Open(x)'
      PROVE  /\ Open(x) /\ session'[x].scene = session[x].scene
             /\ Attachments(x)' \subseteq Attachments(x) /\ OwnFrames(x)'
  <2>1. CASE x = s
    BY <1>1, <2>1 DEF OwnFrames, FramesOf
  <2>2. CASE x # s
    <3>1. Open(x) /\ session'[x] = session[x] /\ subs'[x] = subs[x]
      BY <1>1, <2>2 DEF Open
    <3>2. OwnFrames(x)
      BY <3>1, OpenFacts
    <3>. QED  BY <3>1, <3>2 DEF OwnFrames, FramesOf
  <2>. QED  BY <2>1, <2>2
<1>. QED  BY <1>1, WithinEra

LEMMA WriterGetEra ==
  ASSUME CPInv, NEW s \in Sessions, WriterGet(s), UNCHANGED <<tokens, history>>
  PROVE  TableInv' /\ EraInv'
<1>. DEFINE F == FramesOf({session[s].scene})
            q == subs[s].queue
<1>1. Open(s) /\ session[s].status \notin {"new", "over", "failed"}
  BY DEF WriterGet, Open
<1>2. session[s].out \in Seq(F) /\ subs[s] \in Pipe(F)
  BY <1>1, OpenFacts DEF OwnFrames
<1>3. q # <<>> /\ q \in Seq(F \cup {Sentinel})
  BY <1>2 DEF WriterGet, Pipe
<1>4. Head(q) \in F \cup {Sentinel} /\ Tail(q) \in Seq(F \cup {Sentinel})
  <2>. HIDE DEF F, q
  <2>. QED  BY <1>3
<1>5. /\ session \in [Sessions -> Session(Objects)]
      /\ session[s] \in Session(Objects)
      /\ subs \in [Sessions -> Pipe(FramesOf(Objects))]
  BY DEF CPInv, ServerInv, TypeInv
<1>6. UNCHANGED <<scenes, registry, active, resets>>
  BY DEF WriterGet, server
<1>7. Objects' = Objects /\ \A x \in Sessions : Attachments(x)' \subseteq Attachments(x)
  BY <1>6 DEF Objects, Attachments
<1>8. subs' = [subs EXCEPT ![s] = [subs[s] EXCEPT !.queue = Tail(q)]]
  BY DEF WriterGet
<1>9. subs'[s] \in Pipe(F) /\ \A x \in Sessions : x # s => subs'[x] = subs[x]
  BY <1>2, <1>4, <1>5, <1>8 DEF Pipe
<1>10. /\ session'[s].scene = session[s].scene
       /\ session'[s].out \in Seq(F)
       /\ \A x \in Sessions : x # s => session'[x] = session[x]
  <2>1. CASE Head(q) = Sentinel
    BY <1>2, <1>5, <2>1 DEF WriterGet, Session
  <2>2. CASE Head(q) # Sentinel
    <3>1. session' = [session EXCEPT ![s].out = <<Head(q)>>]
      BY <2>2 DEF WriterGet
    <3>2. <<Head(q)>> \in Seq(F)
      BY <1>4, <2>2
    <3>. QED  BY <1>5, <3>1, <3>2 DEF Session
  <2>. QED  BY <2>1, <2>2
<1>. QED  BY <1>1, <1>6, <1>7, <1>9, <1>10, OneSessionEra

(* A step of one session that sends nothing and reads from no scene.        *)
LEMMA QuietEra ==
  ASSUME CPInv, NEW s \in Sessions, Open(s), NEW status, NEW out,
         UNCHANGED <<server, subs, tokens, history>>,
         session' = [session EXCEPT ![s].status = status, ![s].out = out],
         out \in Seq(FramesOf({session[s].scene}))
  PROVE  TableInv' /\ EraInv'
<1>1. session \in [Sessions -> Session(Objects)] /\ session[s] \in Session(Objects)
  BY DEF CPInv, ServerInv, TypeInv
<1>2. /\ session'[s].scene = session[s].scene
      /\ session'[s].out = out
      /\ \A x \in Sessions : x # s => session'[x] = session[x]
  BY <1>1 DEF Session
<1>3. UNCHANGED <<scenes, registry, subs>>
  BY DEF server
<1>4. Objects' = Objects /\ \A x \in Sessions : Attachments(x)' \subseteq Attachments(x)
  BY <1>3 DEF Objects, Attachments
<1>5. subs'[s] \in Pipe(FramesOf({session[s].scene}))
  BY <1>3, OpenFacts DEF OwnFrames
<1>. QED  BY <1>2, <1>3, <1>4, <1>5, OneSessionEra

LEMMA SendFailsEra ==
  ASSUME CPInv, NEW s \in Sessions, SendFails(s), UNCHANGED <<tokens, history>>
  PROVE  TableInv' /\ EraInv'
<1>1. Open(s) /\ UNCHANGED <<server, subs>>
  BY DEF SendFails, Open
<1>2. PICK status : status = AfterWriter(session[s].status)
  OBVIOUS
<1>3. session' = [session EXCEPT ![s].status = status, ![s].out = <<>>]
  BY <1>2 DEF SendFails
<1>4. <<>> \in Seq(FramesOf({session[s].scene}))
  OBVIOUS
<1>. QED  BY <1>1, <1>3, <1>4, QuietEra

LEMMA StatusEra ==
  ASSUME CPInv, NEW s \in Sessions, PingOut(s) \/ ReaderEnds(s),
         UNCHANGED <<tokens, history>>
  PROVE  TableInv' /\ EraInv'
<1>1. Open(s) /\ UNCHANGED <<server, subs>>
  BY DEF PingOut, ReaderEnds, Open
<1>2. PICK out : out = session[s].out
  OBVIOUS
<1>3. out \in Seq(FramesOf({session[s].scene}))
  BY <1>1, <1>2, OpenFacts DEF OwnFrames
<1>4. /\ session \in [Sessions -> Session(Objects)]
      /\ session[s] \in [status : Statuses, scene : Objects \cup {NoScene},
                         out : Seq(FramesOf(Objects))]
  BY DEF CPInv, ServerInv, TypeInv, Session
<1>5. PICK status : session' = [session EXCEPT ![s] = [session[s] EXCEPT !.status = status]]
  BY DEF PingOut, ReaderEnds
<1>6. [session[s] EXCEPT !.status = status] =
        [session[s] EXCEPT !.status = status, !.out = out]
  BY <1>2, <1>4
<1>7. session' = [session EXCEPT ![s].status = status, ![s].out = out]
  BY <1>4, <1>5, <1>6
<1>. QED  BY <1>1, <1>3, <1>7, QuietEra

LEMMA ReceiveEra ==
  ASSUME CPInv, NEW s \in Sessions, Receive(s), UNCHANGED <<tokens, history>>
  PROVE  TableInv' /\ EraInv'
<1>1. Open(s) /\ UNCHANGED <<server, subs>> /\ session[s].out # <<>>
  BY DEF Receive, Open
<1>2. session[s].out \in Seq(FramesOf({session[s].scene}))
  BY <1>1, OpenFacts DEF OwnFrames
<1>3. PICK status : status = AfterSend(session[s].status, Tail(session[s].out))
  OBVIOUS
<1>4. PICK out : out = Tail(session[s].out)
  OBVIOUS
<1>5. out \in Seq(FramesOf({session[s].scene}))
  BY <1>1, <1>2, <1>4
<1>6. session[s] \in [status : Statuses, scene : Objects \cup {NoScene},
                      out : Seq(FramesOf(Objects))]
  BY DEF CPInv, ServerInv, TypeInv, Session
<1>7. session' = [session EXCEPT ![s] = [session[s] EXCEPT !.out = out, !.status = status]]
  BY <1>3, <1>4 DEF Receive
<1>8. session' = [session EXCEPT ![s].status = status, ![s].out = out]
  BY <1>6, <1>7
<1>. QED  BY <1>1, <1>5, <1>8, QuietEra

(* A session that ends, before or after it was open.                        *)
LEMMA EndedEra ==
  ASSUME CPInv, NEW s \in Sessions, NEW status \in {"over", "failed"},
         UNCHANGED <<registry, tokens, history>>, Objects' = Objects,
         \A x \in Sessions : Attachments(x)' \subseteq Attachments(x),
         session' = [session EXCEPT ![s] = Ended(status)],
         \A x \in Sessions : x # s => subs'[x] = subs[x]
  PROVE  TableInv' /\ EraInv'
<1>1. session'[s].status = status /\ \A x \in Sessions : x # s => session'[x] = session[x]
  BY DEF CPInv, ServerInv, TypeInv, Ended
<1>2. ~Open(s)'
  BY <1>1 DEF Open
<1>. QED  BY <1>1, <1>2, OneSessionEra

LEMMA FailOpeningEra ==
  ASSUME CPInv, NEW s \in Sessions, FailOpening(s), UNCHANGED <<tokens, history>>
  PROVE  TableInv' /\ EraInv'
<1>. DEFINE o == session[s].scene
            sc == Detached(scenes[o], s)
<1>1. TypeInv
  BY DEF CPInv, ServerInv
<1>2. o \in Objects
  BY SessionFacts DEF FailOpening, Ends, CPInv
<1>3. SceneFits(sc, o) /\ sc.subs = scenes[o].subs \ {s}
  BY <1>1, <1>2, SubsFits DEF TypeInv
<1>4. scenes' = [scenes EXCEPT ![o] = sc]
  BY DEF FailOpening
<1>. HIDE DEF sc
<1>5. /\ Objects' = Objects /\ scenes'[o] = sc
      /\ \A x \in Objects : x # o => scenes'[x] = scenes[x]
  BY <1>1, <1>2, <1>3, <1>4, OneScene
<1>6. \A x \in Sessions : Attachments(x)' \subseteq Attachments(x)
  BY <1>2, <1>3, <1>5 DEF Attachments
<1>7. \A x \in Sessions : x # s => subs'[x] = subs[x]
  BY <1>1 DEF FailOpening, TypeInv
<1>8. registry' = registry /\ session' = [session EXCEPT ![s] = Ended("failed")]
  BY DEF FailOpening
<1>. QED  BY <1>5, <1>6, <1>7, <1>8, EndedEra

LEMMA FinishEra ==
  ASSUME CPInv, NEW s \in Sessions, Finish(s), UNCHANGED <<tokens, history>>
  PROVE  TableInv' /\ EraInv'
<1>1. TypeInv
  BY DEF CPInv, ServerInv
<1>2. \A o \in Objects : Detached(scenes[o], s).subs = scenes[o].subs \ {s}
  BY <1>1, SubsFits DEF TypeInv
<1>3. /\ Objects' = Objects
      /\ \A o \in Objects : scenes'[o] = IF o \in Registered THEN Detached(scenes[o], s)
                                                             ELSE scenes[o]
  BY DEF Finish, Objects
<1>4. \A x \in Sessions : Attachments(x)' \subseteq Attachments(x)
  BY <1>2, <1>3 DEF Attachments
<1>5. \A x \in Sessions : x # s => subs'[x] = subs[x]
  BY <1>1 DEF Finish, TypeInv
<1>6. registry' = registry /\ session' = [session EXCEPT ![s] = Ended("over")]
  BY DEF Finish
<1>. QED  BY <1>3, <1>4, <1>5, <1>6, EndedEra

------------------------------------------------------------------------------
(* The scenes feed those they hold on to.                                   *)

(* An emission reaches the sessions opened on that very scene.              *)
LEMMA PublishOwn ==
  ASSUME CPInv, NEW o \in Objects, NEW patches \in Patches, Publish(o, patches)
  PROVE  /\ Objects' = Objects
         /\ \A s \in Sessions : Attachments(s)' = Attachments(s)
         /\ \A s \in Sessions : Open(s) =>
              subs'[s] \in Pipe(FramesOf({session[s].scene}))
<1>. DEFINE sc == Bare(Emitted(scenes[o], patches))
            delta == DeltaOf(sc, sc.replay[Len(sc.replay)])
            snap == SnapshotOf(sc)
<1>1. TypeInv /\ o \in SceneIds /\ SceneFits(scenes[o], o)
  BY DEF CPInv, ServerInv, TypeInv
<1>2. SceneFits(sc, o) /\ sc.subs = scenes[o].subs /\ sc.replay # <<>>
  BY <1>1, EmittedFits
<1>3. scenes' = [scenes EXCEPT ![o] = sc]
  BY DEF Publish
<1>4. delta \in FramesOf({o}) /\ snap \in FramesOf({o})
  <2>. HIDE DEF sc
  <2>1. sc.replay \in Seq(Record)
    BY <1>2 DEF SceneFits, SceneRecord
  <2>2. sc.replay[Len(sc.replay)] \in Record
    BY <1>2, <2>1
  <2>. QED  BY <1>1, <1>2, <2>2, FrameTypes
<1>. HIDE DEF sc
<1>5. /\ Objects' = Objects /\ scenes'[o] = sc
      /\ \A x \in Objects : x # o => scenes'[x] = scenes[x]
  BY <1>1, <1>2, <1>3, OneScene
<1>6. \A s \in Sessions : Attachments(s)' = Attachments(s)
  BY <1>2, <1>5 DEF Attachments
<1>7. subs' = [s \in DOMAIN subs |->
                 IF s \in sc.subs THEN SendDelta(subs[s], delta, snap) ELSE subs[s]]
  BY <1>5 DEF Publish, FanOut
<1>8. DOMAIN subs = Sessions
  BY <1>1 DEF TypeInv
<1>. HIDE DEF delta, snap
<1>9. ASSUME NEW s \in Sessions, Open(s)
      PROVE  subs'[s] \in Pipe(FramesOf({session[s].scene}))
  <2>1. SessionEra(s) /\ subs[s] \in Pipe(FramesOf({session[s].scene}))
    BY <1>9, OpenFacts DEF OwnFrames
  <2>2. CASE s \in sc.subs
    <3>1. o = session[s].scene
      BY <1>2, <2>1, <2>2 DEF SessionEra, Attachments
    <3>2. SendDelta(subs[s], delta, snap) \in Pipe(FramesOf({o}))
      BY <1>4, <2>1, <3>1, PipeOps
    <3>. QED  BY <1>7, <1>8, <2>2, <3>1, <3>2
  <2>3. CASE s \notin sc.subs
    BY <1>7, <1>8, <2>1, <2>3
  <2>. QED  BY <2>2, <2>3
<1>. QED  BY <1>5, <1>6, <1>9

LEMMA EmitActiveEra ==
  ASSUME CPInv, NEW patches \in Patches, EmitActive(patches)
  PROVE  CPInv'
<1>1. /\ ActiveScene # NoScene /\ Emit(ActiveScene, patches)
      /\ UNCHANGED <<tokens, history>>
  BY DEF EmitActive
<1>2. ActiveScene \in Objects
  BY <1>1 DEF ActiveScene, CPInv, ServerInv, TypeInv
<1>3. ServerInv'
  BY <1>1, <1>2, EmitInv DEF CPInv
<1>4. Publish(ActiveScene, patches) /\ UNCHANGED <<registry, session>>
  BY <1>1 DEF Emit
<1>5. /\ Objects' = Objects
      /\ \A s \in Sessions : Attachments(s)' = Attachments(s)
      /\ \A s \in Sessions : Open(s) =>
           subs'[s] \in Pipe(FramesOf({session[s].scene}))
  BY <1>2, <1>4, PublishOwn
<1>6. ASSUME NEW s \in Sessions, Open(s)'
      PROVE  /\ Open(s) /\ session'[s].scene = session[s].scene
             /\ Attachments(s)' \subseteq Attachments(s) /\ OwnFrames(s)'
  <2>1. Open(s) /\ session'[s] = session[s]
    BY <1>4, <1>6 DEF Open
  <2>2. session[s].out \in Seq(FramesOf({session[s].scene}))
    BY <2>1, OpenFacts DEF OwnFrames
  <2>. QED  BY <1>5, <2>1, <2>2 DEF OwnFrames, FramesOf
<1>. QED  BY <1>1, <1>3, <1>4, <1>5, <1>6, WithinEra DEF CPInv

LEMMA InputEra ==
  ASSUME CPInv, NEW s \in Sessions, NEW patches \in Patches, Input(s, patches),
         UNCHANGED <<tokens, history>>
  PROVE  TableInv' /\ EraInv'
<1>1. Open(s) /\ Publish(session[s].scene, patches) /\ registry' = registry
  BY DEF Input, Open
<1>2. /\ Objects' = Objects
      /\ \A x \in Sessions : Attachments(x)' = Attachments(x)
      /\ \A x \in Sessions : Open(x) =>
           subs'[x] \in Pipe(FramesOf({session[x].scene}))
  BY <1>1, OpenFacts, PublishOwn
<1>3. \A x \in Sessions : /\ session'[x].scene = session[x].scene
                          /\ session'[x].out = session[x].out
                          /\ Open(x)' => Open(x)
  <2>1. session[s] \in [status : Statuses, scene : Objects \cup {NoScene},
                        out : Seq(FramesOf(Objects))]
    BY DEF CPInv, ServerInv, TypeInv, Session
  <2>2. /\ DOMAIN session = Sessions
        /\ session' = [session EXCEPT ![s].status = IF @ = "silent" THEN "closing" ELSE @]
    BY DEF Input, CPInv, ServerInv, TypeInv
  <2>3. /\ session'[s].scene = session[s].scene
        /\ session'[s].out = session[s].out
        /\ \A x \in Sessions : x # s => session'[x] = session[x]
    BY <2>1, <2>2
  <2>. QED  BY <1>1, <2>3 DEF Open
<1>4. ASSUME NEW x \in Sessions, Open(x)'
      PROVE  /\ Open(x) /\ session'[x].scene = session[x].scene
             /\ Attachments(x)' \subseteq Attachments(x) /\ OwnFrames(x)'
  <2>1. Open(x)
    BY <1>3, <1>4
  <2>2. session[x].out \in Seq(FramesOf({session[x].scene}))
    BY <2>1, OpenFacts DEF OwnFrames
  <2>. QED  BY <1>2, <1>3, <2>1, <2>2 DEF OwnFrames, FramesOf
<1>. QED  BY <1>1, <1>2, <1>4, WithinEra

LEMMA RunResetEra ==
  ASSUME CPInv, NEW o \in Objects, RunReset(o), UNCHANGED <<tokens, history>>
  PROVE  TableInv' /\ EraInv'
<1>. DEFINE sc == Bare(Cleared(scenes[o]))
<1>1. TypeInv
  BY DEF CPInv, ServerInv
<1>2. SceneFits(sc, o) /\ sc.subs = {}
  BY <1>1, ClearedFits DEF TypeInv
<1>3. scenes' = [scenes EXCEPT ![o] = sc]
  BY DEF RunReset
<1>. HIDE DEF sc
<1>4. /\ Objects' = Objects /\ scenes'[o] = sc
      /\ \A x \in Objects : x # o => scenes'[x] = scenes[x]
  BY <1>1, <1>2, <1>3, OneScene
<1>5. \A s \in Sessions : Attachments(s)' \subseteq Attachments(s)
  BY <1>2, <1>4 DEF Attachments
<1>6. registry' = registry /\ session' = session
  BY DEF RunReset
<1>7. \A s \in Sessions : subs'[s] = subs[s] \/ subs'[s] = Close(subs[s])
  BY <1>1 DEF RunReset, CloseAll, TypeInv
<1>8. ASSUME NEW s \in Sessions, Open(s)'
      PROVE  /\ Open(s) /\ session'[s].scene = session[s].scene
             /\ Attachments(s)' \subseteq Attachments(s) /\ OwnFrames(s)'
  <2>. DEFINE F == FramesOf({session[s].scene})
  <2>1. Open(s) /\ session'[s] = session[s]
    BY <1>6, <1>8 DEF Open
  <2>2. session[s].out \in Seq(F) /\ subs[s] \in Pipe(F)
    BY <2>1, OpenFacts DEF OwnFrames
  <2>3. subs'[s] \in Pipe(F)
    BY <1>7, <2>2, CloseType
  <2>. QED  BY <1>5, <2>1, <2>2, <2>3 DEF OwnFrames, FramesOf
<1>. QED  BY <1>4, <1>6, <1>8, WithinEra

------------------------------------------------------------------------------
(* The handshake.                                                           *)

LEMMA AdmitEra ==
  ASSUME CPInv, NEW s \in Sessions, NEW t \in Tokens, NEW n \in Names \cup {NoName},
         NEW past \in Pasts, Admit(s, t, n, past)
  PROVE  CPInv'
<1>. DEFINE o == Resolve(n, tokens[t])
            out == InitialFrames(scenes[o], past.cur)
            sc == Attached(scenes[o], s)
            ses2 == [status |-> IF out = <<>> THEN "running" ELSE "opening",
                     scene |-> o, out |-> out]
            F == FramesOf({o})
<1>1. ServerInv /\ TypeInv /\ TableInv /\ EraInv
  BY DEF CPInv, ServerInv
<1>2. /\ Subscribe(s, n, tokens[t], past)
      /\ opened' = [opened EXCEPT ![s] = scenario]
      /\ holder' = [holder EXCEPT ![s] = <<t, tokens[t]>>]
      /\ UNCHANGED <<tokens, scenario, birth>>
  BY DEF Admit
<1>3. ServerInv'
  BY <1>1, <1>2, SubscribeInv
<1>4. /\ session[s].status = "new" /\ o # NoScene
      /\ scenes' = [scenes EXCEPT ![o] = sc]
      /\ subs' = [subs EXCEPT ![s] = NewSubscription(n = NoName)]
      /\ session' = [session EXCEPT ![s] = ses2]
      /\ registry' = registry
  BY <1>2 DEF Subscribe
<1>5. o \in Objects /\ o \in Registered
  BY <1>1, <1>4 DEF Resolve, ActiveScene, Registered, TypeInv
<1>6. o \in SceneIds /\ SceneFits(scenes[o], o) /\ past.cur \in Nat
  BY <1>1, <1>5, PastTypes DEF TypeInv
<1>7. out \in Seq(F)
  <2>1. {o} \subseteq SceneIds
    BY <1>6
  <2>. HIDE DEF o
  <2>. QED  BY <1>6, <2>1, InitialFramesType
<1>8. NewSubscription(n = NoName) \in Pipe(F)
  <2>. HIDE DEF F
  <2>. QED  BY NewSubscriptionType
<1>9. SceneFits(sc, o) /\ sc.subs = scenes[o].subs \cup {s}
  BY <1>6, SubsFits
<1>10. ses2.scene = o /\ ses2.out = out
  OBVIOUS
<1>. HIDE DEF o, out, sc, ses2, F
<1>11. /\ Objects' = Objects /\ scenes'[o] = sc
       /\ \A x \in Objects : x # o => scenes'[x] = scenes[x]
  BY <1>1, <1>4, <1>5, <1>9, OneScene
<1>12. Attachments(s) = {}
  BY <1>1, <1>4 DEF ServerInv, OwnerInv
<1>13. Attachments(s)' \subseteq {o} /\ \A x : x # s => Attachments(x)' = Attachments(x)
  BY <1>5, <1>9, <1>11, <1>12 DEF Attachments
<1>14. Registered' = Registered
  BY <1>4 DEF Registered
<1>15. /\ session'[s] = ses2 /\ subs'[s] = NewSubscription(n = NoName)
       /\ opened'[s] = scenario /\ opened' \in [Sessions -> 0..scenario]
       /\ \A x \in Sessions : x # s => /\ session'[x] = session[x]
                                       /\ subs'[x] = subs[x]
                                       /\ opened'[x] = opened[x]
  BY <1>1, <1>2, <1>4, MaxScenarioAssumption DEF TypeInv, TableInv
<1>16. TableInv'
  BY <1>1, <1>2, <1>11, <1>15 DEF TableInv
<1>17. ASSUME NEW x \in Sessions, Open(x)'  PROVE SessionEra(x)'
  <2>1. CASE x = s
    <3>1. birth[o] = scenario
      BY <1>1, <1>5 DEF EraInv
    <3>2. OwnFrames(s)'
      BY <1>7, <1>8, <1>10, <1>15 DEF OwnFrames, FramesOf, F
    <3>3. holder'[s] = <<t, tokens[t]>>
      BY <1>1, <1>2 DEF TableInv
    <3>. QED  BY <1>2, <1>10, <1>13, <1>15, <2>1, <3>1, <3>2, <3>3 DEF SessionEra
  <2>2. CASE x # s
    <3>1. Open(x) /\ session'[x] = session[x] /\ subs'[x] = subs[x]
      BY <1>15, <1>17, <2>2 DEF Open
    <3>2. SessionEra(x) /\ OwnFrames(x)
      BY <3>1, OpenFacts
    <3>3. OwnFrames(x)'
      BY <3>1, <3>2 DEF OwnFrames, FramesOf
    <3>4. holder'[x] = holder[x]
      BY <1>2, <2>2
    <3>. QED  BY <1>2, <1>13, <1>14, <1>15, <2>2, <3>1, <3>2, <3>3, <3>4 DEF SessionEra
  <2>. QED  BY <2>1, <2>2
<1>18. EraInv'
  BY <1>1, <1>2, <1>14, <1>17 DEF EraInv
<1>. QED  BY <1>3, <1>16, <1>18 DEF CPInv

LEMMA RejectEra ==
  ASSUME CPInv, NEW s \in Sessions, NEW t, NEW n, Reject(s, t, n)
  PROVE  CPInv'
<1>1. /\ session[s].status = "new"
      /\ session' = [session EXCEPT ![s] = Ended("over")]
      /\ UNCHANGED <<server, subs, viewer, tokens, history>>
  BY DEF Reject
<1>2. ServerInv'
  BY <1>1, RefusedInv DEF CPInv
<1>3. UNCHANGED <<scenes, registry>> /\ Objects' = Objects
      /\ \A x \in Sessions : Attachments(x)' \subseteq Attachments(x)
  BY <1>1 DEF server, Objects, Attachments
<1>. QED  BY <1>1, <1>2, <1>3, EndedEra DEF CPInv

------------------------------------------------------------------------------
(* The endpoints that begin a scenario.                                     *)

LEMMA ResetEra ==
  ASSUME CPInv, Reset
  PROVE  CPInv'
<1>1. ServerInv /\ TypeInv /\ TableInv
  BY DEF CPInv, ServerInv
<1>2. /\ scenario < MaxScenario /\ scenario' = scenario + 1
      /\ tokens' = NoTokens /\ UNCHANGED <<birth, opened, holder>>
  BY DEF Reset
<1>3. tokens' \in TokenTables
  BY <1>2 DEF NoTokens, TokenTables
<1>4. /\ ServerInv' /\ Objects' = Objects /\ Registered' = {} /\ session' = session
      /\ \A s \in Sessions :
           /\ Attachments(s)' \subseteq Attachments(s)
           /\ subs'[s] = subs[s] \/ subs'[s] = Close(subs[s])
  <2>1. CASE Registered = {}
    <3>1. UNCHANGED vars
      BY <2>1 DEF Reset
    <3>2. UNCHANGED <<scenes, registry, session, subs>>
      BY <3>1 DEF vars
    <3>. QED  BY <1>1, <2>1, <3>1, <3>2, StutterInv DEF Objects, Registered, Attachments
  <2>2. CASE Registered # {}
    <3>1. ResetAll
      BY <2>2 DEF Reset
    <3>2. ServerInv'
      BY <1>1, <3>1, ResetAllInv
    <3>3. /\ registry' = [n \in Names |-> NoScene]
          /\ Objects' = Objects
          /\ session' = session
          /\ \A o \in Objects : scenes'[o] = IF o \in Registered THEN Bare(Cleared(scenes[o]))
                                                                 ELSE scenes[o]
          /\ \A s \in Sessions : subs'[s] = subs[s] \/ subs'[s] = Close(subs[s])
      BY <3>1 DEF ResetAll, Objects
    <3>4. \A o \in Objects : Bare(Cleared(scenes[o])).subs = {}
      BY <1>1, ClearedFits DEF TypeInv
    <3>5. \A s \in Sessions : Attachments(s)' \subseteq Attachments(s)
      BY <3>3, <3>4 DEF Attachments
    <3>6. Registered' = {}
      BY <3>3 DEF Registered
    <3>. QED  BY <3>2, <3>3, <3>5, <3>6
  <2>. QED  BY <2>1, <2>2
<1>5. birth' \in [Objects' -> 1..scenario']
  BY <1>1, <1>2, <1>4, MaxScenarioAssumption DEF TableInv
<1>6. TableInv' /\ EraInv'
  BY <1>2, <1>3, <1>4, <1>5, NextEra
<1>. QED  BY <1>4, <1>6 DEF CPInv

LEMMA Greatest ==
  ASSUME NEW k \in Nat, NEW T, T \subseteq 1..k, T # {}
  PROVE  \E x \in T : \A y \in T : y <= x
<1>. DEFINE U == {k - x : x \in T}
<1>1. U \subseteq Nat /\ U # {}
  <2>1. \A x \in T : k - x \in Nat
    OBVIOUS
  <2>2. U \subseteq Nat
    BY <2>1
  <2>. QED  BY <2>2
<1>2. PICK u \in U : \A v \in U : u <= v
  <2>. HIDE DEF U
  <2>. QED  BY <1>1, LeastNatural
<1>3. PICK x \in T : u = k - x
  OBVIOUS
<1>4. ASSUME NEW y \in T  PROVE y <= x
  <2>1. k - x <= k - y
    BY <1>2, <1>3
  <2>. QED  BY <2>1
<1>. QED  BY <1>4

(* What a list of bundles registers: which of its places, and for a name    *)
(* the last place that bears it.                                            *)
Bearers(bundles, n) == {i \in Kept(bundles) : bundles[i] = n}

LastBearer(bundles, n) ==
  CHOOSE i \in Bearers(bundles, n) : \A j \in Bearers(bundles, n) : j <= i

LEMMA BundleFacts ==
  ASSUME NEW bundles \in BundleLists
  PROVE  /\ Kept(bundles) \subseteq 1..Len(bundles) /\ Len(bundles) \in Nat
         /\ \A i \in Kept(bundles) : bundles[i] \in Names
         /\ Kept(bundles) # {} => 1 \in Kept(bundles)
         /\ \A n : Bearers(bundles, n) # {} =>
              /\ LastBearer(bundles, n) \in Kept(bundles)
              /\ bundles[LastBearer(bundles, n)] = n
<1>1. PICK k \in 1..MaxBundles : bundles \in [1..k -> Names \cup {BadBundle}]
  BY DEF BundleLists
<1>2. k \in Nat /\ 1 <= k /\ Len(bundles) = k
  BY <1>1
<1>3. Kept(bundles) \subseteq 1..k /\ \A i \in Kept(bundles) : bundles[i] \in Names
  BY <1>1, <1>2 DEF Kept
<1>4. Kept(bundles) # {} => 1 \in Kept(bundles)
  BY <1>1, <1>2 DEF Kept
<1>5. ASSUME NEW n, Bearers(bundles, n) # {}
      PROVE  LastBearer(bundles, n) \in Bearers(bundles, n)
  <2>1. Bearers(bundles, n) \subseteq 1..k
    BY <1>3 DEF Bearers
  <2>2. \E i \in Bearers(bundles, n) : \A j \in Bearers(bundles, n) : j <= i
    BY <1>2, <1>5, <2>1, Greatest
  <2>. QED  BY <2>2 DEF LastBearer
<1>. QED  BY <1>2, <1>3, <1>4, <1>5 DEF Bearers

(* A setup, said of the state before and after it.                          *)
SetupStep(bundles, made) ==
  LET kept == Kept(bundles)
      new  == {made[i] : i \in kept}
  IN  /\ scenes' = [o \in Objects \cup new |->
                      IF o \in new THEN Bare(NewScene(o)) ELSE AfterReset(o)]
      /\ registry' = [n \in Names |-> IF Bearers(bundles, n) = {} THEN NoScene
                                      ELSE made[LastBearer(bundles, n)]]
      /\ active' = IF kept = {} THEN NoName ELSE bundles[1]
      /\ resets' = resets \cup {made[i] : i \in {j \in kept : j # LastBearer(bundles, bundles[j])}}
      /\ subs' = [s \in Sessions |-> IF s \in Dropped THEN Close(subs[s]) ELSE subs[s]]
      /\ scenario' = scenario + 1
      /\ birth' = [o \in Objects \cup new |-> IF o \in new THEN scenario' ELSE birth[o]]

LEMMA SetupPicks ==
  ASSUME NEW bundles, NEW table, Setup(bundles, table)
  PROVE  /\ scenario < MaxScenario /\ tokens' = table
         /\ UNCHANGED <<session, viewer, opened, holder>>
         /\ \E made \in [Kept(bundles) -> SceneIds \ Objects] :
              /\ \A i, j \in Kept(bundles) : made[i] = made[j] => i = j
              /\ SetupStep(bundles, made)
BY DEF Setup, SetupStep, Bearers, LastBearer, AfterClear

(* What the objects are afterwards, and who is attached to them.            *)
ScenesSetUp(new) ==
  /\ Objects' = Objects \cup new
  /\ new \subseteq SceneIds \ Objects
  /\ \A o \in Objects' : SceneFits(scenes'[o], o)
  /\ \A s : Attachments(s)' = Attachments(s) \ Registered
  /\ Registered' \subseteq new

LEMMA SetupScenes ==
  ASSUME CPInv, NEW bundles \in BundleLists,
         NEW made \in [Kept(bundles) -> SceneIds \ Objects], SetupStep(bundles, made),
         NEW new, new = {made[i] : i \in Kept(bundles)}
  PROVE  ScenesSetUp(new)
<1>1. TypeInv
  BY DEF CPInv, ServerInv
<1>2. new \subseteq SceneIds \ Objects
  OBVIOUS
<1>3. scenes' = [o \in Objects \cup new |->
                   IF o \in new THEN Bare(NewScene(o)) ELSE AfterReset(o)]
  BY DEF SetupStep
<1>4. /\ Objects' = Objects \cup new
      /\ \A o \in new : scenes'[o] = Bare(NewScene(o))
      /\ \A o \in Objects : scenes'[o] = AfterReset(o)
  BY <1>2, <1>3 DEF Objects
<1>5. \A o \in new : SceneFits(scenes'[o], o) /\ scenes'[o].subs = {}
  BY <1>2, <1>4, NewSceneFits
<1>6. \A o \in Objects : /\ SceneFits(scenes'[o], o)
                         /\ o \in Registered => scenes'[o].subs = {}
                         /\ o \notin Registered => scenes'[o] = scenes[o]
  BY <1>1, <1>4, ClearedFits DEF AfterReset, TypeInv
<1>7. \A s : Attachments(s)' = Attachments(s) \ Registered
  BY <1>2, <1>4, <1>5, <1>6 DEF Attachments
<1>8. Registered' \subseteq new
  <2>1. \A n \in Names : registry'[n] # NoScene =>
          /\ Bearers(bundles, n) # {}
          /\ registry'[n] = made[LastBearer(bundles, n)]
    BY DEF SetupStep
  <2>2. \A n \in Names : registry'[n] # NoScene => registry'[n] \in new
    BY <2>1, BundleFacts
  <2>. QED  BY <2>2 DEF Registered
<1>. QED  BY <1>2, <1>4, <1>5, <1>6, <1>7, <1>8 DEF ScenesSetUp

(* The registry afterwards: names share no object, and what a later bundle  *)
(* replaced waits for its reset.                                            *)
LEMMA SetupRegistry ==
  ASSUME CPInv, NEW bundles \in BundleLists,
         NEW made \in [Kept(bundles) -> SceneIds \ Objects], SetupStep(bundles, made),
         \A i, j \in Kept(bundles) : made[i] = made[j] => i = j
  PROVE  RegistryInv'
<1>1. Objects \subseteq SceneIds /\ resets \subseteq Objects
  BY DEF CPInv, ServerInv, TypeInv
<1>2. \A n \in Names : registry'[n] # NoScene =>
        /\ LastBearer(bundles, n) \in Kept(bundles)
        /\ bundles[LastBearer(bundles, n)] = n
        /\ registry'[n] = made[LastBearer(bundles, n)]
  BY BundleFacts DEF SetupStep
<1>3. ASSUME active' # NoName  PROVE registry'[active'] # NoScene
  <2>1. Kept(bundles) # {} /\ active' = bundles[1]
    BY <1>3 DEF SetupStep
  <2>2. 1 \in Kept(bundles) /\ bundles[1] \in Names
    BY <2>1, BundleFacts
  <2>3. Bearers(bundles, bundles[1]) # {}
    BY <2>2 DEF Bearers
  <2>4. /\ registry'[active'] = made[LastBearer(bundles, bundles[1])]
        /\ LastBearer(bundles, bundles[1]) \in Kept(bundles)
    BY <2>1, <2>2, <2>3, BundleFacts DEF SetupStep
  <2>. QED  BY <2>4, NoSceneAssumption
<1>4. \A m, n \in Names : registry'[m] = registry'[n] /\ registry'[m] # NoScene => m = n
  BY <1>2
<1>5. resets' \cap Registered' = {}
  <2>. SUFFICES ASSUME NEW o \in resets', NEW n \in Names, registry'[n] = o, o # NoScene
                PROVE  FALSE
    BY DEF Registered
  <2>. DEFINE last == LastBearer(bundles, n)
  <2>1. last \in Kept(bundles) /\ bundles[last] = n /\ o = made[last]
    BY <1>2
  <2>2. o \notin resets
    BY <1>1, <2>1
  <2>3. PICK j \in Kept(bundles) : o = made[j] /\ j # LastBearer(bundles, bundles[j])
    BY <2>2 DEF SetupStep
  <2>4. j = last
    BY <2>1, <2>3
  <2>. QED  BY <2>1, <2>3, <2>4
<1>. QED  BY <1>3, <1>4, <1>5 DEF RegistryInv

LEMMA SetupServer ==
  ASSUME CPInv, NEW bundles \in BundleLists,
         NEW made \in [Kept(bundles) -> SceneIds \ Objects], SetupStep(bundles, made),
         \A i, j \in Kept(bundles) : made[i] = made[j] => i = j,
         UNCHANGED <<session, viewer>>
  PROVE  ServerInv'
<1>1. TypeInv /\ RegistryInv /\ OwnerInv
  BY DEF CPInv, ServerInv
<1>2. PICK new : new = {made[i] : i \in Kept(bundles)}
  OBVIOUS
<1>3. /\ Objects' = Objects \cup new
      /\ new \subseteq SceneIds \ Objects
      /\ \A o \in Objects' : SceneFits(scenes'[o], o)
      /\ \A s : Attachments(s)' = Attachments(s) \ Registered
      /\ Registered' \subseteq new
  <2>1. ScenesSetUp(new)
    BY <1>2, SetupScenes
  <2>. QED  BY <2>1 DEF ScenesSetUp
<1>4. RegistryInv'
  BY SetupRegistry
<1>5. /\ resets \subseteq resets'
      /\ resets' \subseteq resets \cup new
      /\ subs' = [s \in Sessions |-> IF s \in Dropped THEN Close(subs[s]) ELSE subs[s]]
  BY <1>2 DEF SetupStep
<1>6. /\ \A s \in Sessions : /\ subs[s] \in Pipe(FramesOf(Objects'))
                             /\ Close(subs[s]) \in Pipe(FramesOf(Objects'))
                             /\ Close(subs[s]).live = subs[s].live
                             /\ Close(subs[s]).closed
      /\ session' \in [Sessions -> Session(Objects')]
      /\ viewer' \in [Sessions -> Viewer(Objects')]
  <2>1. /\ subs \in [Sessions -> Pipe(FramesOf(Objects'))]
        /\ session \in [Sessions -> Session(Objects')]
        /\ viewer \in [Sessions -> Viewer(Objects')]
    BY <1>1, <1>3, MoreObjects DEF TypeInv
  <2>. QED  BY <2>1, ClosePipe
<1>7. /\ subs' \in [Sessions -> Pipe(FramesOf(Objects'))]
      /\ SameFlags(subs, subs')
      /\ \A s \in Sessions : Attachments(s) \cap Registered # {} => subs'[s].closed
  <2>1. \A s \in Sessions : Attachments(s) \cap Registered # {} => s \in Dropped
    BY DEF Attachments, Dropped
  <2>. QED  BY <1>5, <1>6, <2>1 DEF SameFlags
<1>8. registry' \in [Names -> Objects' \cup {NoScene}] /\ active' \in Names \cup {NoName}
  <2>1. registry' = [n \in Names |-> IF Bearers(bundles, n) = {} THEN NoScene
                                     ELSE made[LastBearer(bundles, n)]]
    BY DEF SetupStep
  <2>2. \A n \in Names : Bearers(bundles, n) # {} => made[LastBearer(bundles, n)] \in new
    BY <1>2, BundleFacts
  <2>3. active' \in Names \cup {NoName}
    BY BundleFacts DEF SetupStep
  <2>. QED  BY <1>3, <2>1, <2>2, <2>3
<1>9. TypeInv'
  BY <1>1, <1>3, <1>5, <1>6, <1>7, <1>8 DEF TypeInv
<1>10. \A s : Attachments(s) \subseteq Registered \cup resets
  BY <1>1 DEF OwnerInv, Attachments
<1>11. OwnerInv'
  <2>1. ASSUME NEW o \in Objects', scenes'[o].subs # {}  PROVE o \in resets'
    <3>1. scenes'[o].subs \subseteq Sessions
      BY <1>3 DEF SceneFits, SceneRecord
    <3>2. PICK s \in Sessions : o \in Attachments(s)'
      BY <2>1, <3>1 DEF Attachments
    <3>. QED  BY <1>3, <1>5, <1>10, <3>2
  <2>2. \A s \in Sessions : \A x, y \in Attachments(s)' : x = y
    BY <1>1, <1>3 DEF OwnerInv
  <2>3. ASSUME NEW s \in Sessions, NEW x \in Attachments(s)'
        PROVE  session'[s].status # "new" /\ x \in resets'
    BY <1>1, <1>3, <1>5, <1>10 DEF OwnerInv
  <2>4. ASSUME NEW s \in Sessions, Open(s)', ~subs'[s].closed  PROVE Attachments(s)' # {}
    <3>1. Open(s) /\ ~subs[s].closed
      BY <1>7, <2>4 DEF Open, SameFlags
    <3>. QED  BY <1>1, <1>3, <1>7, <2>4, <3>1 DEF OwnerInv
  <2>. QED  BY <2>1, <2>2, <2>3, <2>4 DEF OwnerInv
<1>. QED  BY <1>4, <1>9, <1>11 DEF ServerInv

LEMMA SetupEra ==
  ASSUME CPInv, NEW bundles \in BundleLists, NEW table \in TokenTables,
         Setup(bundles, table)
  PROVE  CPInv'
<1>1. TypeInv /\ TableInv
  BY DEF CPInv, ServerInv
<1>2. PICK made \in [Kept(bundles) -> SceneIds \ Objects] :
        /\ \A i, j \in Kept(bundles) : made[i] = made[j] => i = j
        /\ SetupStep(bundles, made)
  BY SetupPicks
<1>3. /\ scenario < MaxScenario /\ tokens' = table
      /\ UNCHANGED <<session, viewer, opened, holder>>
  BY SetupPicks
<1>4. ServerInv'
  BY <1>2, <1>3, SetupServer
<1>5. PICK new : new = {made[i] : i \in Kept(bundles)}
  OBVIOUS
<1>6. /\ Objects' = Objects \cup new
      /\ new \subseteq SceneIds \ Objects
      /\ \A s : Attachments(s)' = Attachments(s) \ Registered
      /\ Registered' \subseteq new
  <2>1. ScenesSetUp(new)
    BY <1>2, <1>5, SetupScenes
  <2>. QED  BY <2>1 DEF ScenesSetUp
<1>7. /\ scenario' = scenario + 1
      /\ birth' = [o \in Objects \cup new |-> IF o \in new THEN scenario' ELSE birth[o]]
      /\ \A s \in Sessions : subs'[s] = subs[s] \/ subs'[s] = Close(subs[s])
  BY <1>2, <1>5 DEF SetupStep
<1>8. /\ birth' \in [Objects' -> 1..scenario']
      /\ \A o \in Objects : birth'[o] = birth[o]
      /\ \A o \in Registered' : birth'[o] = scenario'
  BY <1>1, <1>6, <1>7, MaxScenarioAssumption DEF TableInv
<1>9. Registered' \cap Objects = {} /\ Objects \subseteq Objects'
  BY <1>6
<1>10. TableInv' /\ EraInv'
  BY <1>3, <1>6, <1>7, <1>8, <1>9, NextEra
<1>. QED  BY <1>4, <1>10 DEF CPInv

------------------------------------------------------------------------------
(* The invariant is inductive.                                              *)

LEMMA SessionStepInv ==
  ASSUME CPInv, NEW s \in Sessions, SessionStep(s)
  PROVE  CPInv'
<1>1. ServerInv /\ UNCHANGED <<tokens, history>>
  BY DEF CPInv, SessionStep
<1>2. CASE FailOpening(s)
  BY <1>1, <1>2, FailOpeningInv, FailOpeningEra DEF CPInv
<1>3. CASE WriterGet(s)
  BY <1>1, <1>3, WriterGetInv, WriterGetEra DEF CPInv
<1>4. CASE SendFails(s)
  BY <1>1, <1>4, SendFailsInv, SendFailsEra DEF CPInv
<1>5. CASE PingOut(s) \/ ReaderEnds(s)
  BY <1>1, <1>5, PingOutInv, ReaderEndsInv, StatusEra DEF CPInv
<1>6. CASE Finish(s)
  BY <1>1, <1>6, FinishInv, FinishEra DEF CPInv
<1>7. CASE Receive(s)
  BY <1>1, <1>7, ReceiveInv, ReceiveEra DEF CPInv
<1>8. CASE \E patches \in Patches : Input(s, patches)
  BY <1>1, <1>8, InputInv, InputEra DEF CPInv
<1>. QED  BY <1>2, <1>3, <1>4, <1>5, <1>6, <1>7, <1>8 DEF SessionStep

LEMMA CPStutter ==
  ASSUME CPInv, UNCHANGED allVars
  PROVE  CPInv'
<1>1. UNCHANGED vars /\ UNCHANGED <<tokens, history>>
  BY DEF allVars
<1>2. ServerInv'
  BY <1>1, StutterInv DEF CPInv
<1>3. UNCHANGED <<scenes, registry, session, subs>>
  BY <1>1 DEF vars
<1>4. Objects' = Objects
  BY <1>3 DEF Objects
<1>5. ASSUME NEW s \in Sessions, Open(s)'
      PROVE  /\ Open(s) /\ session'[s].scene = session[s].scene
             /\ Attachments(s)' \subseteq Attachments(s) /\ OwnFrames(s)'
  <2>1. Open(s)
    BY <1>3, <1>5 DEF Open
  <2>2. OwnFrames(s)
    BY <2>1, OpenFacts
  <2>. QED  BY <1>3, <2>1, <2>2 DEF Attachments, Objects, OwnFrames, FramesOf
<1>6. TableInv' /\ EraInv'
  BY <1>1, <1>3, <1>4, <1>5, WithinEra
<1>. QED  BY <1>2, <1>6 DEF CPInv

LEMMA CPNextInv ==
  ASSUME CPInv, [CPNext]_allVars
  PROVE  CPInv'
<1>1. CASE \E bundles \in BundleLists, table \in TokenTables : Setup(bundles, table)
  BY <1>1, SetupEra
<1>2. CASE Reset
  BY <1>2, ResetEra
<1>3. CASE \E patches \in Patches : EmitActive(patches)
  BY <1>3, EmitActiveEra
<1>4. CASE \E o \in Objects : RunReset(o) /\ UNCHANGED <<tokens, history>>
  BY <1>4, RunResetInv, RunResetEra DEF CPInv
<1>5. CASE \E s \in Sessions : SessionStep(s)
  BY <1>5, SessionStepInv
<1>6. CASE \E s \in Sessions : \E t \in Tokens, n \in Names \cup {NoName} : Reject(s, t, n)
  BY <1>6, RejectEra
<1>7. CASE \E s \in Sessions : \E t \in Tokens, n \in Names \cup {NoName} :
             \E past \in Pasts : Admit(s, t, n, past)
  BY <1>7, AdmitEra
<1>8. CASE UNCHANGED allVars
  BY <1>8, CPStutter
<1>. QED  BY <1>1, <1>2, <1>3, <1>4, <1>5, <1>6, <1>7, <1>8 DEF CPNext

------------------------------------------------------------------------------
(* The theorems.                                                            *)

(* The server, the tokens and the history of their scenarios keep in step,  *)
(* whatever is set up, reset and emitted around any number of sessions.     *)
THEOREM CPInvariance == CPSpec => []CPInv
<1>1. CPInit => CPInv
  BY CPInitInv
<1>2. CPInv /\ [CPNext]_allVars => CPInv'
  BY CPNextInv
<1>. QED  BY <1>1, <1>2, PTL DEF CPSpec

(* The server's variables, the token table and the history have the types   *)
(* their annotations state.                                                 *)
THEOREM CPTypes == CPSpec => []CPTypeOK
<1>1. CPInv => CPTypeOK
  <2>. SUFFICES ASSUME CPInv  PROVE CPTypeOK
    OBVIOUS
  <2>1. TypeOK
    BY TypeInvTypes DEF CPInv, ServerInv
  <2>2. 1..scenario \subseteq 1..MaxScenario /\ 0..scenario \subseteq 0..MaxScenario
    BY MaxScenarioAssumption DEF CPInv, TableInv
  <2>. QED  BY <2>1, <2>2 DEF CPInv, TableInv, CPTypeOK
<1>. QED  BY <1>1, CPInvariance, PTL

(* A session of an earlier scenario is in no scene but one a replaced       *)
(* bundle left to its reset (control_plane.py, setup and reset).            *)
THEOREM OldAreDetachedHolds == CPSpec => []OldAreDetached
<1>1. CPInv => OldAreDetached
  <2>. SUFFICES ASSUME CPInv, NEW s \in Sessions, Open(s), opened[s] # scenario,
                       NEW o \in Attachments(s)
                PROVE  o \in resets
    BY DEF OldAreDetached, Stale
  <2>1. o = session[s].scene /\ birth[o] # scenario
    BY OpenFacts DEF SessionEra
  <2>2. o \notin Registered
    BY <2>1 DEF CPInv, EraInv
  <2>. QED  BY <2>2 DEF CPInv, ServerInv, OwnerInv, Attachments
<1>. QED  BY <1>1, CPInvariance, PTL

(* Whatever is queued or in the writer's hands, and the scene an input goes *)
(* to, is of the scenario the session was opened in.                        *)
THEOREM IsolatedHolds == CPSpec => []Isolated
<1>1. CPInv => Isolated
  <2>. SUFFICES ASSUME CPInv, NEW s \in Sessions, Open(s)
                PROVE  LET frames == session[s].out \o subs[s].queue
                       IN  /\ birth[session[s].scene] = opened[s]
                           /\ \A i \in 1..Len(frames) :
                                frames[i] # Sentinel => birth[frames[i].scene] = opened[s]
    BY DEF Isolated
  <2>. DEFINE F == FramesOf({session[s].scene})
              frames == session[s].out \o subs[s].queue
  <2>1. SessionEra(s) /\ session[s].out \in Seq(F) /\ subs[s].queue \in Seq(F \cup {Sentinel})
    BY OpenFacts DEF OwnFrames, Pipe
  <2>2. frames \in Seq(F \cup {Sentinel})
    <3>. HIDE DEF F
    <3>1. session[s].out \in Seq(F \cup {Sentinel})
      BY <2>1
    <3>. QED  BY <2>1, <3>1
  <2>3. ASSUME NEW i \in 1..Len(frames), frames[i] # Sentinel
        PROVE  birth[frames[i].scene] = opened[s]
    <3>1. frames[i] \in F \cup {Sentinel}
      <4>. HIDE DEF F, frames
      <4>. QED  BY <2>2
    <3>2. frames[i].scene = session[s].scene
      BY <2>3, <3>1 DEF FramesOf
    <3>. QED  BY <2>1, <3>2 DEF SessionEra
  <2>. QED  BY <2>1, <2>3 DEF SessionEra
<1>. QED  BY <1>1, CPInvariance, PTL

(* Who is fed by a registered scene, or can write into one, has a token the *)
(* table holds now, in the role it has there.                               *)
THEOREM AuthorisedHolds == CPSpec => []Authorised
<1>1. CPInv => Authorised
  BY OpenFacts DEF Authorised, SessionEra
<1>. QED  BY <1>1, CPInvariance, PTL

==============================================================================
