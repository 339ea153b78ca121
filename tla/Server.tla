-------------------------------- MODULE Server --------------------------------
(****************************************************************************)
(* The registry of server/server.py and the sessions of ws_handler.py.      *)
(*                                                                          *)
(* Scenes are objects: registering a name again makes a new one, and the    *)
(* object it replaces lives on until the task that resets it has run.  The  *)
(* field id of a scene and the field scene of a frame stand for the object, *)
(* where the wire carries the name it was registered under.                 *)
(*                                                                          *)
(* A session is one WebSocket: its Subscription, the scene object that      *)
(* handle_ws resolved once and its reader uses from then on, and the        *)
(* receiver at the other end.  A receiver that comes back is another        *)
(* session, whose viewer starts from a state and a number it got before.    *)
(****************************************************************************)
EXTENDS Scene, FiniteSets

CONSTANTS Names,        \* the ids scenes are registered under
          NoScene,      \* no scene: an unregistered name, an empty viewer
          NoName,       \* no name: nothing active; a Subscribe without scene
          Sessions,
          MaxSeq        \* bound: the numbers emissions may take

ASSUME NoSceneAssumption == NoScene \notin SceneIds
ASSUME NoNameAssumption == NoName \notin Names
ASSUME MaxSeqAssumption == MaxSeq \in Nat

VARIABLES scenes,       \* [objects made so far -> scene]
          registry,     \* [Names -> object or NoScene], Server._scenes
          active,       \* Server._active
          resets,       \* objects whose reset is a task that has not run
          subs,         \* [Sessions -> pipe]
          session,      \* [Sessions -> [status, scene, out]]
          viewer        \* [Sessions -> [scene, cur, open, past]]

server == <<scenes, registry, active, resets>>
vars == <<scenes, registry, active, resets, subs, session, viewer>>

(* status  "new"                                                            *)
(*         "opening"  handle_ws sends the first frames                      *)
(*         "running"  reader and writer run                                 *)
(*         "silent"   the writer has returned, the reader waits             *)
(*         "gone"     the reader has returned, the writer has not           *)
(*         "closing"  both have; gather is about to return                  *)
(*         "over"     or "failed", when a first frame could not be sent     *)
(* A viewer shows the scene of the last snapshot it got, has a tracker, and *)
(* is open until a gap.                                                     *)
(* past    history: "none" once this session has sent it a snapshot, else   *)
(*         "same" or "other", as the scene it shows from an earlier session *)
(*         is the one it has resumed on or not                              *)
Statuses == {"new", "opening", "running", "silent", "gone", "closing", "over", "failed"}

Objects == DOMAIN scenes

(* SceneStream is about what a frame says; here only who gets which frame   *)
(* counts, and neither the state of a scene nor its history is kept.        *)
Bare(sc) == [sc EXCEPT !.log = <<>>, !.store = Blank]

Registered == {registry[n] : n \in Names} \ {NoScene}

ActiveScene == IF active = NoName THEN NoScene ELSE registry[active]

Ended(status) == [status |-> status, scene |-> NoScene, out |-> <<>>]

NoViewer == [scene |-> NoScene, cur |-> Fresh, open |-> FALSE, past |-> "none"]

Init ==
  /\ scenes = [o \in {} |-> NoScene]
  /\ registry = [n \in Names |-> NoScene]
  /\ active = NoName
  /\ resets = {}
  /\ subs = [s \in Sessions |-> NewSubscription(FALSE)]
  /\ session = [s \in Sessions |-> Ended("new")]
  /\ viewer = [s \in Sessions |-> NoViewer]

------------------------------------------------------------------------------
(* The registry.                                                            *)

ForgetfulRegister(n) ==     \* a mistake to be caught: nobody resets the old one
  /\ \E o \in SceneIds \ Objects :
       /\ scenes' = [x \in Objects \cup {o} |-> IF x = o THEN Bare(NewScene(o)) ELSE scenes[x]]
       /\ registry' = [registry EXCEPT ![n] = o]
  /\ active' = IF active = NoName THEN n ELSE active
  /\ UNCHANGED <<resets, subs, session, viewer>>

(* The replaced object, if any, is reset by a task of its own.              *)
Register(n) ==
  /\ \E o \in SceneIds \ Objects :
       /\ scenes' = [x \in Objects \cup {o} |-> IF x = o THEN Bare(NewScene(o)) ELSE scenes[x]]
       /\ registry' = [registry EXCEPT ![n] = o]
  /\ active' = IF active = NoName THEN n ELSE active
  /\ resets' = resets \cup ({registry[n]} \ {NoScene})
  /\ UNCHANGED <<subs, session, viewer>>

RunReset(o) ==
  /\ o \in resets
  /\ resets' = resets \ {o}
  /\ scenes' = [scenes EXCEPT ![o] = Bare(Cleared(@))]
  /\ subs' = CloseAll(scenes[o], subs)
  /\ UNCHANGED <<registry, active, session, viewer>>

SetActive(n) ==
  /\ registry[n] # NoScene
  /\ n # active
  /\ active' = n
  /\ LET prev == ActiveScene
         next == registry[n]
     IN  IF prev = NoScene THEN UNCHANGED <<scenes, subs>>
         ELSE /\ scenes[prev].seq <= MaxSeq
              /\ scenes' = [scenes EXCEPT
                              ![prev] = Abandoned(@, subs),
                              ![next] = Joined(@, scenes[prev], subs)]
              /\ subs' = Migrated(scenes[next], scenes[prev], subs)
  /\ UNCHANGED <<registry, resets, session, viewer>>

(* Server.reset: the registry is emptied, then every scene is reset.        *)
ResetAll ==
  /\ Registered # {}
  /\ registry' = [n \in Names |-> NoScene]
  /\ active' = NoName
  /\ scenes' = [o \in Objects |-> IF o \in Registered THEN Bare(Cleared(scenes[o]))
                                                      ELSE scenes[o]]
  /\ subs' = [s \in Sessions |->
                IF \E o \in Registered : s \in scenes[o].subs THEN Close(subs[s])
                                                              ELSE subs[s]]
  /\ UNCHANGED <<resets, session, viewer>>

------------------------------------------------------------------------------
(* The application keeps the scenes it made, registered or not.             *)

Set(o, patches) ==
  /\ scenes' = [scenes EXCEPT ![o] = Bare(Seeded(@, patches))]
  /\ subs' = RefreshAll(scenes'[o], subs)
  /\ UNCHANGED <<registry, active, resets, session, viewer>>

Publish(o, patches) ==
  /\ scenes[o].seq < MaxSeq
  /\ scenes' = [scenes EXCEPT ![o] = Bare(Emitted(@, patches))]
  /\ subs' = FanOut(scenes'[o], subs)

Emit(o, patches) ==
  /\ Publish(o, patches)
  /\ UNCHANGED <<registry, active, resets, session, viewer>>

------------------------------------------------------------------------------
(* A session.                                                               *)

Roles == {"viewer", "operator"}

(* Live mode names no scene; test mode takes a role that viewers lack.      *)
Resolve(n, role) ==
  IF n = NoName THEN ActiveScene
  ELSE IF role = "viewer" THEN NoScene
  ELSE registry[n]

Refuse(s, n, role) ==
  /\ session[s].status = "new"
  /\ Resolve(n, role) = NoScene
  /\ session' = [session EXCEPT ![s] = Ended("over")]
  /\ UNCHANGED <<server, subs, viewer>>

(* What a receiver may bring from an earlier session: the scene it shows,   *)
(* an object that may be replaced or inactive by now, and a number of it.   *)
Pasts == {[scene |-> NoScene, cur |-> Fresh]} \cup
         {[scene |-> o, cur |-> n] : o \in Objects, n \in 1..MaxSeq + 1}

Possible(past) == past.cur <= (IF past.scene = NoScene THEN Fresh ELSE scenes[past.scene].seq)

Memory(past, o) ==
  IF ~Resumes(scenes[o], past.cur) THEN "none"
  ELSE IF past.scene = o THEN "same" ELSE "other"

(* The frame carries the number and not the scene it is of.                 *)
Subscribe(s, n, role, past) ==
  /\ session[s].status = "new"
  /\ Possible(past)
  /\ Resolve(n, role) # NoScene
  /\ LET o   == Resolve(n, role)
         out == InitialFrames(scenes[o], past.cur)
     IN  /\ scenes' = [scenes EXCEPT ![o] = Attached(@, s)]
         /\ subs' = [subs EXCEPT ![s] = NewSubscription(n = NoName)]
         /\ session' = [session EXCEPT ![s] =
                          [status |-> IF out = <<>> THEN "running" ELSE "opening",
                           scene |-> o, out |-> out]]
         /\ viewer' = [viewer EXCEPT ![s] =
                          [scene |-> IF Memory(past, o) = "none" THEN NoScene ELSE past.scene,
                           cur |-> past.cur, open |-> TRUE, past |-> Memory(past, o)]]
  /\ UNCHANGED <<registry, active, resets>>

(* A first frame cannot be sent: the scene resolved at the start is told.   *)
FailOpening(s) ==
  /\ session[s].status = "opening"
  /\ scenes' = [scenes EXCEPT ![session[s].scene] = Detached(@, s)]
  /\ subs' = [subs EXCEPT ![s] = Close(@)]
  /\ session' = [session EXCEPT ![s] = Ended("failed")]
  /\ viewer' = [viewer EXCEPT ![s] = NoViewer]
  /\ UNCHANGED <<registry, active, resets>>

AfterWriter(status) == IF status = "gone" THEN "closing" ELSE "silent"

SentinelBlindGet(s) ==      \* a mistake to be caught: None goes to encode
  /\ session[s].status \in {"running", "gone"}
  /\ session[s].out = <<>> /\ subs[s].queue # <<>>
  /\ session' = [session EXCEPT ![s].out = <<Head(subs[s].queue)>>]
  /\ subs' = [subs EXCEPT ![s].queue = Tail(@)]
  /\ UNCHANGED <<server, viewer>>

WriterGet(s) ==
  /\ session[s].status \in {"running", "gone"}
  /\ session[s].out = <<>>
  /\ subs[s].queue # <<>>
  /\ LET msg == Head(subs[s].queue)
     IN  session' = IF msg = Sentinel
                      THEN [session EXCEPT ![s].status = AfterWriter(@)]
                      ELSE [session EXCEPT ![s].out = <<msg>>]
  /\ subs' = [subs EXCEPT ![s].queue = Tail(@)]
  /\ UNCHANGED <<server, viewer>>

(* A send of the writer fails, be it a frame or, on an idle queue, a ping.  *)
SendFails(s) ==
  /\ session[s].status \in {"running", "gone"}
  /\ \/ session[s].out # <<>>
     \/ session[s].status = "running" /\ subs[s].queue = <<>>
  /\ session' = [session EXCEPT ![s].status = AfterWriter(@), ![s].out = <<>>]
  /\ UNCHANGED <<server, subs, viewer>>

NoPing(s) == FALSE          \* a mistake to be caught: get() without a timeout

(* The queue stays empty for 30 seconds: a ping is tried, and the writer    *)
(* sees that the reader has returned.                                       *)
PingOut(s) ==
  /\ session[s].status = "gone"
  /\ session[s].out = <<>> /\ subs[s].queue = <<>>
  /\ session' = [session EXCEPT ![s].status = "closing"]
  /\ UNCHANGED <<server, subs, viewer>>

(* The client goes away, or sends what the reader stops at.                 *)
ReaderEnds(s) ==
  /\ session[s].status \in {"running", "silent"}
  /\ session' = [session EXCEPT ![s].status = IF @ = "running" THEN "gone" ELSE "closing"]
  /\ UNCHANGED <<server, subs, viewer>>

(* An accepted Input is an emission on the scene resolved at the start.     *)
Input(s, patches) ==
  /\ session[s].status \in {"running", "silent"}
  /\ Publish(session[s].scene, patches)
  /\ session' = [session EXCEPT ![s].status = IF @ = "silent" THEN "closing" ELSE @]
  /\ UNCHANGED <<registry, active, resets, viewer>>

NarrowFinish(s) ==          \* a mistake to be caught: only the scene it began on
  /\ session[s].status = "closing"
  /\ scenes' = [scenes EXCEPT ![session[s].scene] = Detached(@, s)]
  /\ subs' = [subs EXCEPT ![s] = Close(@)]
  /\ session' = [session EXCEPT ![s] = Ended("over")]
  /\ viewer' = [viewer EXCEPT ![s] = NoViewer]
  /\ UNCHANGED <<registry, active, resets>>

(* gather has returned: Server.detach, over every registered scene.         *)
Finish(s) ==
  /\ session[s].status = "closing"
  /\ scenes' = [o \in Objects |-> IF o \in Registered THEN Detached(scenes[o], s)
                                                      ELSE scenes[o]]
  /\ subs' = IF Registered = {} THEN subs ELSE [subs EXCEPT ![s] = Close(@)]
  /\ session' = [session EXCEPT ![s] = Ended("over")]
  /\ viewer' = [viewer EXCEPT ![s] = NoViewer]
  /\ UNCHANGED <<registry, active, resets>>

------------------------------------------------------------------------------
(* A receiver.  SceneChanged is a numbered frame of the scene it leaves.    *)

Verdict(s) == ObserveServer(viewer[s].cur, Head(session[s].out).seq)

View(v, f) ==
  IF ~v.open THEN v
  ELSE IF f.type = "snapshot"
    THEN [v EXCEPT !.scene = f.scene, !.cur = ObserveSnapshot(@, f.seq), !.past = "none"]
  ELSE CASE ObserveServer(v.cur, f.seq) = "accept" -> [v EXCEPT !.cur = f.seq]
         [] ObserveServer(v.cur, f.seq) = "gap"    -> NoViewer
         [] OTHER                                  -> v

AfterSend(status, rest) ==
  CASE status = "opening" /\ rest = <<>> -> "running"
    [] status = "gone"                   -> "closing"
    [] OTHER                             -> status

Receive(s) ==
  /\ session[s].status \in {"opening", "running", "gone"}
  /\ session[s].out # <<>>
  /\ viewer' = [viewer EXCEPT ![s] = View(@, Head(session[s].out))]
  /\ session' = [session EXCEPT ![s].out = Tail(@),
                                ![s].status = AfterSend(@, Tail(session[s].out))]
  /\ UNCHANGED <<server, subs>>

------------------------------------------------------------------------------

Next ==
  \/ \E n \in Names : Register(n) \/ SetActive(n)
  \/ ResetAll
  \/ \E o \in Objects : \/ RunReset(o)
                        \/ \E patches \in Patches : Set(o, patches) \/ Emit(o, patches)
  \/ \E s \in Sessions :
       \/ \E n \in Names \cup {NoName}, role \in Roles :
            \/ Refuse(s, n, role)
            \/ \E past \in Pasts : Subscribe(s, n, role, past)
       \/ FailOpening(s)
       \/ WriterGet(s) \/ SendFails(s) \/ PingOut(s)
       \/ ReaderEnds(s) \/ Finish(s)
       \/ Receive(s)
       \/ \E patches \in Patches : Input(s, patches)

Spec == Init /\ [][Next]_vars

(* Tasks are run, a finished await is resumed, a ping goes out after 30     *)
(* seconds and a send succeeds or fails.                                    *)
Fairness ==
  /\ \A s \in Sessions :
       /\ WF_vars(WriterGet(s))
       /\ WF_vars(PingOut(s))
       /\ WF_vars(session[s].out # <<>> /\ (SendFails(s) \/ Receive(s)))
       /\ WF_vars(Finish(s))
  /\ \A o \in SceneIds : WF_vars(o \in Objects /\ RunReset(o))

FairSpec == Spec /\ Fairness

------------------------------------------------------------------------------
(* Properties.                                                              *)

Frame == Snapshot \cup Delta \cup SceneChanged

Attachments(s) == {o \in Objects : s \in scenes[o].subs}

Open(s) == session[s].status \notin {"new", "over", "failed"}

(* A delta in the writer's hands that a viewer will take for one of a       *)
(* stream nothing was dropped from.                                         *)
Lossless(s) ==
  /\ session[s].out # <<>>
  /\ Head(session[s].out).type = "delta"
  /\ viewer[s].open
  /\ ~subs[s].stale /\ ~subs[s].closed

(* Every variable holds what the code's annotations say it holds.           *)
TypeOK ==
  /\ Objects \subseteq SceneIds
  /\ \A o \in Objects : scenes[o] \in SceneRecord(Sessions) /\ scenes[o].id = o
  /\ registry \in [Names -> Objects \cup {NoScene}]
  /\ active \in Names \cup {NoName}
  /\ resets \subseteq Objects
  /\ subs \in [Sessions -> Pipe(Frame)]
  /\ session \in [Sessions -> [status : Statuses, scene : Objects \cup {NoScene},
                                out : Seq(Frame)]]
  /\ viewer \in [Sessions -> [scene : Objects \cup {NoScene}, cur : Nat,
                               open : BOOLEAN, past : {"none", "same", "other"}]]

(* However scenes are replaced and made active, a subscription belongs to   *)
(* one scene at most: it is never fed from two (migrate_subscribers_from).  *)
OneOwner == \A s \in Sessions : Cardinality(Attachments(s)) <= 1

(* No live session is left behind: it is fed by the scene that is active    *)
(* now, or by a replaced one whose reset, still to run, will close it.      *)
LiveOnActive ==
  \A s \in Sessions : Open(s) /\ subs[s].live /\ ~subs[s].closed =>
    \E o \in Attachments(s) : o = ActiveScene \/ o \in resets

(* A session that lost no frame, be it new or resumed on the scene it had,  *)
(* gets, over any number of changes of scene, deltas of the scene it shows  *)
(* and no replay; a live one that began with a snapshot gets no gap either. *)
InStep ==
  \A s \in Sessions : Lossless(s) /\ viewer[s].past # "other" =>
    /\ Head(session[s].out).scene = viewer[s].scene
    /\ Verdict(s) # "replay"
    /\ subs[s].live /\ viewer[s].past = "none" => Verdict(s) = "accept"

(* A session that ran to its end holds on to no scene, even one it was      *)
(* migrated to, but for a scene whose reset will let go of it.              *)
NoGhosts == \A s \in Sessions : session[s].status = "over" => Attachments(s) \subseteq resets

(* A client that went away is let go of, whether or not anything more is    *)
(* ever emitted.                                                            *)
GoneIsDetached == \A s \in Sessions : session[s].status = "gone" ~> Attachments(s) = {}

(* Whatever its queue held when its scene was reset, a writer gets to the   *)
(* sentinel and ends.                                                       *)
ResetEndsWriter ==
  \A s \in Sessions :
    subs[s].closed /\ session[s].status = "running" ~> session[s].status # "running"

(* server.py, lines 95-97: live subscribers "receive a SceneChanged frame    *)
(* followed by a fresh Snapshot [...] on the new scene", in what the writer *)
(* has in hand and what it will get from the queue.                         *)
SnapshotFollows ==
  \A s \in Sessions : ~subs[s].closed =>
    LET frames == session[s].out \o subs[s].queue
    IN  \A i \in DOMAIN frames : frames[i].type = "scene_changed" =>
          /\ i < Len(frames)
          /\ frames[i + 1].type = "snapshot" /\ frames[i + 1].scene = frames[i].scene

(* scene.py, line 225: unsubscribe will "Detach a subscriber".              *)
FailedIsDetached == \A s \in Sessions : session[s].status = "failed" => Attachments(s) = {}

==============================================================================
