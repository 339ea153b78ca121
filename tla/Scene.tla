-------------------------------- MODULE Scene --------------------------------
(****************************************************************************)
(* The operations of server/scene.py and server/store.py on a scene's state *)
(* and on the pipes of its subscribers.                                     *)
(*                                                                          *)
(* A scene is a record                                                      *)
(*   id      the scene's identifier                                         *)
(*   store   the leaf-grain state, NoValue for a leaf that is not there     *)
(*   seq     the sequence counter                                           *)
(*   replay  the replay buffer                                              *)
(*   subs    the subscriptions attached to it                               *)
(*   log     history: one entry per change of the store (see Entry)         *)
(* and `subs`, where it is a parameter, is the function from subscriptions  *)
(* to pipes.  Every method of Scene runs from its first to its last         *)
(* statement without suspending (its locks are free whenever it asks for    *)
(* them, and the queue operations never wait), so each is one atomic step.  *)
(*                                                                          *)
(* The field log of a scene, the field `at` of a frame (the entry that is   *)
(* the newest the frame reflects) and the field `scene` of a delta are      *)
(* history variables: properties read them, the modelled code does not.     *)
(****************************************************************************)
EXTENDS SequenceTracker, ReplayBuffer, Subscription

CONSTANTS Paths,        \* leaf paths
          Values,       \* leaf values
          NoValue,      \* what a leaf that was never written reads as
          SceneIds      \* scene identifiers

ASSUME NoValueAssumption == NoValue \notin Values

State == [Paths -> Values \cup {NoValue}]

Blank == [p \in Paths |-> NoValue]

(* A patch map is not empty: set and emit refuse an empty one before they   *)
(* change anything.                                                         *)
Patches == UNION {[ps -> Values] : ps \in (SUBSET Paths) \ {{}}}

Apply(state, patches) ==
  [p \in Paths |-> IF p \in DOMAIN patches THEN patches[p] ELSE state[p]]

Entry(kind, wrote, state, seq) ==
  [kind |-> kind, wrote |-> wrote, state |-> state, seq |-> seq]

(* The counter is pre-seeded to 1, so the first emission has number 2.      *)
NewScene(id) ==
  LET seq == NextServer(Fresh)
  IN  [id |-> id, store |-> Blank, seq |-> seq, replay |-> <<>>, subs |-> {},
       log |-> <<Entry("new", {}, Blank, seq)>>]

------------------------------------------------------------------------------
(* The types of the records above.                                          *)

LogEntry == [kind : {"new", "set", "emit", "reset"}, wrote : SUBSET Paths,
             state : State, seq : Nat]

Record == [seq : Nat, patches : Patches, at : Nat]

Snapshot == [type : {"snapshot"}, scene : SceneIds, state : State, seq : Nat, at : Nat]

Delta == [type : {"delta"}, scene : SceneIds, patches : Patches, seq : Nat, at : Nat]

SceneRecord(S) == [id : SceneIds, store : State, seq : Nat, replay : Seq(Record),
                   subs : SUBSET S, log : Seq(LogEntry)]

Pipe(F) == [queue : Seq(F \cup {Sentinel}), live : BOOLEAN, closed : BOOLEAN,
            stale : BOOLEAN]

------------------------------------------------------------------------------
(* Frames.                                                                  *)

SnapshotOf(sc) ==
  [type |-> "snapshot", scene |-> sc.id, state |-> sc.store, seq |-> sc.seq,
   at |-> Len(sc.log)]

DeltaOf(sc, record) ==
  [type |-> "delta", scene |-> sc.id, patches |-> record.patches,
   seq |-> record.seq, at |-> record.at]

------------------------------------------------------------------------------
(* Scene.set: the store changes, the counter and the replay buffer do not,  *)
(* and every subscriber is offered a snapshot at the current number.        *)

Seeded(sc, patches) ==
  LET state == Apply(sc.store, patches)
  IN  [sc EXCEPT !.store = state,
                 !.log = Append(@, Entry("set", DOMAIN patches, state, sc.seq))]

RefreshAll(sc, subs) ==
  [s \in DOMAIN subs |->
     IF s \in sc.subs THEN SendOrDrop(subs[s], SnapshotOf(sc)) ELSE subs[s]]

(* Scene.emit: apply, allocate one number, record, fan out.                 *)

Emitted(sc, patches) ==
  LET state == Apply(sc.store, patches)
      seq   == NextServer(sc.seq)
      record == [seq |-> seq, patches |-> patches, at |-> Len(sc.log) + 1]
  IN  [sc EXCEPT !.store = state,
                 !.seq = seq,
                 !.replay = Push(@, record),
                 !.log = Append(@, Entry("emit", DOMAIN patches, state, seq))]

FanOut(sc, subs) ==
  LET delta == DeltaOf(sc, sc.replay[Len(sc.replay)])
  IN  [s \in DOMAIN subs |->
         IF s \in sc.subs THEN SendDelta(subs[s], delta, SnapshotOf(sc)) ELSE subs[s]]

(* Scene.reset: no subscribers, no state; the counter and the replay buffer *)
(* stay as they are.                                                        *)

Cleared(sc) ==
  [sc EXCEPT !.subs = {},
             !.store = Blank,
             !.log = Append(@, Entry("reset", Paths, Blank, sc.seq))]

CloseAll(sc, subs) ==
  [s \in DOMAIN subs |-> IF s \in sc.subs THEN Close(subs[s]) ELSE subs[s]]

------------------------------------------------------------------------------
(* Scene.subscribe_with_resume: attach, and choose between the records the  *)
(* receiver missed and a snapshot.  since = 0 stands for a frame without    *)
(* since_sequence; both take the snapshot branch.                           *)

Attached(sc, s) == [sc EXCEPT !.subs = @ \cup {s}]

Resumes(sc, since) ==
  /\ 0 < since
  /\ since <= sc.seq
  /\ Covered(sc.replay, since)

InitialFrames(sc, since) ==
  IF Resumes(sc, since)
    THEN LET records == RecordsAfter(sc.replay, since)
         IN  [i \in 1..Len(records) |-> DeltaOf(sc, records[i])]
    ELSE <<SnapshotOf(sc)>>

(* Scene.unsubscribe, the half that changes the scene.                      *)
Detached(sc, s) == [sc EXCEPT !.subs = @ \ {s}]

------------------------------------------------------------------------------
(* Scene.migrate_subscribers_from: every live subscriber of prev moves to   *)
(* next.  prev spends one number on the SceneChanged they are sent, which   *)
(* its replay buffer does not record, and nothing happens when none is live.*)

SceneChanged == [type : {"scene_changed"}, scene : SceneIds, seq : Nat]

LiveSubs(sc, subs) == {s \in sc.subs : subs[s].live}

StickyAbandoned(prev, subs) ==      \* a mistake to be caught: prev keeps feeding them
  IF LiveSubs(prev, subs) = {} THEN prev ELSE [prev EXCEPT !.seq = NextServer(@)]

Abandoned(prev, subs) ==
  LET live == LiveSubs(prev, subs)
  IN  IF live = {} THEN prev
      ELSE [prev EXCEPT !.subs = @ \ live, !.seq = NextServer(@)]

Joined(next, prev, subs) == [next EXCEPT !.subs = @ \cup LiveSubs(prev, subs)]

SceneChangedOf(next, prev) ==
  [type |-> "scene_changed", scene |-> next.id, seq |-> NextServer(prev.seq)]

SwappedMigrated(next, prev, subs) ==    \* a mistake to be caught: the wrong order
  [s \in DOMAIN subs |->
     IF s \in LiveSubs(prev, subs)
       THEN SendOrDrop(SendOrDrop(subs[s], SnapshotOf(next)), SceneChangedOf(next, prev))
       ELSE subs[s]]

Migrated(next, prev, subs) ==
  [s \in DOMAIN subs |->
     IF s \in LiveSubs(prev, subs)
       THEN SendOrDrop(SendOrDrop(subs[s], SceneChangedOf(next, prev)), SnapshotOf(next))
       ELSE subs[s]]

==============================================================================
