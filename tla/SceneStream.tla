----------------------------- MODULE SceneStream -----------------------------
(****************************************************************************)
(* One scene, the sessions that carry its frames and the receivers at the   *)
(* other end.                                                               *)
(*                                                                          *)
(* Actors: the application (Set, Emit, Reset; an accepted Input frame is an *)
(* Emit), one session per receiver (Connect, WriterGet and the sends) and   *)
(* the receivers.  They interleave where the code suspends: at every send   *)
(* on the WebSocket and while the writer waits for its queue.               *)
(*                                                                          *)
(* A receiver keeps its state and its tracker over a reconnection and       *)
(* follows the contract of protocol/sequence.py: it rebases on a snapshot,  *)
(* drops a replayed delta, and closes and reconnects on a gap.  A send and  *)
(* its receipt are one step: a frame on the wire is either received or lost *)
(* with the connection, and a lost frame is one the session still held.     *)
(****************************************************************************)
EXTENDS Scene

CONSTANTS Clients,      \* receivers, one session each at a time
          Id,           \* the scene's identifier
          MaxLog        \* bound: entries in the history of the store

ASSUME IdAssumption == Id \in SceneIds
ASSUME MaxLogAssumption == MaxLog \in Nat

VARIABLES scene,        \* the scene
          subs,         \* [Clients -> pipe], the session's Subscription
          session,      \* [Clients -> [status, out, base]]
          client        \* [Clients -> [state, cur, at, owed]]

vars == <<scene, subs, session, client>>

(* status  "off", "on", or "ended" when the writer took the sentinel: the   *)
(*         connection is then open and silent                               *)
(* out     what handle_ws or the writer took and has yet to send            *)
(* base    history: length of the log when the session subscribed           *)
NoSession == [status |-> "off", out |-> <<>>, base |-> 0]

(* state   the receiver's copy of the leaves        cur  its tracker        *)
(* at      history: the newest log entry it has absorbed                    *)
(* owed    history: leaves last written by a Set or a Reset that no frame   *)
(*         it absorbed has told it about                                    *)
NewClient == [state |-> Blank, cur |-> Fresh, at |-> 0, owed |-> {}]

Init ==
  /\ scene = NewScene(Id)
  /\ subs = [c \in Clients |-> NewSubscription(TRUE)]
  /\ session = [c \in Clients |-> NoSession]
  /\ client = [c \in Clients |-> NewClient]

------------------------------------------------------------------------------
(* The application.                                                         *)

RefreshThenSet(patches) ==      \* a mistake to be caught: refresh before the write
  /\ Len(scene.log) < MaxLog
  /\ scene' = Seeded(scene, patches)
  /\ subs' = RefreshAll(scene, subs)
  /\ UNCHANGED <<session, client>>

Set(patches) ==
  /\ Len(scene.log) < MaxLog
  /\ scene' = Seeded(scene, patches)
  /\ subs' = RefreshAll(scene', subs)
  /\ UNCHANGED <<session, client>>

Emit(patches) ==
  /\ Len(scene.log) < MaxLog
  /\ scene' = Emitted(scene, patches)
  /\ subs' = FanOut(scene', subs)
  /\ UNCHANGED <<session, client>>

Reset ==
  /\ Len(scene.log) < MaxLog
  /\ scene' = Cleared(scene)
  /\ subs' = CloseAll(scene, subs)
  /\ UNCHANGED <<session, client>>

------------------------------------------------------------------------------
(* A session.  Connect is the body of handle_ws from resolve_scene to the   *)
(* first send: it does not suspend.                                         *)

Connect(c, since) ==
  /\ session[c].status = "off"
  /\ since \in {0, client[c].cur}
  /\ scene' = Attached(scene, c)
  /\ subs' = [subs EXCEPT ![c] = NewSubscription(TRUE)]
  /\ session' = [session EXCEPT ![c] = [status |-> "on",
                                        out |-> InitialFrames(scene, since),
                                        base |-> Len(scene.log)]]
  /\ UNCHANGED client

(* Mistakes to be caught: the sentinel is sent like a frame; a writer that  *)
(* waits for a second frame before it sends the first.                      *)
SentinelBlindGet(c) ==
  /\ session[c].status = "on"
  /\ session[c].out = <<>>
  /\ subs[c].queue # <<>>
  /\ session' = [session EXCEPT ![c].out = <<Head(subs[c].queue)>>]
  /\ subs' = [subs EXCEPT ![c].queue = Tail(@)]
  /\ UNCHANGED <<scene, client>>

BatchingGet(c) ==
  /\ Len(subs[c].queue) >= 2
  /\ SentinelBlindGet(c)

WriterGet(c) ==
  /\ session[c].status = "on"
  /\ session[c].out = <<>>
  /\ subs[c].queue # <<>>
  /\ LET msg == Head(subs[c].queue)
     IN  session' = IF msg = Sentinel
                      THEN [session EXCEPT ![c].status = "ended"]
                      ELSE [session EXCEPT ![c].out = <<msg>>]
  /\ subs' = [subs EXCEPT ![c].queue = Tail(@)]
  /\ UNCHANGED <<scene, client>>

(* The connection goes, for whatever reason: the session's coroutines end,  *)
(* the subscription is detached and closed and nobody holds it any more.    *)
Hangup(c) ==
  /\ scene' = Detached(scene, c)
  /\ subs' = [subs EXCEPT ![c] = NewSubscription(TRUE)]
  /\ session' = [session EXCEPT ![c] = NoSession]

Leave(c) ==
  /\ session[c].status # "off"
  /\ Hangup(c)
  /\ UNCHANGED client

------------------------------------------------------------------------------
(* A receiver.                                                              *)

Verdict(c) == ObserveServer(client[c].cur, Head(session[c].out).seq)

(* What changed behind a delta's back: leaves written by entries strictly   *)
(* between i and k that consumed no sequence number.                        *)
Unannounced(i, k) ==
  UNION {scene.log[j].wrote : j \in {n \in i+1..k-1 : scene.log[n].kind # "emit"}}

AbsorbSnapshot(cl, f) ==
  [state |-> f.state, cur |-> ObserveSnapshot(cl.cur, f.seq), at |-> f.at,
   owed |-> {}]

AbsorbDelta(cl, f) ==
  IF ObserveServer(cl.cur, f.seq) = "accept"
    THEN [state |-> Apply(cl.state, f.patches), cur |-> f.seq, at |-> f.at,
          owed |-> (cl.owed \cup Unannounced(cl.at, f.at)) \ DOMAIN f.patches]
    ELSE cl

Receive(c) ==
  /\ session[c].out # <<>>
  /\ LET f == Head(session[c].out)
     IN  \/ /\ f.type = "snapshot"
            /\ client' = [client EXCEPT ![c] = AbsorbSnapshot(@, f)]
         \/ /\ f.type = "delta"
            /\ Verdict(c) # "gap"
            /\ client' = [client EXCEPT ![c] = AbsorbDelta(@, f)]
  /\ session' = [session EXCEPT ![c].out = Tail(@)]
  /\ UNCHANGED <<scene, subs>>

(* GapError: the receiver closes and will reconnect.                        *)
DetectGap(c) ==
  /\ session[c].out # <<>>
  /\ Head(session[c].out).type = "delta"
  /\ Verdict(c) = "gap"
  /\ Hangup(c)
  /\ UNCHANGED client

------------------------------------------------------------------------------

Next ==
  \/ \E patches \in Patches : Set(patches) \/ Emit(patches)
  \/ Reset
  \/ \E c \in Clients :
       \/ \E since \in {0, client[c].cur} : Connect(c, since)
       \/ WriterGet(c)
       \/ Receive(c)
       \/ DetectGap(c)
       \/ Leave(c)

Spec == Init /\ [][Next]_vars

(* The event loop resumes a coroutine whose await is over, and a connection *)
(* that is up delivers what is sent on it.                                  *)
Fairness == \A c \in Clients : WF_vars(WriterGet(c)) /\ WF_vars(Receive(c) \/ DetectGap(c))

FairSpec == Spec /\ Fairness

------------------------------------------------------------------------------
(* Properties.                                                              *)

Pending(c) == session[c].out \o subs[c].queue

(* The session is up, the scene knows it, and no frame offered to its queue *)
(* was dropped.                                                             *)
Tracking(c) == /\ session[c].status = "on"
               /\ c \in scene.subs
               /\ ~subs[c].stale

(* The leaves a receiver may be wrong about: what it already owes, and what *)
(* a Set or Reset changed since the newest entry it absorbed.               *)
Doubtful(c) ==
  client[c].owed \cup Unannounced(client[c].at, Len(scene.log) + 1)

Frame == Snapshot \cup Delta

(* Every variable holds what the code's annotations say it holds.           *)
TypeOK ==
  /\ scene \in SceneRecord(Clients)
  /\ subs \in [Clients -> Pipe(Frame)]
  /\ session \in [Clients -> [status : {"off", "on", "ended"}, out : Seq(Frame),
                               base : Nat]]
  /\ client \in [Clients -> [state : State, cur : Nat, at : Nat,
                              owed : SUBSET Paths]]

(* Whatever was dropped, reset, resumed or reconnected, a receiver's copy   *)
(* is the store of one past moment, except for leaves a Set or a Reset      *)
(* wrote without telling it: sequence numbers hide no lost emission         *)
(* (Scene.emit, SequenceTracker.observe_server).                            *)
WrongOnlyIfOwed ==
  \A c \in Clients : client[c].at > 0 =>
    \A p \in Paths \ client[c].owed :
      client[c].state[p] = scene.log[client[c].at].state[p]

(* Entry j will reach c, by a frame of its own or in a snapshot it is sent. *)
OnItsWay(c, j) ==
  \/ \E i \in 1..Len(session[c].out) :
       \/ session[c].out[i].at = j
       \/ session[c].out[i].type = "snapshot" /\ session[c].out[i].at >= j
  \/ \E i \in 1..Len(subs[c].queue) :
       subs[c].queue[i] # Sentinel /\ subs[c].queue[i].at = j

NothingLostFor(c) ==
  Tracking(c) =>
    \A j \in client[c].at + 1..Len(scene.log) :
      scene.log[j].kind = "emit" \/ j > session[c].base => OnItsWay(c, j)

(* Between subscribe_with_resume, the initial frames and the queue nothing  *)
(* falls in a crack: every emission a tracking receiver has not absorbed,   *)
(* and every change of any kind since it subscribed, is on its way to it.   *)
NothingLost == \A c \in Clients : NothingLostFor(c)

(* A receiver that tracks the scene never raises GapError, and no receiver  *)
(* is ever sent a delta it already has: replay and live stream meet without *)
(* overlap or hole.                                                         *)
ExactlyOnce ==
  \A c \in Clients :
    session[c].out # <<>> /\ Head(session[c].out).type = "delta" =>
      /\ Verdict(c) # "replay"
      /\ Tracking(c) => Verdict(c) = "accept"

(* Once its frames are drained a tracking receiver has the scene's state,   *)
(* up to the leaves a Set or Reset changed while it was away.               *)
DrainedIsCurrent ==
  \A c \in Clients : Tracking(c) /\ Pending(c) = <<>> =>
    \A p \in Paths \ Doubtful(c) : client[c].state[p] = scene.store[p]

(* Every resume point the replay buffer claims to cover gets exactly the    *)
(* emissions after it, whatever the ring has forgotten (ReplayBuffer.since).*)
ResumeComplete ==
  \A since \in 1..scene.seq : Resumes(scene, since) =>
    LET records == RecordsAfter(scene.replay, since)
    IN  /\ Len(records) = scene.seq - since
        /\ \A i \in 1..Len(records) : records[i].seq = since + i

(* A receiver never travels back in time, over any number of reconnections. *)
NeverBackwards == [][\A c \in Clients : client'[c].at >= client[c].at]_vars

(* Queue, ring, numbers, sessions and reconnections together implement the  *)
(* simple mirror: a receiver takes a whole state of the scene, or the next  *)
(* emission after what it has, or nothing.                                  *)
Reflected == INSTANCE Mirror WITH
  Readers  <- Clients,
  versions <- [i \in 1..Len(scene.log) |->
                 [announced |-> scene.log[i].kind = "emit",
                  wrote |-> scene.log[i].wrote, state |-> scene.log[i].state]],
  copies   <- [c \in Clients |->
                 [state |-> client[c].state, at |-> client[c].at,
                  doubt |-> client[c].owed]]

ImplementsMirror == Reflected!Spec

(* A receiver that stays tracked ends up, for good, with the state of the   *)
(* scene up to the doubtful leaves.                                         *)
Converges ==
  \A c \in Clients :
    <>[]Tracking(c) =>
      <>[](\A p \in Paths \ Doubtful(c) : client[c].state[p] = scene.store[p])

(* scene.py, lines 6-8: "back-pressured subscribers get a fresh snapshot    *)
(* instead of an unbounded delta queue".                                    *)
BackPressureSnapshot ==
  \A c \in Clients :
    subs[c].stale ~>
      \/ ~subs[c].stale
      \/ \E i \in 1..Len(Pending(c)) : /\ Pending(c)[i] # Sentinel
                                       /\ Pending(c)[i].type = "snapshot"

==============================================================================
