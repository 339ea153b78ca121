# lumencast-py in TLA+

A TLA+ model of the core of `lumencast-py`: the scene a server publishes, the
streams of snapshots and deltas its subscribers receive, the registry that
replaces and activates scenes under open sessions, the operators who write into a
scene, the wire between server and client, the conformance runner that judges
such servers, the adapters that feed a scene, and the receiver that has to end up
with the right picture. TLC checks small instances; TLAPS proves the safety of the
stream, the server, the operators' input, the control plane, the wire and the adapters for
every instance, and that the hash spells each number in a way of its own.

## The system

Paths are under `src/lumencast/` of the repository. Everything runs on one
asyncio event loop.

| Component | State | Operations | Talks to |
|---|---|---|---|
| Sequence tracker, `protocol/sequence.py` | one number | `next_server`, `current`, `observe_server`, `observe_snapshot` | a scene allocates with it, a receiver checks with it |
| Replay buffer, `server/replay_buffer.py` | ring of the last 256 emissions | `push`, `since` | its scene |
| Store, `server/store.py` | leaf path -> value | `apply`, `snapshot`, `reset` | its scene |
| Subscription, `server/scene.py` | a queue of 256 frames; `live`, `closed`, `stale` | `put_nowait`, `close` | filled by scenes, drained by one session's writer |
| Scene, `server/scene.py` | store, counter, ring, set of subscriptions, declared inputs | `set`, `emit`, `reset`, `subscribe_with_resume`, `unsubscribe`, `migrate_subscribers_from`, `apply_input` | application, sessions, registry |
| Server, `server/server.py` | id -> scene, id of the active one | `new_scene`, `set_active`, `reset`, `detach`, `resolve_scene` | application, control plane, sessions |
| Session, `server/ws_handler.py` | the scene it resolved, its subscription, a cancel event | handshake, first frames, reader, writer, ping, detach | client, its first scene, `Server.detach` |
| Operator input, `server/input.py`, `server/role.py`, `protocol/leaf_path.py` | declared inputs | `check_constraint`, `can_write`, patterns | `Scene.apply_input` |
| Authentication, `server/auth.py` | token -> identity | `authenticate`, `issue`, `reset` | handshake, control plane |
| Codec, `protocol/codec.py`, `envelope.py`, `frames.py`, `types.py`, `errors.py` | none | `encode`, `decode_client`, `decode_server` | sessions, harness |
| Control plane, `interop/control_plane.py`, `interop/http_driver.py` | none of its own | `/test/setup`, `/reset`, `/state`, `/emit` | Server, auth |
| Conformance harness, `conformance/*` | step, shadow of the scene, report | load, skip, set up, play the steps, judge | a server over WebSocket and the control plane |
| LSML hash, `lsml/hash.py` | none | `hash_inline_bundle` | loader of scenarios, command line |
| Adapters, `server/adapters/*` | a request or a connection | poll, relay | an upstream, a caller's transform, `Scene.emit` |
| Command line, `cli/*` | none | parse arguments, read and write files | the components above |

### What is hard here

No method of `Store`, `Scene` or `Server` suspends once it runs: an uncontended
`asyncio.Lock` is taken without yielding, `put_nowait` never waits, and the only
`await`s are on coroutines of the same kind. So each is one atomic step, and the
interleaving is elsewhere:

* **around sends.** The subscription is attached before the first frames are
  sent, and those go out one `await` at a time while the scene goes on changing
  and its queue fills (`ws_handler.py:112-124`);
* **at limits.** A full queue drops frames (`scene.py:309-324`), a full ring
  forgets emissions (`replay_buffer.py:59`), closing a full queue evicts a frame
  (`scene.py:59`);
* **over reconnections.** A receiver keeps its number and its state, comes back
  with `since_sequence`, and meets replayed records and live deltas;
* **around a change of scene.** `set_active` moves subscriptions whose sessions
  are opening, running or ending; `new_scene` leaves the replaced scene alive
  until a task has reset it (`server.py:69-75`); a session goes on using the
  scene it resolved once (`ws_handler.py:131, 241`);
* **at deadlines.** The harness has no clock of the server's: a deadline may
  pass with the frame on its way, a drain of 150 ms may catch the echo of an
  earlier input or not, a request to the control plane may fail
  (`harness.py:225, 254, 321`);
* **when upstreams fail.** The adapters retry, reconnect, drop, or end
  (`http_poll.py:36-46`, `ws_subscribe.py:34-50`);
* **at the end of a session.** Reader and writer end for their own reasons, see
  each other's end only through the cancel event, and only then is the
  subscription detached (`ws_handler.py:171-221`).

What makes each part correct: the tracker and the ring, that a resume gets
exactly the emissions it missed; scene and session, that no emission is lost
between snapshot, replay and queue without the receiver noticing, that none is
applied twice, and that a receiver never goes back; the registry, that a
subscription belongs to one scene, that live ones follow the active scene, that
an ended one is let go of; the input chain, that a refused frame changes nothing;
the codec, that what one end builds the other reads; the handshake, that nobody is
served before it; the harness, that a PASS is earned, that a FAIL of a sound
scenario has a late frame to blame, and that there is a verdict; the hash, that
it tells documents apart and spellings not.

## The modules

| Module | Models | Role |
|---|---|---|
| `SequenceTracker` | `sequence.py` | functions of the counter and the receiver's verdict on a number |
| `ReplayBuffer` | `replay_buffer.py` | `Push`, `Covered`, `RecordsAfter` on a bounded sequence |
| `Subscription` | the queue of `scene.py` | `SendOrDrop`, `SendDelta`, `Close` on a pipe record |
| `Scene` | `scene.py`, `store.py` | the methods of a scene as functions of its record and of the pipes; no variables |
| `SceneStream` | one scene, its sessions and receivers | state machine: `Set`, `Emit`, `Reset`, `Connect`, `WriterGet`, `Receive`, `DetectGap`, `Hangup`, `Leave` |
| `Server` | `server.py`, session life of `ws_handler.py` | state machine: registry, several scene objects, sessions with reader and writer |
| `InputRules` | `role.py`, `input.py`, validation of `apply_input` | `CanWrite`, `Accepts`, `Meets`, `Verdict`, `AsDict` on paths, specs and patch lists |
| `Mirror` | - | the abstract stream: versions of a store, copies that jump or follow; `SceneStream` implements it |
| `Operator` | reader and dispatch of `ws_handler.py`, `apply_input`, `declare_inputs` | state machine: one scene, sessions with identities, input frames and their answers |
| `ControlPlane` | `interop/control_plane.py`, the table of `auth.py` | `Server` driven by setups and resets, sessions admitted by token |
| `Frames` | `frames.py` | what the fields of each typed frame may hold: `ClientFrame`, `ServerFrame` |
| `Codec` | `codec.py`, `envelope.py` | `Encode`, `DecodeClient`, `DecodeServer` between typed frames and JSON values |
| `Dialogue` | handshake and dispatch of `ws_handler.py` | `Outcome` of a first frame, `Answer` to a later one |
| `Wire` | `handle_ws` from upgrade to end | state machine: one socket, reader and writer that share it, what the client says and is told |
| `Match` | `match.py`, `placeholders.py` | `Substitute`, `Matches`, and the reference `Fits` |
| `Numerals` | the numbers of `lsml/hash.py` | `Float`, `Repr`, `ShortestDigits`, `FormatNumber`, and the references `DecimalSays`, `NumeralSays` |
| `Bundles` | the rest of `lsml/hash.py`, `_parse_bundles`, `parse_inline_specs` | `Canonical`, `HashInlineBundle`, `ParseInlineSpecs`, and the reference `Contents` |
| `Harness` | `harness.py`, `http_driver.py`, a setup's effect | state machine: runner, one WebSocket, a server made of `Scene`, `InputRules`, `Codec` and `Dialogue` |
| `Documents` | `_flatten` of `http_poll.py` | one call of it: `Calls` that it makes and `FlattenWith` what they returned; the reference `LeavesWith` |
| `Adapters` | `http_poll.py`, `ws_subscribe.py` | state machine: two upstreams, two loops, one store; what `_flatten` makes of a document is its constant `Flattened`, which `MCAdapters` computes |
| `MCSceneStream`, `MCServer`, `MCOperator`, `MCControlPlane`, `MCWire`, `MCHarness`, `MCAdapters` | - | symmetry, instances, frames, scenarios and documents for TLC |
| `SceneProofs` | - | lemmas on the operators of `Scene` and the modules under it |
| `Lists` | - | lemmas on sequences, on `FlattenSeq` and on least counterexamples |
| `SceneStreamProofs`, `ServerProofs`, `OperatorProofs`, `ControlPlaneProofs`, `WireProofs` | - | inductive invariants and theorems of the state machine in the name; in the first also that it implements `Mirror` |
| `DocumentProofs` | - | theorems of `Numerals` and `Adapters` |

A scene is a record and its methods are operators on it, so `SceneStream` (one
scene, what the frames say) and `Server` (many scenes, who gets which frame) use
the same definitions of `emit`, `set`, `subscribe_with_resume` and the rest.

**History.** A scene's `log` has one entry for each change of its store (kind,
leaves written, resulting state, number), and every frame carries `at`, the entry
it reflects. The modelled code reads neither; properties do. `owed` of a receiver
in `SceneStream` is history too: the leaves that a `set` or a `reset` wrote after
the entry it had absorbed and before the one it absorbs next, without a frame
telling it.

**`SceneStream`.** `session[c].out` is what the session has taken out of the queue
(or was given by `subscribe_with_resume`) and is sending; `Receive` completes
one `send_text`. The receiver is no code of the repository: it keeps the contract of
`sequence.py`, asks its tracker before it applies a delta, and changes its state as the
conformance harness does (`harness.py:353-364`), which has no tracker. `DetectGap` is what
`sequence.py:14-19` prescribes on a gap: it closes and comes back. `Leave` stands for the end of reader, writer and `detach`
together: a subscription in between feeds nobody who looks. The receiver keeps
state and number over sessions and may resume with its number or not.

**`Mirror`.** The abstract stream has versions of a store and a copy for each reader, no
queues, rings, numbers or connections. A copy jumps to a version it has not passed, or follows to
the next announced one and is then in doubt about what silent versions wrote. Under
`Reflected` (an `INSTANCE` in `SceneStream`) an entry of `log` is a version, announced
if an emission made it, and `owed` is the doubt. `ImplementsMirror` says that every
step of the detailed stream is a step of the abstract one or a stutter: a
replay that left out an emission, or a queue that overtook one, would be neither.

**`Server`.** Scenes are objects: registering a name again makes a new object,
the old one is in `resets` until its task has run. A session goes through

    new -> opening -> running -> silent (writer ended) -> closing -> over
                   \-> failed     \--> gone (reader ended) --^

`opening` sends the first frames; `silent` is the session whose writer met the
sentinel while its reader still waits for the client; `gone` the one whose writer
has not yet noticed that the reader returned: it may send one frame more or wait
out its 30 seconds (`PingOut`). `Input` is an accepted Input frame: an emission
on the scene resolved at the start. State and history of a scene are left out
here (`Bare`): `SceneStream` is about them. A viewer comes with nothing or with
the scene and the number of an earlier session (`past`), and is open until its
tracker reports a gap.

**`Operator`.** A session has an identity from its handshake to its end. Its reader
takes one frame at a time and none while its reply is being sent (`reply`), its
writer is that of `Server`. An `Input` is committed as one emission whose delta
goes through every queue, or refused with an error that the reader sends past the
queue, or, for an integer `float()` cannot hold, ends the reader. A second
Subscribe gets an error and changes nothing; a frame of another version or one that does
not decode gets an error and ends the reader. A path is the sequence of its
segments, a value its kind and its size. `asked`, `causes` and `told` are history:
the frames read (with the identity and the declaration at that time), the frame
each change of the scene comes from, and the answers handed to each socket. The
cause that the code puts in records and deltas is read from `causes`.
The application's `set` is left to the other modules; what it does to a queue an
emission does too. `Territory` is the reference the rules are compared with: it
says with subtrees what the code says with prefixes of strings.

**`ControlPlane`.** Every handler reads its body first and does not suspend after
that, so `Setup`, `Reset` and `EmitActive` are one step each, made of several changes of
the server: a setup clears the registry and closes every subscriber, replaces the
token table, and only then looks at the bundles. Its first bundle becomes active on
registration, so its `set_active` finds nothing to do; a later bundle with an id seen
before replaces that scene and leaves it to a task; a first bundle that is no
object ends the setup with the reset done. The application makes no other scene
and no other change of the active one. `Admit` looks a token up once. `scenario`,
`birth`, `opened` and `holder` are history.

**`Codec`, `Frames`, `Dialogue`, `Wire`.** A JSON value is a record named by its type; a typed
frame is a record of such values. The decoders give a frame or say why there
is none: one of the codec's own errors, or `raises` for a `ValueError` or the like
out of `int()` or `float()`, which the handshake and the reader treat differently.
`Dialogue` says what becomes of a decoded frame, without state; `Wire` and
`Harness` share it. In `Wire` the client says any text of three kinds: frames the
codec built, frames somebody else built (a version of 1.0 or `true`, extra
fields, numbers in strings), and texts that are no frame. What a text is owed
(`Owed`) is said of the text, not computed by the decoder. Reader and writer may each be in
the middle of a send.

**`Harness`.** A plan is a sequence of scenarios as `load_scenarios` returns them;
their bundles are hashed in `Init`. The runner seeds a scene with what the script itself
expects (`Seed`, `InitialState`, `Declared`), dials, and plays its steps. Every step that waits has
two ends, the frame and the deadline, and `fault` notes when a deadline passed
with something on its way or a request did not get through. The server is one scene, one
reader and one writer, out of the operators of the other modules; `sound` marks the
scenarios a punctual server meets. The frames that met a template (`met`) and the
scene's `log` are what a PASS is checked against; `Fits` compares sets of places
where `Matches` recurses. A handler that returned is closed by the ASGI server, outside the
repository, with 1000 or 1006 (`Hangups`).

**`Numerals`, `Bundles`.** A float is its shortest digits and the place of its point; `Repr` is
how Python prints it, `ShortestDigits` reads that back, `FormatNumber` prints it as
ECMAScript does. `Contents` takes a number for its digits at their powers of ten,
however it is spelled.

**`Documents`, `Adapters`.** A document is a tree and `_flatten` recurses into it. `Adapters` is a
machine on documents without saying what they are: `Flattened` has the patches of each and
`Leaves` what is to be shown of it. `Documents` has one call of `_flatten`, with
the calls that it makes (`Calls`) and what it does with what they return (`FlattenWith`), and of the reference (`LeavesWith`); `MCAdapters` closes both with `RECURSIVE` definitions,
`Flatten` and `LeavesOf`, and `DocumentProofs` assumes of them the equations that they are. The poller has one request at a time, and what it read may be
out of date when it emits. The relay's connection keeps the order and loses what had not
arrived when it breaks; an exception of the transform closes it. `healthy` says that from now on the
upstreams answer in time, do not disconnect and hold what they hold.

`set_active` to an id that is not registered raises `KeyError` and changes
nothing, `set` and `emit` with no patches raise before they change anything: no
action stands for them.

## The runs

| Run | Instance | What it shows |
|---|---|---|
| `stream` | 1 receiver, 2 leaves, 2 values, queue 2, ring 2, history of 5 | type; a receiver is wrong only about what it owes; nothing is lost; exactly once; drained means current; resume is complete; never backwards; the whole implements `Mirror` |
| `stream_live` | 2 receivers, 1 leaf, queue 1, ring 1, history of 4, fair | a receiver that stays tracked converges to the scene's state |
| `server` | 2 names, 3 scene objects, 1 session, queue 2, ring 2, 2 numbers | one owner; live sessions follow the active scene or are about to be closed; numbers and scene stay in step over changes of scene, for new sessions and for ones resumed on the scene they had; ended sessions are let go of |
| `server_live` | 2 names, 2 objects, 1 session, fair | a client that left is detached; a reset scene ends its writers |
| `operator` | 1 session of any of 4 identities, 5 leaves, 3 declared inputs, 9 patch lists, queue 1, 2 inputs, fair | an input is applied once and whole or not at all; only to leaves of its sender, as declared; answered exactly once unless dropped; only an error overtakes, and only an echo is overtaken; no session waits for ever |
| `control` | 2 names, 4 scene objects, 2 tokens, 1 session, 2 setups or resets of up to 2 bundles, queue 2 | sessions of an earlier scenario are let go of; no frame and no input crosses from one scenario into another; whoever reaches a registered scene has a token that still says so |
| `wire` | 14 frames of the codec, 9 others, 19 texts that are none, 3 heard, 2 sent | what is built is read; nobody is served before an admitted Subscribe; each text is answered once, in order and for what it was; after a fatal error at most one frame follows and no answer |
| `harness` | 27 scenarios, each with one of 3 after it; 30 documents to hash; fair | a PASS is earned; the shadow is a past state of the scene; a sound scenario fails only for a deadline with something on its way; hashes tell documents apart; every scenario is judged |
| `adapters` | 3 documents, with and without a transform, 2 messages a connection, fair | a polled document is shown leaf by leaf; the relay leaves out nothing before what is lost; the poller keeps up once its upstream recovers |
| `overflow` | violation | a pipe that overflowed is not sent the promised snapshot |
| `changed` | violation | a live session whose queue has one place left is told of a change of scene and not given its snapshot |
| `failed` | violation | a session that fails while it is migrated stays attached |

**Bounds.** `QueueMax` and `ReplayMax` are 256 in the code; nothing depends on
the size but reaching it, and 1 or 2 with a history of 4 or 5 overflows both, twice.
`MaxLog` bounds the history of the one scene in `SceneStream`, `MaxSeq` the
numbers emissions take in `Server` (a change of scene may take one more).
Two leaves let a delta change one and leave the other; two values make a stale
leaf visible. Receivers do not see each other in `SceneStream` (a scene's methods
treat each subscription alike), so one is enough for safety, and the proofs are
for any number. In `Server` three objects give one replaced, one active, one
other; sessions meet only through the counter of their scene, and the proofs are for any
number of them. TLC's symmetry is used in safety runs only.

In `operator` two inputs and a history of 3 fill the queue of 1 and let an error
overtake an echo; the patch lists hold one of each verdict, a good leaf with a
bad one, a leaf twice, a NaN and a huge number. Operators meet only in the scene
and see each other as the application's emissions, so one session is enough.

In `control` two resets are enough for a replaced scene of the first scenario whose
reset runs in the second, and for a session of the first that lives in the second.

In `wire` the third text a client says is a ping, a second Subscribe or garbage,
whatever the first two were: two arbitrary texts are one for the handshake and one
for the session, a third gets in between the reply and the next. Scripts in
`harness` have up to seven steps and emissions that write one leaf; two leaves,
one of them an operator's. They are shorter than the 30 seconds of a scenario,
whose end (`ScenarioTimeout`) may come at any moment all the same. Only the
first bundle of a scenario is played; all are hashed. The numbers hashed are on both sides of each
threshold of the two formats. In `adapters` a message list of two and a store of
four paths let one document hide in another; the poller's rounds have no bound.

**Deadlock** is checked for `stream`; the other runs stop, when every
session is over and the numbers or frames are used up, when every scenario is judged, or
when healthy upstreams have nothing more to say, so there it is not.

**Fairness.** `WriterGet`: a task woken by `queue.get` is run. `Receive` (or the
failure of the send): `send_text` returns or raises, since the WebSocket
server drops a peer that no longer answers its keep-alive. `PingOut`: `wait_for` times out. `Finish` and
`RunReset`: a finished `gather` and a created task are resumed. In `Harness`, `Play`: the
runner is run, and the deadlines of `asyncio.wait_for` and of the HTTP client pass;
nothing is assumed of the server it judges. In `Adapters`: both loops are run, sleeps end, a dial and
a request come to some end. Nothing is
assumed of the application, of clients, or of `SceneChanged` finding room.

### What the violations mean

Three statements in the repository's own comments do not hold; PROJECT.json quotes
each with the line that breaks it. In short: (1) on a full queue the
replacement snapshot is offered to the same full queue and dropped, and `stale`
is never read; the receiver recovers through the gap at its next delta, so on a
quiet scene never. (2) `SceneChanged` and the snapshot that is to follow it are offered
one by one, so that a queue with one place left gets the first alone: the client is told
that it is on the new scene and goes on showing the old one. (3) A failed first send detaches from the scene resolved
at the start instead of through `Server.detach`.

Larger ones without a run, because a property of a passing run says how far the
promise does hold:

* `replay_buffer.py:3-5` says that a client can resume without a snapshot, but `set`
  and `reset` take no number and no record (`DrainedIsCurrent` and `Mirror` have the
  leaves in doubt), and after a change of the active scene the number of one scene passes for
  covered on another (`InStep` excepts it);
* `frames.py:107-108` says that the `Snapshot` which follows a `SceneChanged` has number 1: it has
  the number its scene has reached (that it may not follow at all is the `changed` run);
* `frames.py:124-125` says that the server closes within a second of an error that is
  not recoverable: after a second Subscribe it does not close at all, otherwise
  when the writer next wakes, up to 30 seconds later (`AnsweredInOrder`, `EndsThereafter`);
* `frames.py:186-188` has the id of an input come back in the resulting delta: a session
  that was moved to another scene goes on writing to the one it resolved first, whose
  deltas it no longer gets (`Input` of `Server`);
* `ws_subscribe.py:25` says "Reconnects with a flat back-off on disconnects": a clean close
  ends the loop over the messages without an exception, and the next dial follows
  at once (`LinkEnds`).

Smaller divergences met on the way, without a run: `scene.py:205` says the snapshot is
non-None iff there are no records, but a resume with nothing missed returns
neither; `sequence.py:42` says `seq == 1` is always accepted, but a tracker beyond 1
reports it as a replay; `frames.py:77-79` and `server.py:96-97` still describe
one snapshot per subscription and numbers that restart at 1;
`ReplayBuffer.reset` has no caller. `migrate_subscribers_from` takes a number of the new scene for its
`SceneChanged` (`scene.py:340`), which a session already on that scene never sees: its next delta is a gap
to it with nothing lost. Such a session is not live, and `InStep` excludes gaps for live ones only. `role.py:37` says a suffix `*` matches any
descendant, but only `.*` does: any other pattern with a star is compared
literally. Of the types `input.py:14` lists, `color`, `date`, `time`, `path-ref` and
`image-ref` are not checked, and a NaN, which `json.loads` accepts, passes any
`min` and `max`. `Meets` has all of that as the code does. A setup whose bundle has neither id nor
`scene_id` registers the empty name and answers 200, but the empty name is how
`server.py:88` says that nothing is active; and a second bundle with the first one's
id leaves the active scene without the initial state. `Names` has no empty name. A frame whose `int()` or `float()` fails ends a session without the error
other bad frames get, and a list for a token raises out of `handle_ws`.
An exception of a transform ends the poller for good, though a failed request does not, and
costs the relay the messages that had arrived; a leaf that vanishes from a polled document
stays in the scene. In the harness a scenario whose first snapshot has a leaf `$ANY` cannot pass,
since the leaf is not seeded; two echoes before a `server-emits` defeat its drain; and
`expect-client-action` passes on a server that neither closes nor says anything.
`lsml/hash.py` sorts the keys before it makes strings of them, so that the integer keys YAML
allows are not sorted as text, and mixed ones raise out of `load_scenarios`.

`ResumeComplete` is about a scene that is not migrated from: the number of a
`SceneChanged` is a hole in the ring as well, so that a resume may meet a gap with nothing lost.

## The proofs

For arbitrary sets of leaves, values, receivers, sessions, scene objects, names, tokens,
identities and patch lists, any bound on history, numbers and scenarios, and any
positive `QueueMax` and `ReplayMax`. They assume what the modules name and TLC
evaluates: a bound is a number; `NoValue`, `NoScene`, `NoName` and `BadBundle` are
none of the things they stand for the absence of; a path is a sequence of segments,
patch lists and the application's patches are about paths and values; the subtrees an
identity is said to own (`roots`) are those its patterns name; the frames the codec
is given (`Built`, `Queued`) have fields of the types `frames.py` declares. A few theorems
have hypotheses, about what cannot be written or computed in a module with proofs, and which the
instances TLC checks satisfy: `Understood`, `WellFormed`, and `Trees`, `Recursion` and `MadeOfDocuments`, below.

| Theorem | States | Module |
|---|---|---|
| `Invariance` | `Spec => []StreamInv` | `SceneStreamProofs` |
| `TypeCorrect` | `Spec => []TypeOK` | |
| `OnlyOwedIsWrong` | `Spec => []WrongOnlyIfOwed` | |
| `LosesNothing` | `Spec => []NothingLost` | |
| `DeliversExactlyOnce` | `Spec => []ExactlyOnce` | |
| `CurrentOnceDrained` | `Spec => []DrainedIsCurrent` | |
| `ResumesCompletely` | `Spec => []ResumeComplete` | |
| `NeverGoesBack` | `Spec => NeverBackwards` | |
| `MirrorsTheScene` | `Spec => ImplementsMirror` | |
| `ServerInvariance` | `Spec => []ServerInv` | `ServerProofs` |
| `ServerTypes` | `Spec => []TypeOK` | |
| `OneOwnerHolds` | `Spec => []OneOwner` | |
| `LiveOnActiveHolds` | `Spec => []LiveOnActive` | |
| `NoGhostsHolds` | `Spec => []NoGhosts` | |
| `StepInvariance` | `Spec => [](ServerInv /\ StepInv)` | |
| `InStepHolds` | `Spec => []InStep` | |
| `OperatorInvariance` | `Spec => []OperatorInv` | `OperatorProofs` |
| `OperatorTypes` | `Spec => []TypeOK` | |
| `AllOrNothingHolds` | `Spec => []AllOrNothing` | |
| `ConfinedHolds` | `Spec => []Confined` | |
| `AnsweredOnceHolds` | `Spec => []AnsweredOnce` | |
| `OnlyErrorsOvertakeHolds` | `Spec => []OnlyErrorsOvertake` | |
| `CPInvariance` | `CPSpec => []CPInv` | `ControlPlaneProofs` |
| `CPTypes` | `CPSpec => []CPTypeOK` | |
| `OldAreDetachedHolds` | `CPSpec => []OldAreDetached` | |
| `IsolatedHolds` | `CPSpec => []Isolated` | |
| `AuthorisedHolds` | `CPSpec => []Authorised` | |
| `ClientRoundTrip` | `ClientFrame(f)` implies `DecodeClient(Encode(f)) = f` | `WireProofs` |
| `ServerRoundTrip` | `ServerFrame(f)` implies `DecodeServer(Encode(f)) = f` | |
| `WireInvariance` | `Spec => []WireInv` | |
| `WireTypes` | `Spec => []TypeOK` | |
| `ReadAsBuiltHolds` | `Spec => []ReadAsBuilt` | |
| `ServedOnlyIfAdmittedHolds` | `Spec => []ServedOnlyIfAdmitted` | |
| `EndsThereafterHolds` | `Spec => []EndsThereafter` | |
| `LedgerInvariance` | `Spec => []Ledger`, under `Understood` | |
| `AnsweredInOrderHolds` | `Spec => []AnsweredInOrder`, under `Understood` | |
| `NumeralSaysNumber` | `FormatNumber(j)` says the number `j` | `DocumentProofs` |
| `NumbersTell` | `FormatNumber(j) = FormatNumber(k)` if and only if `j` and `k` are one number | |
| `IntegersTell` | an int and the float equal to it are spelled alike, two ints are not | |
| `DeliveredInvariance` | `Spec => []Delivered` | |
| `RelaysInOrderHolds` | `Spec => []RelaysInOrder` | |
| `FlattenIsRight` | for any JSON value, `Flatten` has the path of each leaf, nothing else, and at it a value the document has there; under `Trees`, `Recursion` | |
| `SaysTheDocumentHolds` | `Spec => []SaysTheDocument`, under `Trees`, `Recursion`, `MadeOfDocuments` | |

None of the state machines' properties is inductive. Each invariant adds what ties its properties
together; TLC was asked about every one before it was proved, and the step proofs
have one lemma per action.

**`StreamInv`.**

* `LogOK`: numbers in the history count emissions, and a leaf that no entry of
  a stretch wrote has the same value at both ends of it;
* `SceneOK`: store and counter are those of the newest entry, and the ring holds
  a contiguous tail of the emissions (`Contiguous`), each as the history has it;
* `SessionOK`: what is in hand and in the queue is ordered by `at`, everything in
  hand is older than everything queued, each frame says what its entry says, and
  a receiver's number is that of the entry it reflects;
* `NothingLost` itself, which is what makes the next delta follow: if every
  unabsorbed emission is on its way and the frames are in order, the head carries
  the next number.

**The mirror.** `StreamInv` decides what a step of the stream is to a reader: an
absorbed snapshot is a `Jump`, since its entry is not older than the copy's; an absorbed
delta is a `Follow`, since with nothing lost its entry is the next announced one; a
change of the store is a `Change`; a send, a drop, a reconnection or a gap is a stutter.

**`ServerInv`.**

* `TypeInv`: also that a frame under way is of a scene that was made, that an
  open session has one, and that a ring is in order (`Increasing`): with the holes that
  a `SceneChanged` leaves in the numbers it is not contiguous, so what a resume returns is
  here all records after a number, and no more is claimed;
* `RegistryInv`: the active name has a scene, no scene has two names, and none of those
  whose reset is to come has one. Without it `set_active` could move subscribers out of a
  scene into itself;
* `OwnerInv`: which scene may hold on to a session at each of its stages; a subscriber's scene is registered or
  in `resets`, and an open session that is not closed has one. `LiveOnActive` and
  `NoGhosts` are not kept by `Finish` and `ResetAll` without that.

**`StepInv`.** From the state a receiver shows, over the frame in the writer's hands
and those queued, to the last frame its scene sent there is one chain (`Chain`, `Arrives`): a delta
comes after one of the same scene with a smaller number, the next one if a snapshot came
before and the session is live, and only a snapshot follows a `SceneChanged`. That holds
while nothing was dropped, the pipe is open and the receiver has not given up (`Followed`).
A resume with a number of another scene is chained to the scene it is now on.

**`OperatorInv`.** `CauseInv`: a change that comes from an Input is that of an accepted
frame and wrote what `dict()` made of its patches, and later changes come from later
frames, which is why a frame has one change at most. For a session there are five parts. `LifeInv`: what its stage
allows it to hold. `FrameInv`: frames under way tell of changes in their order.
`ToldInv`: what the client has had are answers to frames of its own, none twice and only an
error ahead of an echo; behind an echo no frame of its change or an older one is still to come (`Passed`). `ReplyInv`: the error the reader
is sending is to the newest frame of this client, which changed nothing. `KeptInv`: nothing dropped,
every frame has been answered, or the reader has its error in hand, or its delta is
under way; with empty hands and queue that is `AnsweredOnce`. `AsDictFacts`, `VerdictFacts` and
`WritesItsOwn` say what the rules of `InputRules` come to: `dict()` keeps the last value of each path, an accepted
list has no patch that would be refused, and prefixes grant no leaf outside the subtrees of `Territory`.

**`CPInv`.** `ServerInv` holds in `ControlPlane` as well: a setup is a reset of all, some
registrations and their deferred resets at once, and is proved to keep it (`SetupServer`), the rest
by the lemmas of `ServerProofs`. Above it, `TableInv` has no scene or session of a scenario to come,
and `EraInv` has registered scenes of the present one, an open session of the one its scene
was made in, with nothing under way to it and no scene holding on to it but that one; and while its scene is registered,
the table has its token as it was when it was admitted. That its scene is registered cannot
outlast a change of the table is what `Authorised` needs: both happen in one step.

**The round trips.** The encoder treats fields in four ways: it writes them as they are,
leaves out `None`, leaves out whatever is falsy, or turns a record into an object without the
fields that are `None`. One lemma each says what a decoder finds there (`PlainField`,
`NullableField`, `EmptiableField`, `SparseFieldOfFrame`), one that no conversion of a
typed field fails or changes it (`Values`), and one per frame puts them together. Where a
field is declared a JSON value, as a nonce or a patch's value, the theorem is for any value.
The one value a type allows that does not survive is a `from_scene_id` of `""`, which
is left out and read as `None`; `IsSceneChanged` excludes it.

**`WireInv`.** `Hands`: a reply is of the frames a server may say, and before and after the
session neither coroutine is sending. `Admission`: what was heard first is an admitted
Subscribe as soon as the handshake is through, and something has been heard when
anything was served, without which the next text heard could become the first.
`Farewell`: after a goodbye the reader is done, and the writer too once
it has sent the frame it had; `EndsThereafter` alone would allow it a second one.
The first frame admitted is a whole `Subscribe` because a decoder either fails or gives every field
(`SubscribeIsWhole`).

**`Ledger`.** `AnsweredInOrder` compares what the texts heard are owed with what was said,
each put together from a sequence of short ones (`FlattenSeq`). Whichever text comes next, the
debt grows by what that text is owed (`OwingGrows`) and what is in the reader's hands
is exactly that (`DispatchOwes`); whatever is said next, what is paid grows by it (`AnswersGrow`). So during a
session that has ended for no reason yet, debt is what was paid and what is in hand. Why a text
is owed what `Owed` says is `ClientRoundTrip` for the frames the codec built; for the others, which the
constants `Loose` and `Unfit` describe, `Understood` says that the description is what
`DecodeClient` makes of them. TLC has evaluated it for the texts of `MCWire`; it is no `ASSUME`, because
the mistakes that `AnsweredInOrder` is there to find would then be excluded.

**Numbers.** `Marks` of a sequence of digits is the set of those other than 0, each at its power of ten.
`Repr`, which pads with zeros and moves the point, keeps the marks of a number (`ReprSays`);
`ShortestDigits`, which strips zeros at both ends, keeps them and leaves a sequence that begins and
ends with a digit that counts (`ShortestDigitsSay`); `FormatNumber` writes them again (`SpelledSays`). That is
`NumeralSaysNumber`. Two trimmed sequences with the same marks are one (`MarksTell`): the first
place of each is the greatest power, the last the least, and between them the marks say everything.
Hence `NumbersTell`, for any digits and any place of the point, on both sides of each threshold. The hypothesis
`WellFormed` is that a float has digits, some of them not 0 unless it is zero; `DigitsOfTyped`
proves it for ints, whose digits come out of a division, and `DigitsOfTell` that no two have the same,
both by a least counterexample. That `float()` is exact is true of integers below 2^52 with a half or without,
so `Exact` ends there. The shortest digits that tell a float from others are Python's and taken as given.

**`Delivered`, `Shown`.** Of the texts an upstream has sent, the relay has taken the first `n`, the next
`k` are under way, and either they are all or a close follows them (`Account`). That the relay
loses and reorders nothing is then that `n` is counted up as `wire` is taken from the front. For
the poller, `Shown` has what was answered be a document, and the store a function of paths: what another
adapter writes in between counts as a later write to the path and changes no other. What it rests on is that
each leaf of a document is in its flattening, at the path that leads to it, with a value the document has there (`FlattensRight`).
That is `FlattenIsRight`, for documents of any depth and width: of the values for which it failed take one of the
least depth; it is no scalar (`ScalarRight`), and for a dict it follows from the values in it (`DictRight`), as a
dict updated with others has their keys and, at each, what one of them has there (`UpdatedHas`). The hypotheses are that a
value's parts are less deep than it (`Trees`), that `Flatten` and `LeavesOf` are what one call of each says
(`Recursion`, the `RECURSIVE` definitions of `MCAdapters` word for word), and that the constants of `Adapters` are made
with them (`MadeOfDocuments`).

`SceneProofs` has the lemmas on the operators: `Push` keeps the ring contiguous, or
in order, `RecordsAfter` is the records after the number, the queue operations keep
order, flags and bounds.

## Only model-checked, and not modelled

Model-checked only:

* `TypeOK`, `PassIsEarned`, `ShadowIsPast`, `FailsOnlyIfLate` and `HashesTell` of `Harness`. The runner compares
  templates with values and hashes bundles, all of them trees (`Match`, `Bundles`), and what a recursive
  operator computes for every tree is out of this prover's reach: a module that reaches one cannot be proved
  about at all. (`FlattenIsRight` goes around that with a constant for the operator and its equation for a
  hypothesis, for a function of two equations.) Two of them are besides about scripts and not about the runner alone: `ShadowIsPast`,
  on which `PassIsEarned` rests, is true of a script that emits no more than a queue has
  room for and does not resume in the middle of a stream, as none of those played does; and `FailsOnlyIfLate` depends on
  what makes a scenario `sound`. The part of `HashesTell` that is not recursion, numbers, is `NumbersTell`;
* `Understood`, about texts somebody else built;
* `Converges`, `GoneIsDetached`, `ResetEndsWriter`, `Settles`, `RunsToEnd` and `KeepsUp`, because liveness
  under fairness is out of this prover's reach.

Left out for good: the command line (arguments, files, console and process start
around the components above); the YAML parser; SHA-256 and the escaping of strings in
the hash, taken for functions that keep texts apart; `validate_path` and `substitute`
of `leaf_path.py`, which the server does not call; `Scene.set_version`, a setter for the
time before subscribers attach; logging, timestamps and the wording of messages. The lock
inside the tracker is never contended: all its callers run on the event loop.
