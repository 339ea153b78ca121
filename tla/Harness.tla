-------------------------------- MODULE Harness --------------------------------
(****************************************************************************)
(* The conformance runner of conformance/harness.py, driven through         *)
(* interop/http_driver.py against this package's own server.                *)
(*                                                                          *)
(* A scenario is a script of frames to send and templates to meet.  The     *)
(* runner seeds a scene with what the script itself expects, plays its      *)
(* steps over one WebSocket, mirrors the scene in a shadow, and judges.  It *)
(* has no clock of the server's: where it waits, it waits 2 s, 150 ms or as *)
(* long as the script says, and a deadline may pass while a frame is still  *)
(* on its way.                                                              *)
(*                                                                          *)
(* The server is one scene and one session.  Its reader answers directly    *)
(* and its writer drains the queue, so an error may overtake a delta.       *)
(****************************************************************************)
EXTENDS Dialogue, Match, Bundles, TLC

CONSTANTS Plans,        \* the sequences of scenarios that may be run
          SkipNames,    \* Config.skip_scenarios
          TagFilter,    \* Config.tag_filter, or "every"
          TokenOf,      \* the driver's tokens: [placeholder -> token], as JSON
          RoleOf,       \* the role the control plane gives a placeholder, or "none"
          Leaves,       \* the leaf paths scenarios use
          Segments,     \* [Leaves -> the path split at its dots]
          LeafValues,   \* the values they give them
          Missing,      \* what a leaf that is not there reads as
          SceneNames,   \* names of scenes
          ZeroHash,
          QueueMax, ReplayMax

SX == INSTANCE SequencesExt

S == INSTANCE Scene WITH Paths <- Leaves, Values <- LeafValues, NoValue <- Missing,
                         SceneIds <- SceneNames

I == INSTANCE InputRules WITH NoPath <- <<>>

VARIABLES plan,         \* the scenarios to run
          results,      \* the outcomes so far: [name, outcome]
          mode,         \* "idle", "setup", "step", "emit" or "expect"
          pc,           \* the step that is next
          shadow,       \* runtime_state: [some leaves -> JSON]
          srv,          \* the server, see Fresh
          up,           \* client frames on their way
          down,         \* [json], server frames on their way, and [close], its close
          met,          \* history: the frames that met a template, in order
          fault         \* history: a deadline passed with something on its way, or a
                        \* request to the control plane did not get through

script == <<plan, results, mode, pc, shadow>>
vars == <<plan, results, mode, pc, shadow, srv, up, down, met, fault>>

Scenario == plan[Len(results) + 1]
Step == Scenario.steps[pc]
At(kind) == mode = "step" /\ pc <= Len(Scenario.steps) /\ Step.kind = kind

Runnable == {"client-sends", "server-sends", "server-emits", "expect-runtime-state",
             "expect-server-state", "expect-no-frame-for", "expect-client-action", "wait"}

------------------------------------------------------------------------------
(* What HTTPDriver.setup asks for: a scene made of the script's own         *)
(* expectations where it declares no bundle.                                *)

ServerFrames(sc) ==
  LET sends == SelectSeq(sc.steps, LAMBDA st : st.kind = "server-sends")
  IN  [i \in DOMAIN sends |-> sends[i].frame.fields]

(* The first of a key's texts that is not empty and not the one sentinel    *)
(* looked for under that key: the other one is taken at its word.           *)
FirstText(sc, key, sentinel, default) ==
  LET texts == SelectSeq(ServerFrames(sc), LAMBDA f :
                 Get(f, key, Null).is = "str" /\ f[key] \notin {Str(""), sentinel})
  IN  IF texts = <<>> THEN default ELSE texts[1][key]

Seed(sc) ==
  LET snaps == SelectSeq(ServerFrames(sc), LAMBDA f : Get(f, "type", Null) = Str("snapshot"))
      state == Get(snaps[1], "state", Null)
  IN  IF snaps = <<>> \/ state.is # "object" THEN <<>>
      ELSE [k \in {x \in DOMAIN state.fields : state.fields[x] \notin {SentinelAny, SentinelAnyHash}} |->
              state.fields[k]]

InputPaths(sc) ==
  LET paths == {p \in DOMAIN Seed(sc) : I!Under(Segments[p], "__inputs") /\ Len(Segments[p]) > 1}
  IN  SX!SetToSeq({Obj([path |-> Str(p)]) : p \in paths})

(* The first bundle is the one that is played.                              *)
Bundle(sc) ==
  IF sc.bundles # <<>>
    THEN LET sceneId == Get(sc.bundles[1].inline.fields, "scene_id", Null)
         IN  [id     |-> IF sceneId.is = "str" THEN OrElse(sceneId, Str(sc.bundles[1].id)).s
                         ELSE sc.bundles[1].id,
              hash   |-> sc.bundles[1].hash,
              inline |-> sc.bundles[1].inline.fields]
    ELSE [id     |-> FirstText(sc, "scene_id", SentinelAny, Str(sc.name)).s,
          hash   |-> FirstText(sc, "scene_version", SentinelAnyHash, ZeroHash),
          inline |-> IF InputPaths(sc) = <<>> THEN <<>>
                     ELSE [operator_inputs |-> List(InputPaths(sc))]]

HashName(b) == Str("$BUNDLE." \o b.id \o ".hash")

Placeholders(sc) ==
  [h \in DOMAIN TokenOf \cup {HashName(sc.bundles[i]) : i \in DOMAIN sc.bundles} |->
     IF h \in DOMAIN TokenOf THEN TokenOf[h]
     ELSE sc.bundles[SX!SelectLastInSeq(sc.bundles, LAMBDA b : HashName(b) = h)].hash]

Fill(j) == Substitute(j, Placeholders(Scenario))

Accounts ==
  [t \in {TokenOf[h] : h \in {x \in DOMAIN TokenOf : RoleOf[x] # "none"}} |->
     RoleOf[CHOOSE h \in DOMAIN TokenOf : TokenOf[h] = t /\ RoleOf[h] # "none"]]

(* Before anything else the seed, or, where a script shows none, the        *)
(* bundle's defaults.                                                       *)
InitialState(sc) ==
  IF DOMAIN Seed(sc) # {} THEN Seed(sc) ELSE FieldsOf(Get(Bundle(sc).inline, "defaults", Null))

Declared(sc) ==
  LET specs == ParseInlineSpecs(Get(Bundle(sc).inline, "operator_inputs", Null))
  IN  [path \in {Segments[p] : p \in DOMAIN specs} |->
         specs[CHOOSE p \in DOMAIN specs : Segments[p] = path]]

(* status  "new", "on", "deaf" once the reader has ended, "over"            *)
Fresh(sc) ==
  LET scene == S!NewScene(Bundle(sc).id)
      state == InitialState(sc)
  IN  [scene    |-> IF DOMAIN state = {} THEN scene ELSE S!Seeded(scene, state),
       version  |-> OrElse(Bundle(sc).hash, ZeroHash),
       declared |-> Declared(sc),
       status   |-> "new",
       role     |-> "none",
       pipe     |-> S!NewSubscription(TRUE)]

NoServer == [status |-> "over"]

------------------------------------------------------------------------------

(* The bundles of a scenario are hashed when it is loaded.                  *)
Loaded(sc) == [sc EXCEPT !.bundles = ParseBundles(@)]

Init ==
  /\ \E scenarios \in Plans : plan = [i \in DOMAIN scenarios |-> Loaded(scenarios[i])]
  /\ results = <<>>
  /\ mode = "idle"
  /\ pc = 1
  /\ shadow = <<>>
  /\ srv = NoServer
  /\ up = <<>>
  /\ down = <<>>
  /\ met = <<>>
  /\ fault = FALSE

(* The end of a scenario; leaving the `async with` closes the socket.       *)
Judge(outcome) ==
  /\ results' = Append(results, [name |-> Scenario.name, outcome |-> outcome])
  /\ mode' = "idle"
  /\ up' = <<>>
  /\ UNCHANGED <<plan, pc, shadow, srv, down, met>>

Fail == Judge("FAIL")

Excluded(sc) ==
  \/ sc.name \in SkipNames
  \/ TagFilter \notin {"every", sc.tag}
  \/ sc.target = "runtime"
  \/ \E i \in DOMAIN sc.steps : sc.steps[i].kind \notin Runnable

Skip ==
  /\ mode = "idle" /\ Len(results) < Len(plan)
  /\ Excluded(Scenario)
  /\ fault' = FALSE
  /\ Judge("SKIP")

(* The driver's request to the control plane, what the server does on it,   *)
(* and the WebSocket; or the one or the other fails or takes too long.      *)
Setup ==
  /\ mode = "idle" /\ Len(results) < Len(plan)
  /\ ~Excluded(Scenario)
  /\ mode' = "setup" /\ pc' = 1
  /\ shadow' = <<>>
  /\ srv' = NoServer
  /\ up' = <<>> /\ down' = <<>> /\ met' = <<>>
  /\ fault' = FALSE
  /\ UNCHANGED <<plan, results>>

ServerSetsUp ==
  /\ mode = "setup"
  /\ srv = NoServer
  /\ srv' = Fresh(Scenario)
  /\ UNCHANGED <<script, up, down, met, fault>>

Dial ==
  /\ mode = "setup"
  /\ srv # NoServer
  /\ mode' = "step"
  /\ UNCHANGED <<plan, results, pc, shadow, srv, up, down, met, fault>>

SetupFails ==
  /\ mode = "setup"
  /\ fault' = TRUE
  /\ Fail

Done ==
  /\ mode = "step" /\ pc > Len(Scenario.steps)
  /\ Judge("PASS")
  /\ UNCHANGED fault

------------------------------------------------------------------------------
(* Steps that do not wait for a frame.                                      *)

StickyAdvance == mode' = mode /\ pc' = pc + 1   \* a mistake to be caught

Advance == mode' = "step" /\ pc' = pc + 1

ClientSends ==
  /\ At("client-sends")
  /\ up' = Append(up, Fill(Step.frame))
  /\ Advance
  /\ UNCHANGED <<plan, results, shadow, srv, down, met, fault>>

Closing == \E i \in DOMAIN down : "close" \in DOMAIN down[i]

SendRaises ==
  /\ At("client-sends")
  /\ Closing
  /\ Fail
  /\ UNCHANGED fault

Wait ==
  /\ At("wait")
  /\ Advance
  /\ UNCHANGED <<plan, results, shadow, srv, up, down, met, fault>>

Holds(template, state) ==
  \A k \in DOMAIN template : k \in DOMAIN state /\ Matches(template[k], state[k])

StateOf(store) == [p \in {x \in Leaves : store[x] # Missing} |-> store[p]]

StateStep(state) ==
  IF Holds(Step.state, state)
    THEN Advance /\ UNCHANGED <<plan, results, shadow, srv, up, down, met>>
    ELSE Fail

ExpectRuntimeState ==
  /\ At("expect-runtime-state")
  /\ StateStep(shadow)
  /\ UNCHANGED fault

(* The driver asks the server, or, where the request fails, the shadow has  *)
(* to do.                                                                   *)
ExpectServerState ==
  /\ At("expect-server-state")
  /\ \/ StateStep(StateOf(srv.scene.store)) /\ UNCHANGED fault
     \/ StateStep(shadow) /\ fault' = TRUE

------------------------------------------------------------------------------
(* Steps that wait.  A deadline may pass at any time: the frame or the      *)
(* close that could have been read is then on its way.                      *)

OnItsWay == up # <<>> \/ down # <<>> \/ (srv.status = "on" /\ srv.pipe.queue # <<>>)

Deadline == fault' = (fault \/ OnItsWay)

Arrived == down # <<>> /\ "json" \in DOMAIN down[1]
Closed == down # <<>> /\ "close" \in DOMAIN down[1]

(* A snapshot replaces the shadow, a delta writes its patches in order.     *)
Absorbed(frame) ==
  LET f       == frame.fields
      state   == OrElse(Get(f, "state", Null), Obj(<<>>))
      patches == OrElse(Get(f, "patches", Null), List(<<>>)).items
      Write(patch, leaves) == (patch.fields["path"].s :> Get(patch.fields, "value", Null)) @@ leaves
  IN  CASE f["type"] = Str("snapshot") -> state.fields
        [] f["type"] = Str("delta")    -> SX!FoldLeft(LAMBDA leaves, patch : Write(patch, leaves),
                                                      shadow, patches)
        [] OTHER -> shadow

(* server-emits first makes room for the echo of an earlier input.          *)
BlindDrain ==           \* a mistake to be caught: the frame is read and forgotten
  /\ At("server-emits")
  /\ Arrived
  /\ down' = Tail(down)
  /\ mode' = "emit"
  /\ UNCHANGED <<plan, results, pc, shadow, srv, up, met, fault>>

DrainFrame ==
  /\ At("server-emits")
  /\ Arrived
  /\ shadow' = Absorbed(down[1].json)
  /\ down' = Tail(down)
  /\ mode' = "emit"
  /\ UNCHANGED <<plan, results, pc, srv, up, met, fault>>

DrainTimeout ==
  /\ At("server-emits")
  /\ Deadline
  /\ mode' = "emit"
  /\ UNCHANGED <<plan, results, pc, shadow, srv, up, down, met>>

(* The patches of an emission, of which the last for a path counts.         *)
EmittedPatches ==
  LET items == Get(Step.frame.fields, "patches", List(<<>>)).items
      patches == [i \in DOMAIN items |->
                    [path |-> Segments[Fill(items[i]).fields["path"].s],
                     value |-> Get(Fill(items[i]).fields, "value", Null)]]
      written == I!AsDict(patches)
  IN  [p \in {x \in Leaves : Segments[x] \in DOMAIN written} |-> written[Segments[p]]]

Broadcast(patches, server) ==
  LET scene == S!Emitted(server.scene, patches)
      pipes == S!FanOut(scene, ("client" :> server.pipe))
  IN  [server EXCEPT !.scene = scene, !.pipe = pipes["client"]]

Emit ==
  /\ mode = "emit"
  /\ IF Get(Step.frame.fields, "type", Null) = Str("delta") /\ DOMAIN EmittedPatches # {}
       THEN /\ srv' = Broadcast(EmittedPatches, srv)
            /\ mode' = "expect"
            /\ UNCHANGED <<plan, results, pc, shadow, up, down, met>>
       ELSE Fail
  /\ UNCHANGED fault

EmitFails ==
  /\ mode = "emit"
  /\ fault' = TRUE
  /\ Fail

Expecting == At("server-sends") \/ mode = "expect"

ExpectFrame ==
  /\ Expecting
  /\ Arrived
  /\ IF Matches(Fill(Step.frame), down[1].json)
       THEN /\ shadow' = Absorbed(down[1].json)
            /\ met' = Append(met, down[1].json)
            /\ down' = Tail(down)
            /\ Advance
            /\ UNCHANGED <<plan, results, srv, up>>
       ELSE Fail
  /\ UNCHANGED fault

(* TimeoutError, or the ConnectionClosed that recv raises.                  *)
RaisesInRecv ==
  /\ Expecting \/ At("server-emits")
  /\ Closed
  /\ Fail
  /\ UNCHANGED fault

HopefulTimeout ==       \* a mistake to be caught: no deadline on a silent server
  /\ Expecting
  /\ OnItsWay
  /\ Deadline
  /\ Fail

ExpectTimeout ==
  /\ Expecting
  /\ Deadline
  /\ Fail

Pass == Advance /\ UNCHANGED <<plan, results, shadow, srv, up, down, met>>

NoFrame ==
  /\ At("expect-no-frame-for")
  /\ \/ Arrived /\ Fail /\ UNCHANGED fault
     \/ /\ Closed
        /\ IF down[1].close \in {1000, 1001, 1005} THEN Pass ELSE Fail
        /\ UNCHANGED fault
     \/ Deadline /\ Pass

ClientAction ==
  /\ At("expect-client-action")
  /\ IF Step.action \notin {"close-with-reason", "reconnect"}
       THEN Judge("SKIP") /\ UNCHANGED fault
       ELSE \/ Arrived /\ Fail /\ UNCHANGED fault
            \/ Closed /\ Pass /\ UNCHANGED fault
            \/ Deadline /\ Pass

(* Thirty seconds are over.                                                 *)
ScenarioTimeout ==
  /\ mode # "idle"
  /\ fault' = TRUE
  /\ Fail

------------------------------------------------------------------------------
(* The server: the reader, the writer.                                      *)

Leaf(p, v) == [path |-> Str(p), value |-> v, transition |-> Null]

(* A frame of the scene in JSON.  An emission of a scenario writes one leaf.*)
OnTheWire(f) ==
  IF f.type = "snapshot"
    THEN Encode([type |-> "snapshot", seq |-> Num(f.seq), ts |-> Str(""),
                 scene_id |-> Str(f.scene), scene_version |-> srv.version,
                 state |-> Obj(StateOf(f.state))])
    ELSE LET written == SX!SetToSeq(DOMAIN f.patches)
         IN  Encode([type |-> "delta", seq |-> Num(f.seq), ts |-> Str(""), cause |-> Null,
                     patches |-> [i \in DOMAIN written |->
                                    Leaf(written[i], f.patches[written[i]])]])

Sent(f) == [json |-> f]
Close(code) == [close |-> code]

Greeting(f) ==
  LET since == IF f.since_sequence = Null THEN 0 ELSE f.since_sequence.n
      frames == S!InitialFrames(srv.scene, since)
  IN  [i \in DOMAIN frames |-> Sent(OnTheWire(frames[i]))]

Admit(f) ==
  LET outcome == Outcome(f, Accounts, {Str(srv.scene.id)}, TRUE)
  IN  CASE outcome = "admitted" ->
             /\ srv' = [srv EXCEPT !.status = "on", !.role = Accounts[f.token],
                                   !.scene = S!Attached(@, "client")]
             /\ down' = down \o Greeting(f)
        [] outcome = "version" ->
             /\ srv' = [srv EXCEPT !.status = "over"]
             /\ down' = Append(down, Close(1002))
        [] OTHER ->
             /\ srv' = [srv EXCEPT !.status = "over"]
             /\ down' = down \o <<Sent(Encode(Error(outcome, 0, FALSE, Null))), Close(1008)>>

InputPatches(f) ==
  [i \in DOMAIN f.patches |-> [path |-> Segments[f.patches[i].path.s], value |-> f.patches[i].value]]

OK == [code |-> "OK", path |-> Null]

(* What apply_input says of a frame.                                        *)
VerdictOn(f) ==
  LET typed == [i \in DOMAIN f.patches |-> [InputPatches(f)[i] EXCEPT !.value = Typed(@)]]
      verdict == I!Verdict([role |-> srv.role, paths |-> {}], srv.declared, typed)
  IN  IF verdict.code = "OK" THEN OK
      ELSE [code |-> verdict.code,
            path |-> IF f.patches = <<>> THEN Null
                     ELSE Str(CHOOSE p \in Leaves : Segments[p] = verdict.path)]

Dispatch(f) ==
  LET verdict == IF Failed(f) THEN OK ELSE IF f.type = "input" THEN VerdictOn(f) ELSE OK
      reply   == Answer(f, verdict, srv.scene.seq)
      written == I!AsDict(InputPatches(f))
  IN  /\ srv' = IF Failed(f) THEN [srv EXCEPT !.status = "deaf"]
                ELSE IF f.type = "unsubscribe" THEN [srv EXCEPT !.status = "over"]
                ELSE IF f.type = "input" /\ verdict = OK
                  THEN Broadcast([p \in {x \in Leaves : Segments[x] \in DOMAIN written} |->
                                    written[Segments[p]]], srv)
                ELSE srv
      /\ down' = IF ~Failed(f) /\ f.type = "unsubscribe" THEN Append(down, Close(1000))
                 ELSE down \o [i \in DOMAIN reply |-> Sent(Encode(reply[i]))]

ServerReads ==
  /\ mode # "idle"
  /\ up # <<>>
  /\ \/ srv.status = "new" /\ Admit(DecodeClient(up[1]))
     \/ srv.status = "on" /\ Dispatch(DecodeClient(up[1]))
  /\ up' = Tail(up)
  /\ UNCHANGED <<script, met, fault>>

(* What an ASGI server, which is not in this repository, does to the socket *)
(* of a handler that returned without a close.                              *)
Hangups == {<<Close(1000)>>, <<Close(1006)>>}

(* Once the reader has ended the writer sends what it has got and returns.  *)
ServerWrites ==
  /\ mode # "idle"
  /\ srv.status \in {"on", "deaf"}
  /\ srv.pipe.queue # <<>>
  /\ \E hangup \in IF srv.status = "deaf" THEN Hangups ELSE {<<>>} :
       down' = down \o <<Sent(OnTheWire(srv.pipe.queue[1]))>> \o hangup
  /\ srv' = [srv EXCEPT !.pipe.queue = Tail(@),
                        !.status = IF @ = "deaf" THEN "over" ELSE @]
  /\ UNCHANGED <<script, up, met, fault>>

------------------------------------------------------------------------------

(* The runner without its last resort, ScenarioTimeout.                     *)
Play ==
  \/ Skip \/ Setup \/ Dial \/ SetupFails \/ Done
  \/ ClientSends \/ SendRaises \/ Wait \/ ExpectRuntimeState \/ ExpectServerState
  \/ DrainFrame \/ DrainTimeout \/ Emit \/ EmitFails
  \/ ExpectFrame \/ RaisesInRecv \/ ExpectTimeout
  \/ NoFrame \/ ClientAction

Next == Play \/ ScenarioTimeout \/ ServerSetsUp \/ ServerReads \/ ServerWrites

Spec == Init /\ [][Next]_vars

(* A deadline of asyncio.wait_for passes, an HTTP request returns or times  *)
(* out; of the server and of the network nothing is assumed.                *)
FairSpec == Spec /\ WF_vars(Play)

------------------------------------------------------------------------------
(* Properties.                                                              *)

(* Every variable holds what it is said to hold, and the part of a step     *)
(* that is under way is a part of that kind of step.                        *)
TypeOK ==
  /\ \A i \in DOMAIN results : results[i].outcome \in {"PASS", "FAIL", "SKIP"}
  /\ mode \in {"idle", "setup", "step", "emit", "expect"}
  /\ mode # "idle" => pc \in 1..Len(Scenario.steps) + 1
  /\ mode \in {"emit", "expect"} => /\ pc <= Len(Scenario.steps)
                                    /\ Step.kind = "server-emits"
  /\ DOMAIN shadow \subseteq Leaves
  /\ \A i \in DOMAIN down : DOMAIN down[i] \in {{"json"}, {"close"}}
  /\ fault \in BOOLEAN

JustJudged(outcome) ==
  /\ mode = "idle" /\ results # <<>>
  /\ results[Len(results)].outcome = outcome

Judged == plan[Len(results)]

TemplatesOf(sc) ==
  SelectSeq(sc.steps, LAMBDA st : st.kind \in {"server-sends", "server-emits"})

(* A scenario that passed has met its templates one by one and in order,    *)
(* each with a frame of its own that has everything the template has where  *)
(* the template has it; and each state it asks for is one that the server's *)
(* scene really was in (run_scenarios, match_value).                        *)
PassIsEarned ==
  JustJudged("PASS") =>
    LET templates == TemplatesOf(Judged)
    IN  /\ Len(met) = Len(templates)
        /\ \A i \in DOMAIN met :
             Fits(Substitute(templates[i].frame, Placeholders(Judged)), met[i])
        /\ \A i \in DOMAIN Judged.steps :
             Judged.steps[i].kind \in {"expect-runtime-state", "expect-server-state"} =>
               \E j \in DOMAIN srv.scene.log :
                 Fits(Obj(Judged.steps[i].state), Obj(StateOf(srv.scene.log[j].state)))

(* Frames that are drained to make room for others count as well: whatever  *)
(* a scenario reads and when, the shadow is a state the server's scene was  *)
(* in, never a mixture (_absorb_server_frame).                              *)
ShadowIsPast ==
  mode # "idle" /\ DOMAIN shadow # {} =>
    \E j \in DOMAIN srv.scene.log : StateOf(srv.scene.log[j].state) = shadow

(* Two inline bundles have one hash just when they say the same but for     *)
(* their version: it neither depends on how a number is spelled, 2 or 2.0   *)
(* or 2e0, nor does the text that is hashed say another (format_number).    *)
HashesTell ==
  LET read(b) == [hash |-> b.hash, says |-> Contents(ReplaceSceneVersion(b.inline))]
      bundles == UNION {SX!ToSet(plan[i].bundles) : i \in DOMAIN plan}
      reads == {read(b) : b \in {x \in bundles : x.hash # Str("")}}
  IN  \A x, y \in reads : /\ Contents(x.hash.of) = x.says
                          /\ x.hash = y.hash <=> x.says = y.says

(* Seeded with a script's own expectations the server meets them: a sound   *)
(* scenario fails only when a deadline passed with something on its way.    *)
FailsOnlyIfLate == JustJudged("FAIL") /\ Judged.sound => fault

(* Every scenario is judged, by the deadlines of its own steps alone and    *)
(* whatever the server does not send.                                       *)
RunsToEnd == <>(Len(results) = Len(plan))

==============================================================================
