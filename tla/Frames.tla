--------------------------------- MODULE Frames ---------------------------------
(****************************************************************************)
(* protocol/frames.py: what the fields of each typed frame may hold.  Where *)
(* any JSON will do, as for a value or a nonce, nothing is asked; an empty  *)
(* string is no scene to come from.                                         *)
(****************************************************************************)
EXTENDS Codec

IsText(j) == j.is = "str" /\ j = Str(j.s)
IsInt(j) == j.is = "int" /\ j = Num(j.n)
IsFloat(j) == j.is = "float" /\ j = Real(j.n, j.whole)
IsDict(j) == j.is = "object" /\ j = Obj(j.fields) /\ (DOMAIN j.fields = {} => j = Obj(<<>>))

IsTransitionSpec(r) ==
  /\ r = [kind |-> r.kind, duration_ms |-> r.duration_ms, easing |-> r.easing,
          stiffness |-> r.stiffness, damping |-> r.damping]
  /\ r.kind \in {Str(w) : w \in Kinds}
  /\ r.duration_ms = Null \/ IsInt(r.duration_ms)
  /\ r.easing = Null \/ r.easing \in {Str(w) : w \in Easings}
  /\ r.stiffness = Null \/ IsFloat(r.stiffness)
  /\ r.damping = Null \/ IsFloat(r.damping)

IsPatch(p) ==
  /\ p = [path |-> p.path, value |-> p.value, transition |-> p.transition]
  /\ IsText(p.path)
  /\ p.transition = Null \/ IsTransitionSpec(p.transition)

ArePatches(ps) == ps = [i \in DOMAIN ps |-> ps[i]] /\ \A i \in DOMAIN ps : IsPatch(ps[i])

IsCause(r) == r = [source |-> r.source, input_id |-> r.input_id] /\ IsText(r.source)

IsSceneTransition(r) ==
  /\ r = [kind |-> r.kind, duration_ms |-> r.duration_ms]
  /\ IsText(r.kind)
  /\ r.duration_ms = Null \/ IsInt(r.duration_ms)

IsSubscribe(f) ==
  /\ f = [type |-> "subscribe", token |-> f.token, scene |-> f.scene, session |-> f.session,
          since_sequence |-> f.since_sequence]
  /\ IsText(f.scene) /\ IsText(f.session)
  /\ f.since_sequence = Null \/ IsInt(f.since_sequence)

IsInput(f) ==
  /\ f = [type |-> "input", patches |-> f.patches, client_msg_id |-> f.client_msg_id]
  /\ ArePatches(f.patches)

IsHeartbeat(f) == f = [type |-> f.type, nonce |-> f.nonce]

ClientFrame(f) ==
  \/ f.type = "subscribe" /\ IsSubscribe(f)
  \/ f.type = "input" /\ IsInput(f)
  \/ f.type \in {"ping", "pong"} /\ IsHeartbeat(f)
  \/ f = [type |-> "unsubscribe"]

IsSnapshot(f) ==
  /\ f = [type |-> "snapshot", seq |-> f.seq, ts |-> f.ts, scene_id |-> f.scene_id,
          scene_version |-> f.scene_version, state |-> f.state]
  /\ IsInt(f.seq) /\ IsText(f.ts) /\ IsDict(f.state)

IsDelta(f) ==
  /\ f = [type |-> "delta", seq |-> f.seq, ts |-> f.ts, patches |-> f.patches, cause |-> f.cause]
  /\ IsInt(f.seq) /\ IsText(f.ts) /\ ArePatches(f.patches)
  /\ f.cause = Null \/ IsCause(f.cause)

IsSceneChanged(f) ==
  /\ f = [type |-> "scene_changed", seq |-> f.seq, ts |-> f.ts, scene_id |-> f.scene_id,
          scene_version |-> f.scene_version, from_scene_id |-> f.from_scene_id,
          transition |-> f.transition]
  /\ IsInt(f.seq) /\ IsText(f.ts)
  /\ f.from_scene_id = Null \/ (IsText(f.from_scene_id) /\ f.from_scene_id # Str(""))
  /\ f.transition = Null \/ IsSceneTransition(f.transition)

IsError(f) ==
  /\ f = [type |-> "error", seq |-> f.seq, ts |-> f.ts, code |-> f.code, message |-> f.message,
          recoverable |-> f.recoverable, retry_after_ms |-> f.retry_after_ms, path |-> f.path]
  /\ IsInt(f.seq) /\ IsText(f.ts) /\ IsInt(f.retry_after_ms)
  /\ f.recoverable \in {Bool(TRUE), Bool(FALSE)}

ServerFrame(f) ==
  \/ f.type = "snapshot" /\ IsSnapshot(f)
  \/ f.type = "delta" /\ IsDelta(f)
  \/ f.type = "scene_changed" /\ IsSceneChanged(f)
  \/ f.type = "error" /\ IsError(f)
  \/ f.type \in {"ping", "pong"} /\ IsHeartbeat(f)

==============================================================================
