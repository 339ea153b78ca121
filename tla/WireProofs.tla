------------------------------ MODULE WireProofs ------------------------------
(****************************************************************************)
(* What the codec does to a typed frame, for every frame, and the safety of *)
(* one WebSocket, for every set of frames and texts.                        *)
(****************************************************************************)
EXTENDS Wire, Lists

(* A field of an encoded frame, looked up as a decoder does: what was put   *)
(* there, or the default where the encoder left the field out.              *)
LEMMA EncodedField ==
  ASSUME NEW f, NEW key, NEW default, key # "v"
  PROVE  Get(Encode(f).fields, key, default)
           = IF key \in DOMAIN f /\ ~Omits(key, f[key]) THEN FieldToJson(key, f[key]) ELSE default
<1> DEFINE kept == {"v"} \cup {k \in DOMAIN f : ~Omits(k, f[k])}
           put(k) == IF k = "v" THEN Num(1) ELSE FieldToJson(k, f[k])
<1>1. Encode(f).fields = [k \in kept |-> put(k)]
  BY DEF Encode, Obj
<1>2. key \in kept <=> key \in DOMAIN f /\ ~Omits(key, f[key])
  OBVIOUS
<1>3. key \in kept => Encode(f).fields[key] = put(key)
  BY <1>1
<1>4. DOMAIN Encode(f).fields = kept
  BY <1>1
<1>5. put(key) = FieldToJson(key, f[key])
  OBVIOUS
<1> HIDE DEF kept, put
<1> QED
  BY <1>2, <1>3, <1>4, <1>5 DEF Get

(* The envelope of an encoded frame is accepted and names its type.         *)
LEMMA EncodedEnvelope ==
  ASSUME NEW f, "type" \in DOMAIN f
  PROVE  /\ ParseEnvelope(Encode(f)) = Encode(f)
         /\ ~Failed(Encode(f))
         /\ Encode(f).fields["type"].s = f.type
<1> DEFINE kept == {"v"} \cup {k \in DOMAIN f : ~Omits(k, f[k])}
           put(k) == IF k = "v" THEN Num(1) ELSE FieldToJson(k, f[k])
<1>1. Encode(f) = [is |-> "object", fields |-> [k \in kept |-> put(k)]]
  BY DEF Encode, Obj
<1>2. "v" \in kept /\ "type" \in kept
  BY DEF Omits, LeftOutIfNone, LeftOutIfEmpty
<1>3. put("v") = Num(1)
  OBVIOUS
<1>4. put("type") = Str(f.type)
  BY DEF FieldToJson
<1> HIDE DEF kept, put
<1>5. Encode(f).is = "object" /\ DOMAIN Encode(f) = {"is", "fields"}
  BY <1>1
<1>6. DOMAIN Encode(f).fields = kept /\ Encode(f).fields["v"] = Num(1)
      /\ Encode(f).fields["type"] = Str(f.type)
  BY <1>1, <1>2, <1>3, <1>4
<1>7. Get(Encode(f).fields, "v", Null) = Num(1) /\ Get(Encode(f).fields, "type", Null) = Str(f.type)
  BY <1>2, <1>6 DEF Get
<1>8. Str(f.type).is = "str" /\ Str(f.type).s = f.type
  BY DEF Str
<1>9. Version(Num(1))
  BY DEF Version
<1> QED
  BY <1>5, <1>6, <1>7, <1>8, <1>9 DEF ParseEnvelope, Failed

(* What is read back from one part, or from parts that all convert.         *)
LEMMA NoFailure ==
  ASSUME NEW parts, NEW whole, \A i \in DOMAIN parts : ~Failed(parts[i])
  PROVE  FirstFailure(parts, whole) = whole
<1>1. {i \in DOMAIN parts : Failed(parts[i])} = {}
  OBVIOUS
<1> QED
  BY <1>1 DEF FirstFailure

LEMMA NoFailureOfOne ==
  ASSUME NEW a, NEW whole, ~Failed(a)
  PROVE  FirstFailure(<<a>>, whole) = whole
<1>1. \A i \in DOMAIN <<a>> : ~Failed(<<a>>[i])
  OBVIOUS
<1> QED
  BY <1>1, NoFailure

LEMMA NoFailureOfTwo ==
  ASSUME NEW a, NEW b, NEW whole, ~Failed(a), ~Failed(b)
  PROVE  FirstFailure(<<a, b>>, whole) = whole
<1>1. \A i \in DOMAIN <<a, b>> : ~Failed(<<a, b>>[i])
  OBVIOUS
<1> QED
  BY <1>1, NoFailure

LEMMA NoFailureOfThree ==
  ASSUME NEW a, NEW b, NEW c, NEW whole, ~Failed(a), ~Failed(b), ~Failed(c)
  PROVE  FirstFailure(<<a, b, c>>, whole) = whole
<1>1. \A i \in DOMAIN <<a, b, c>> : ~Failed(<<a, b, c>>[i])
  OBVIOUS
<1> QED
  BY <1>1, NoFailure

LEMMA NoFailureOfFive ==
  ASSUME NEW a, NEW b, NEW c, NEW d, NEW e, NEW whole,
         ~Failed(a), ~Failed(b), ~Failed(c), ~Failed(d), ~Failed(e)
  PROVE  FirstFailure(<<a, b, c, d, e>>, whole) = whole
<1>1. \A i \in DOMAIN <<a, b, c, d, e>> : ~Failed(<<a, b, c, d, e>>[i])
  OBVIOUS
<1> QED
  BY <1>1, NoFailure

(* What the conversions make of values that need none.                      *)
LEMMA Values ==
  /\ ~Failed(Null)
  /\ \A j : IsText(j) => /\ ~Failed(j) /\ j # Null /\ TextOf(j) = j
                         /\ OrElse(j, Str("")) = j /\ (Falsy(j) <=> j = Str(""))
  /\ \A j : IsInt(j) => ~Failed(j) /\ j # Null /\ IntOf(j) = j
  /\ \A j : IsFloat(j) => ~Failed(j) /\ j # Null /\ FloatOf(j) = j
  /\ \A j : IsDict(j) => ~Failed(j) /\ j # Null /\ DictOf(OrElse(j, Obj(<<>>))) = j
<1>1. ~Failed(Null)
  BY DEF Failed, Null
<1>2. ASSUME NEW j, IsText(j)
      PROVE  /\ ~Failed(j) /\ j # Null /\ TextOf(j) = j
             /\ OrElse(j, Str("")) = j /\ (Falsy(j) <=> j = Str(""))
  <2>1. PICK s : j = [is |-> "str", s |-> s]
    BY <1>2 DEF IsText, Str
  <2>2. ~Failed(j) /\ j # Null /\ TextOf(j) = j
    BY <2>1 DEF Failed, Null, TextOf
  <2>3. Falsy(j) <=> j = Str("")
    BY <2>1 DEF Falsy, Null, Bool, Num, Real, Str
  <2> QED
    BY <2>2, <2>3 DEF OrElse
<1>3. ASSUME NEW j, IsInt(j)
      PROVE  ~Failed(j) /\ j # Null /\ IntOf(j) = j
  <2>1. PICK n : j = [is |-> "int", n |-> n]
    BY <1>3 DEF IsInt, Num
  <2> QED
    BY <2>1 DEF Failed, Null, IntOf, Digits, Str
<1>4. ASSUME NEW j, IsFloat(j)
      PROVE  ~Failed(j) /\ j # Null /\ FloatOf(j) = j
  <2>1. PICK n, whole : j = [is |-> "float", n |-> n, whole |-> whole]
    BY <1>4 DEF IsFloat, Real
  <2> QED
    BY <2>1 DEF Failed, Null, FloatOf, Digits, Str
<1>5. ASSUME NEW j, IsDict(j)
      PROVE  ~Failed(j) /\ j # Null /\ DictOf(OrElse(j, Obj(<<>>))) = j
  <2>1. PICK o : j = [is |-> "object", fields |-> o]
    BY <1>5 DEF IsDict, Obj
  <2>2. ~Failed(j) /\ j # Null
    BY <2>1 DEF Failed, Null
  <2>3. Falsy(j) <=> DOMAIN o = {}
    BY <2>1 DEF Falsy, Null, Bool, Num, Real, Str
  <2>4. OrElse(j, Obj(<<>>)) = j
    BY <1>5, <2>1, <2>3 DEF OrElse, IsDict
  <2> QED
    BY <2>1, <2>2, <2>4 DEF DictOf
<1> QED
  BY <1>1, <1>2, <1>3, <1>4, <1>5

(* A field of a record that leaves None out.                                *)
LEMMA SparseField ==
  ASSUME NEW r, NEW key, NEW default
  PROVE  /\ Sparse(r).is = "object" /\ Sparse(r) # Null
         /\ key \in DOMAIN Sparse(r).fields <=> key \in DOMAIN r /\ r[key] # Null
         /\ key \in DOMAIN r /\ r[key] # Null => Sparse(r).fields[key] = r[key]
         /\ Get(Sparse(r).fields, key, default)
              = IF key \in DOMAIN r /\ r[key] # Null THEN r[key] ELSE default
<1> DEFINE kept == {k \in DOMAIN r : r[k] # Null}
<1>1. Sparse(r) = [is |-> "object", fields |-> [k \in kept |-> r[k]]]
  BY DEF Sparse, Obj
<1>2. key \in kept <=> key \in DOMAIN r /\ r[key] # Null
  OBVIOUS
<1> HIDE DEF kept
<1>3. DOMAIN Sparse(r).fields = kept /\ (key \in kept => Sparse(r).fields[key] = r[key])
  BY <1>1
<1>4. Sparse(r).is = "object" /\ Sparse(r) # Null
  BY <1>1 DEF Null
<1> QED
  BY <1>2, <1>3, <1>4 DEF Get

LEMMA WordKept ==
  ASSUME NEW words, NEW j, j \in {Str(w) : w \in words}
  PROVE  OneOf(words, j) = j /\ ~Failed(j) /\ j # Null
<1>1. PICK w \in words : j = Str(w)
  OBVIOUS
<1> QED
  BY <1>1 DEF OneOf, Failed, Str, Null

(* A transition of a patch survives the wire, with the fields it lacks.     *)
LEMMA TransitionRoundTrip ==
  ASSUME NEW r, IsTransitionSpec(r)
  PROVE  ParseTransitionSpec(Sparse(r)) = r /\ ~Failed(r)
<1> DEFINE o == Sparse(r).fields
           kind == OneOf(Kinds, Get(o, "kind", Null))
           duration == Present(o, "duration_ms", IntOf)
           easing == Present(o, "easing", LAMBDA e : OneOf(Easings, e))
           stiffness == Present(o, "stiffness", FloatOf)
           damping == Present(o, "damping", FloatOf)
           spec == [kind |-> kind, duration_ms |-> duration, easing |-> easing,
                    stiffness |-> stiffness, damping |-> damping]
<1>1. r = [kind |-> r.kind, duration_ms |-> r.duration_ms, easing |-> r.easing,
           stiffness |-> r.stiffness, damping |-> r.damping]
  BY DEF IsTransitionSpec
<1>2. DOMAIN r = {"kind", "duration_ms", "easing", "stiffness", "damping"}
  BY <1>1
<1>3. kind = r.kind /\ ~Failed(r.kind)
  <2>1. r.kind \in {Str(w) : w \in Kinds}
    BY DEF IsTransitionSpec
  <2>2. OneOf(Kinds, r.kind) = r.kind /\ ~Failed(r.kind) /\ r.kind # Null
    BY <2>1, WordKept
  <2>3. Get(o, "kind", Null) = IF "kind" \in DOMAIN r /\ r["kind"] # Null THEN r["kind"] ELSE Null
    BY SparseField, Zenon
  <2>4. Get(o, "kind", Null) = r.kind
    BY <1>2, <2>2, <2>3
  <2> QED
    BY <2>2, <2>4
<1>4. duration = r.duration_ms /\ ~Failed(r.duration_ms)
  <2>1. r.duration_ms = Null \/ IsInt(r.duration_ms)
    BY DEF IsTransitionSpec
  <2>2. /\ "duration_ms" \in DOMAIN o <=> "duration_ms" \in DOMAIN r /\ r["duration_ms"] # Null
        /\ "duration_ms" \in DOMAIN r /\ r["duration_ms"] # Null => o["duration_ms"] = r["duration_ms"]
    BY SparseField, Zenon
  <2>3. ~Failed(r.duration_ms) /\ (r.duration_ms # Null => IntOf(r.duration_ms) = r.duration_ms)
    BY <2>1, Values
  <2> QED
    BY <1>2, <2>2, <2>3 DEF Present
<1>5. easing = r.easing /\ ~Failed(r.easing)
  <2>1. r.easing = Null \/ r.easing \in {Str(w) : w \in Easings}
    BY DEF IsTransitionSpec
  <2>2. /\ "easing" \in DOMAIN o <=> "easing" \in DOMAIN r /\ r["easing"] # Null
        /\ "easing" \in DOMAIN r /\ r["easing"] # Null => o["easing"] = r["easing"]
    BY SparseField, Zenon
  <2>3. ~Failed(r.easing) /\ (r.easing # Null => OneOf(Easings, r.easing) = r.easing)
    BY <2>1, WordKept, Values
  <2> QED
    BY <1>2, <2>2, <2>3 DEF Present
<1>6. stiffness = r.stiffness /\ ~Failed(r.stiffness)
  <2>1. r.stiffness = Null \/ IsFloat(r.stiffness)
    BY DEF IsTransitionSpec
  <2>2. /\ "stiffness" \in DOMAIN o <=> "stiffness" \in DOMAIN r /\ r["stiffness"] # Null
        /\ "stiffness" \in DOMAIN r /\ r["stiffness"] # Null => o["stiffness"] = r["stiffness"]
    BY SparseField, Zenon
  <2>3. ~Failed(r.stiffness) /\ (r.stiffness # Null => FloatOf(r.stiffness) = r.stiffness)
    BY <2>1, Values
  <2> QED
    BY <1>2, <2>2, <2>3 DEF Present
<1>7. damping = r.damping /\ ~Failed(r.damping)
  <2>1. r.damping = Null \/ IsFloat(r.damping)
    BY DEF IsTransitionSpec
  <2>2. /\ "damping" \in DOMAIN o <=> "damping" \in DOMAIN r /\ r["damping"] # Null
        /\ "damping" \in DOMAIN r /\ r["damping"] # Null => o["damping"] = r["damping"]
    BY SparseField, Zenon
  <2>3. ~Failed(r.damping) /\ (r.damping # Null => FloatOf(r.damping) = r.damping)
    BY <2>1, Values
  <2> QED
    BY <1>2, <2>2, <2>3 DEF Present
<1>8. Sparse(r).is = "object" /\ Sparse(r) # Null
  BY SparseField
<1>9. ParseTransitionSpec(Sparse(r))
        = FirstFailure(<<spec.kind, spec.duration_ms, spec.easing, spec.stiffness, spec.damping>>, spec)
  BY <1>8 DEF ParseTransitionSpec
<1> HIDE DEF o, kind, duration, easing, stiffness, damping
<1>10. spec = r
  BY <1>1, <1>3, <1>4, <1>5, <1>6, <1>7
<1> HIDE DEF spec
<1>11. FirstFailure(<<r.kind, r.duration_ms, r.easing, r.stiffness, r.damping>>, r) = r
  BY <1>3, <1>4, <1>5, <1>6, <1>7, NoFailureOfFive
<1>12. ~Failed(r)
  BY <1>2 DEF Failed
<1> QED
  BY <1>9, <1>10, <1>11, <1>12

LEMMA PatchRoundTrip ==
  ASSUME NEW p, IsPatch(p)
  PROVE  ParsePatch(PatchToDict(p)) = p /\ ~Failed(p)
<1> DEFINE kept == {k \in DOMAIN p : ~(k = "transition" /\ p[k] = Null)}
           put(k) == IF k = "transition" THEN Sparse(p[k]) ELSE p[k]
<1>1. p = [path |-> p.path, value |-> p.value, transition |-> p.transition]
  BY DEF IsPatch
<1>2. DOMAIN p = {"path", "value", "transition"}
  BY <1>1
<1>3. PatchToDict(p) = [is |-> "object", fields |-> [k \in kept |-> put(k)]]
  BY DEF PatchToDict, Obj
<1>4. /\ "path" \in kept /\ "value" \in kept
      /\ "transition" \in kept <=> p.transition # Null
  BY <1>2
<1>5. put("path") = p.path /\ put("value") = p.value /\ put("transition") = Sparse(p.transition)
  OBVIOUS
<1> HIDE DEF kept, put
<1>6. PICK o : o = [k \in kept |-> put(k)]
  OBVIOUS
<1>7. /\ DOMAIN o = kept /\ o["path"] = p.path /\ o["value"] = p.value
      /\ p.transition # Null => o["transition"] = Sparse(p.transition)
  BY <1>4, <1>5, <1>6
<1>8. PatchToDict(p).is = "object" /\ PatchToDict(p).fields = o
  BY <1>3, <1>6
<1>9. ParseTransitionSpec(Get(o, "transition", Null)) = p.transition /\ ~Failed(p.transition)
  <2>1. CASE p.transition = Null
    <3>1. Get(o, "transition", Null) = Null
      BY <1>4, <1>7, <2>1 DEF Get
    <3> QED
      BY <2>1, <3>1, Values DEF ParseTransitionSpec
  <2>2. CASE p.transition # Null
    <3>1. Get(o, "transition", Null) = Sparse(p.transition)
      BY <1>4, <1>7, <2>2 DEF Get
    <3>2. IsTransitionSpec(p.transition)
      BY <2>2 DEF IsPatch
    <3> QED
      BY <3>1, <3>2, TransitionRoundTrip
  <2> QED
    BY <2>1, <2>2
<1>10. TextOf(p.path) = p.path
  BY Values DEF IsPatch
<1>11. Get(o, "value", Null) = p.value
  BY <1>4, <1>7 DEF Get
<1>12. ParsePatch(PatchToDict(p))
         = [path |-> TextOf(o["path"]), value |-> Get(o, "value", Null), transition |-> p.transition]
  BY <1>4, <1>7, <1>8, <1>9 DEF ParsePatch
<1>13. ~Failed(p)
  BY <1>2 DEF Failed
<1> QED
  BY <1>1, <1>7, <1>10, <1>11, <1>12, <1>13

LEMMA PatchesRoundTrip ==
  ASSUME NEW ps, ArePatches(ps)
  PROVE  ParsePatches(List([i \in DOMAIN ps |-> PatchToDict(ps[i])])) = [patches |-> ps]
<1> DEFINE items == [i \in DOMAIN ps |-> PatchToDict(ps[i])]
           parsed == [i \in DOMAIN items |-> ParsePatch(items[i])]
<1>1. \A i \in DOMAIN ps : ParsePatch(PatchToDict(ps[i])) = ps[i] /\ ~Failed(ps[i])
  BY PatchRoundTrip DEF ArePatches
<1>2. DOMAIN items = DOMAIN ps /\ \A i \in DOMAIN ps : items[i] = PatchToDict(ps[i])
  OBVIOUS
<1> HIDE DEF items
<1>3. parsed = [i \in DOMAIN ps |-> ps[i]]
  BY <1>1, <1>2
<1>4. parsed = ps
  BY <1>3 DEF ArePatches
<1>5. List(items).is = "list" /\ List(items).items = items /\ List(items) # Null
  BY DEF List, Null
<1>6. ParsePatches(List(items)) = FirstFailure(parsed, [patches |-> parsed])
  BY <1>5 DEF ParsePatches
<1> HIDE DEF parsed
<1>7. FirstFailure(ps, [patches |-> ps]) = [patches |-> ps]
  BY <1>1, NoFailure
<1>8. ParsePatches(List(items)) = [patches |-> ps]
  BY <1>4, <1>6, <1>7
<1> QED
  BY <1>8 DEF items

LEMMA CauseRoundTrip ==
  ASSUME NEW r, IsCause(r)
  PROVE  ParseCause(Sparse(r)) = r /\ ~Failed(r)
<1>1. r = [source |-> r.source, input_id |-> r.input_id] /\ IsText(r.source)
  BY DEF IsCause
<1>2. DOMAIN r = {"source", "input_id"}
  BY <1>1
<1>3. r.source.is = "str" /\ r.source # Null
  BY <1>1, Values DEF IsText
<1>4. Sparse(r).is = "object" /\ Sparse(r) # Null
  BY SparseField
<1>5. PICK o : o = Sparse(r).fields
  OBVIOUS
<1>6. /\ "source" \in DOMAIN r /\ r["source"] # Null => o["source"] = r["source"]
      /\ Get(o, "source", Null) = IF "source" \in DOMAIN r /\ r["source"] # Null
                                    THEN r["source"] ELSE Null
  BY <1>5, SparseField, Zenon
<1>7. Get(o, "input_id", Null) = IF "input_id" \in DOMAIN r /\ r["input_id"] # Null
                                   THEN r["input_id"] ELSE Null
  BY <1>5, SparseField, Zenon
<1>8. o["source"] = r.source /\ Get(o, "source", Null) = r.source /\ Get(o, "input_id", Null) = r.input_id
  BY <1>2, <1>3, <1>6, <1>7
<1>9. ParseCause(Sparse(r)) = [source |-> o["source"], input_id |-> Get(o, "input_id", Null)]
  BY <1>3, <1>4, <1>5, <1>8 DEF ParseCause
<1>10. ~Failed(r)
  BY <1>2 DEF Failed
<1> QED
  BY <1>1, <1>8, <1>9, <1>10

LEMMA SceneTransitionRoundTrip ==
  ASSUME NEW r, IsSceneTransition(r)
  PROVE  ParseSceneTransition(Sparse(r)) = r /\ ~Failed(r)
<1>1. /\ r = [kind |-> r.kind, duration_ms |-> r.duration_ms]
      /\ IsText(r.kind)
      /\ r.duration_ms = Null \/ IsInt(r.duration_ms)
  BY DEF IsSceneTransition
<1>2. DOMAIN r = {"kind", "duration_ms"}
  BY <1>1
<1>3. r.kind.is = "str" /\ r.kind # Null
  BY <1>1, Values DEF IsText
<1>4. Sparse(r).is = "object" /\ Sparse(r) # Null
  BY SparseField
<1>5. PICK o : o = Sparse(r).fields
  OBVIOUS
<1>6. /\ "kind" \in DOMAIN r /\ r["kind"] # Null => o["kind"] = r["kind"]
      /\ Get(o, "kind", Null) = IF "kind" \in DOMAIN r /\ r["kind"] # Null
                                  THEN r["kind"] ELSE Null
  BY <1>5, SparseField, Zenon
<1>7. Get(o, "duration_ms", Null) = IF "duration_ms" \in DOMAIN r /\ r["duration_ms"] # Null
                                      THEN r["duration_ms"] ELSE Null
  BY <1>5, SparseField, Zenon
<1>8. o["kind"] = r.kind /\ Get(o, "kind", Null) = r.kind
      /\ Get(o, "duration_ms", Null) = r.duration_ms
  BY <1>2, <1>3, <1>6, <1>7
<1>9. Optional(r.duration_ms, IntOf) = r.duration_ms /\ ~Failed(r.duration_ms)
  BY <1>1, Values DEF Optional
<1>10. ParseSceneTransition(Sparse(r)) = [kind |-> o["kind"], duration_ms |-> r.duration_ms]
  BY <1>3, <1>4, <1>5, <1>8, <1>9 DEF ParseSceneTransition
<1>11. ~Failed(r)
  BY <1>2 DEF Failed
<1> QED
  BY <1>1, <1>8, <1>10, <1>11

(* What a decoder finds of the fields of a frame, kind by kind.             *)
LEMMA PlainField ==
  ASSUME NEW f, NEW default,
         NEW key \in {"seq", "token", "scene_id", "scene_version", "state", "code", "message",
                      "recoverable"} \cap DOMAIN f
  PROVE  Get(Encode(f).fields, key, default) = f[key]
<1>1. key # "v" /\ ~Omits(key, f[key]) /\ FieldToJson(key, f[key]) = f[key]
  BY DEF Omits, LeftOutIfNone, LeftOutIfEmpty, FieldToJson
<1>2. Get(Encode(f).fields, key, default)
        = IF key \in DOMAIN f /\ ~Omits(key, f[key]) THEN FieldToJson(key, f[key]) ELSE default
  BY <1>1, EncodedField
<1> QED
  BY <1>1, <1>2

LEMMA NullableField ==
  ASSUME NEW f, NEW key \in {"path", "nonce", "since_sequence", "client_msg_id"} \cap DOMAIN f
  PROVE  Get(Encode(f).fields, key, Null) = f[key]
<1>1. key # "v" /\ (Omits(key, f[key]) <=> f[key] = Null) /\ FieldToJson(key, f[key]) = f[key]
  BY DEF Omits, LeftOutIfNone, LeftOutIfEmpty, FieldToJson
<1>2. Get(Encode(f).fields, key, Null)
        = IF key \in DOMAIN f /\ ~Omits(key, f[key]) THEN FieldToJson(key, f[key]) ELSE Null
  BY <1>1, EncodedField
<1> QED
  BY <1>1, <1>2

LEMMA EmptiableField ==
  ASSUME NEW f, NEW key \in {"ts", "from_scene_id", "retry_after_ms", "scene", "session"} \cap DOMAIN f
  PROVE  Get(Encode(f).fields, key, Null) = IF Falsy(f[key]) THEN Null ELSE f[key]
<1>1. key # "v" /\ (Omits(key, f[key]) <=> Falsy(f[key])) /\ FieldToJson(key, f[key]) = f[key]
  BY DEF Omits, LeftOutIfNone, LeftOutIfEmpty, FieldToJson
<1>2. Get(Encode(f).fields, key, Null)
        = IF key \in DOMAIN f /\ ~Omits(key, f[key]) THEN FieldToJson(key, f[key]) ELSE Null
  BY <1>1, EncodedField
<1> QED
  BY <1>1, <1>2

LEMMA SparseFieldOfFrame ==
  ASSUME NEW f, NEW key \in {"cause", "transition"} \cap DOMAIN f
  PROVE  Get(Encode(f).fields, key, Null) = IF f[key] = Null THEN Null ELSE Sparse(f[key])
<1>1. key # "v" /\ (Omits(key, f[key]) <=> f[key] = Null) /\ FieldToJson(key, f[key]) = Sparse(f[key])
  BY DEF Omits, LeftOutIfNone, LeftOutIfEmpty, FieldToJson
<1>2. Get(Encode(f).fields, key, Null)
        = IF key \in DOMAIN f /\ ~Omits(key, f[key]) THEN FieldToJson(key, f[key]) ELSE Null
  BY <1>1, EncodedField
<1> QED
  BY <1>1, <1>2

LEMMA PatchesField ==
  ASSUME NEW f, "patches" \in DOMAIN f, ArePatches(f.patches)
  PROVE  ParsePatches(Get(Encode(f).fields, "patches", Null)) = [patches |-> f.patches]
<1>1. /\ ~Omits("patches", f["patches"])
      /\ FieldToJson("patches", f["patches"])
           = List([i \in DOMAIN f.patches |-> PatchToDict(f.patches[i])])
  BY DEF Omits, LeftOutIfNone, LeftOutIfEmpty, FieldToJson
<1>2. Get(Encode(f).fields, "patches", Null)
        = IF "patches" \in DOMAIN f /\ ~Omits("patches", f["patches"])
            THEN FieldToJson("patches", f["patches"]) ELSE Null
  BY EncodedField
<1>3. Get(Encode(f).fields, "patches", Null)
        = List([i \in DOMAIN f.patches |-> PatchToDict(f.patches[i])])
  BY <1>1, <1>2
<1> QED
  BY <1>3, PatchesRoundTrip

(* Every numbered frame begins with these two.                              *)
LEMMA NumberedFields ==
  ASSUME NEW f, "seq" \in DOMAIN f, "ts" \in DOMAIN f, IsInt(f.seq), IsText(f.ts)
  PROVE  /\ SeqOf(Encode(f).fields) = f.seq /\ ~Failed(f.seq)
         /\ TsOf(Encode(f).fields) = f.ts
<1>1. Get(Encode(f).fields, "seq", Num(0)) = f["seq"]
  BY PlainField
<1>2. Get(Encode(f).fields, "ts", Null) = IF Falsy(f["ts"]) THEN Null ELSE f["ts"]
  BY EmptiableField
<1>3. OrElse(Get(Encode(f).fields, "ts", Null), Str("")) = f.ts
  BY <1>2, Values DEF OrElse, Falsy
<1> QED
  BY <1>1, <1>3, Values DEF SeqOf, TsOf

------------------------------------------------------------------------------
(* Frame by frame.                                                          *)

------------------------------------------------------------------------------
(* Frame by frame.                                                          *)

LEMMA SubscribeRoundTrip ==
  ASSUME NEW f, IsSubscribe(f)
  PROVE  SubscribeOf(Encode(f).fields) = f
<1>1. /\ f = [type |-> "subscribe", token |-> f.token, scene |-> f.scene, session |-> f.session,
              since_sequence |-> f.since_sequence]
      /\ IsText(f.scene) /\ IsText(f.session)
      /\ f.since_sequence = Null \/ IsInt(f.since_sequence)
  BY DEF IsSubscribe
<1>2. DOMAIN f = {"type", "token", "scene", "session", "since_sequence"}
  BY <1>1
<1>3. PICK o : o = Encode(f).fields
  OBVIOUS
<1>4. Get(o, "token", Str("")) = f["token"]
  BY <1>2, <1>3, PlainField
<1>5. /\ Get(o, "scene", Null) = IF Falsy(f["scene"]) THEN Null ELSE f["scene"]
      /\ Get(o, "session", Null) = IF Falsy(f["session"]) THEN Null ELSE f["session"]
  BY <1>2, <1>3, EmptiableField
<1>6. OrElse(Get(o, "scene", Null), Str("")) = f.scene
      /\ OrElse(Get(o, "session", Null), Str("")) = f.session
  BY <1>1, <1>5, Values DEF OrElse, Falsy
<1>7. Get(o, "since_sequence", Null) = f["since_sequence"]
  BY <1>2, <1>3, NullableField
<1>8. Optional(f.since_sequence, IntOf) = f.since_sequence /\ ~Failed(f.since_sequence)
  BY <1>1, Values DEF Optional
<1>9. SubscribeOf(o) = FirstFailure(<<f.since_sequence>>, f)
  BY <1>1, <1>4, <1>6, <1>7, <1>8 DEF SubscribeOf
<1> QED
  BY <1>3, <1>8, <1>9, NoFailureOfOne

LEMMA InputRoundTrip ==
  ASSUME NEW f, IsInput(f)
  PROVE  InputOf(Encode(f).fields) = f
<1>1. /\ f = [type |-> "input", patches |-> f.patches, client_msg_id |-> f.client_msg_id]
      /\ ArePatches(f.patches)
  BY DEF IsInput
<1>2. DOMAIN f = {"type", "patches", "client_msg_id"}
  BY <1>1
<1>3. PICK o : o = Encode(f).fields
  OBVIOUS
<1>4. ParsePatches(Get(o, "patches", Null)) = [patches |-> f.patches]
  BY <1>1, <1>2, <1>3, PatchesField
<1>5. Get(o, "client_msg_id", Null) = f["client_msg_id"]
  BY <1>2, <1>3, NullableField
<1>6. ~Failed([patches |-> f.patches])
  BY DEF Failed
<1>7. InputOf(o) = FirstFailure(<<[patches |-> f.patches]>>, f)
  BY <1>1, <1>4, <1>5 DEF InputOf
<1> QED
  BY <1>3, <1>6, <1>7, NoFailureOfOne

LEMMA HeartbeatRoundTrip ==
  ASSUME NEW f, IsHeartbeat(f)
  PROVE  Heartbeat(f.type, Encode(f).fields) = f
<1>1. f = [type |-> f.type, nonce |-> f.nonce]
  BY DEF IsHeartbeat
<1>2. DOMAIN f = {"type", "nonce"}
  BY <1>1
<1>3. Get(Encode(f).fields, "nonce", Null) = f["nonce"]
  BY <1>2, NullableField
<1> QED
  BY <1>1, <1>3 DEF Heartbeat

LEMMA SnapshotRoundTrip ==
  ASSUME NEW f, IsSnapshot(f)
  PROVE  SnapshotOf(Encode(f).fields) = f
<1>1. /\ f = [type |-> "snapshot", seq |-> f.seq, ts |-> f.ts, scene_id |-> f.scene_id,
              scene_version |-> f.scene_version, state |-> f.state]
      /\ IsInt(f.seq) /\ IsText(f.ts) /\ IsDict(f.state)
  BY DEF IsSnapshot
<1>2. DOMAIN f = {"type", "seq", "ts", "scene_id", "scene_version", "state"}
  BY <1>1
<1>3. PICK o : o = Encode(f).fields
  OBVIOUS
<1>4. SeqOf(o) = f.seq /\ ~Failed(f.seq) /\ TsOf(o) = f.ts
  BY <1>1, <1>2, <1>3, NumberedFields
<1>5. /\ Get(o, "scene_id", Str("")) = f["scene_id"]
      /\ Get(o, "scene_version", Str("")) = f["scene_version"]
      /\ Get(o, "state", Null) = f["state"]
  BY <1>2, <1>3, PlainField
<1>6. DictOf(OrElse(Get(o, "state", Null), Obj(<<>>))) = f.state /\ ~Failed(f.state)
  BY <1>1, <1>5, Values
<1>7. SnapshotOf(o) = FirstFailure(<<f.seq, f.state>>, f)
  BY <1>1, <1>4, <1>5, <1>6 DEF SnapshotOf
<1> QED
  BY <1>3, <1>4, <1>6, <1>7, NoFailureOfTwo

LEMMA DeltaRoundTrip ==
  ASSUME NEW f, IsDelta(f)
  PROVE  DeltaOf(Encode(f).fields) = f
<1>1. /\ f = [type |-> "delta", seq |-> f.seq, ts |-> f.ts, patches |-> f.patches,
              cause |-> f.cause]
      /\ IsInt(f.seq) /\ IsText(f.ts) /\ ArePatches(f.patches)
      /\ f.cause = Null \/ IsCause(f.cause)
  BY DEF IsDelta
<1>2. DOMAIN f = {"type", "seq", "ts", "patches", "cause"}
  BY <1>1
<1>3. PICK o : o = Encode(f).fields
  OBVIOUS
<1>4. SeqOf(o) = f.seq /\ ~Failed(f.seq) /\ TsOf(o) = f.ts
  BY <1>1, <1>2, <1>3, NumberedFields
<1>5. ParsePatches(Get(o, "patches", Null)) = [patches |-> f.patches]
  BY <1>1, <1>2, <1>3, PatchesField
<1>6. Get(o, "cause", Null) = IF f["cause"] = Null THEN Null ELSE Sparse(f["cause"])
  BY <1>2, <1>3, SparseFieldOfFrame
<1>7. ParseCause(Get(o, "cause", Null)) = f.cause /\ ~Failed(f.cause)
  <2>1. CASE f.cause = Null
    BY <1>6, <2>1, Values DEF ParseCause
  <2>2. CASE f.cause # Null
    BY <1>1, <1>6, <2>2, CauseRoundTrip
  <2> QED
    BY <2>1, <2>2
<1>8. ~Failed([patches |-> f.patches])
  BY DEF Failed
<1>9. DeltaOf(o) = FirstFailure(<<f.seq, [patches |-> f.patches], f.cause>>, f)
  BY <1>1, <1>4, <1>5, <1>7 DEF DeltaOf
<1> QED
  BY <1>3, <1>4, <1>7, <1>8, <1>9, NoFailureOfThree

LEMMA SceneChangedRoundTrip ==
  ASSUME NEW f, IsSceneChanged(f)
  PROVE  SceneChangedOf(Encode(f).fields) = f
<1>1. /\ f = [type |-> "scene_changed", seq |-> f.seq, ts |-> f.ts, scene_id |-> f.scene_id,
              scene_version |-> f.scene_version, from_scene_id |-> f.from_scene_id,
              transition |-> f.transition]
      /\ IsInt(f.seq) /\ IsText(f.ts)
      /\ f.from_scene_id = Null \/ (IsText(f.from_scene_id) /\ f.from_scene_id # Str(""))
      /\ f.transition = Null \/ IsSceneTransition(f.transition)
  BY DEF IsSceneChanged
<1>2. DOMAIN f = {"type", "seq", "ts", "scene_id", "scene_version", "from_scene_id", "transition"}
  BY <1>1
<1>3. PICK o : o = Encode(f).fields
  OBVIOUS
<1>4. SeqOf(o) = f.seq /\ ~Failed(f.seq) /\ TsOf(o) = f.ts
  BY <1>1, <1>2, <1>3, NumberedFields
<1>5. /\ Get(o, "scene_id", Str("")) = f["scene_id"]
      /\ Get(o, "scene_version", Str("")) = f["scene_version"]
  BY <1>2, <1>3, PlainField
<1>6. Get(o, "from_scene_id", Null)
        = IF Falsy(f["from_scene_id"]) THEN Null ELSE f["from_scene_id"]
  BY <1>2, <1>3, EmptiableField
<1>7. Get(o, "from_scene_id", Null) = f.from_scene_id
  <2>1. CASE f.from_scene_id = Null
    BY <1>6, <2>1
  <2>2. CASE f.from_scene_id # Null
    BY <1>1, <1>6, <2>2, Values
  <2> QED
    BY <2>1, <2>2
<1>8. Get(o, "transition", Null) = IF f["transition"] = Null THEN Null ELSE Sparse(f["transition"])
  BY <1>2, <1>3, SparseFieldOfFrame
<1>9. ParseSceneTransition(Get(o, "transition", Null)) = f.transition /\ ~Failed(f.transition)
  <2>1. CASE f.transition = Null
    BY <1>8, <2>1, Values DEF ParseSceneTransition
  <2>2. CASE f.transition # Null
    BY <1>1, <1>8, <2>2, SceneTransitionRoundTrip
  <2> QED
    BY <2>1, <2>2
<1>10. SceneChangedOf(o) = FirstFailure(<<f.seq, f.transition>>, f)
  BY <1>1, <1>4, <1>5, <1>7, <1>9 DEF SceneChangedOf
<1> QED
  BY <1>3, <1>4, <1>9, <1>10, NoFailureOfTwo

LEMMA ErrorRoundTrip ==
  ASSUME NEW f, IsError(f)
  PROVE  ErrorOf(Encode(f).fields) = f
<1>1. /\ f = [type |-> "error", seq |-> f.seq, ts |-> f.ts, code |-> f.code,
              message |-> f.message, recoverable |-> f.recoverable,
              retry_after_ms |-> f.retry_after_ms, path |-> f.path]
      /\ IsInt(f.seq) /\ IsText(f.ts) /\ IsInt(f.retry_after_ms)
      /\ f.recoverable \in {Bool(TRUE), Bool(FALSE)}
  BY DEF IsError
<1>2. DOMAIN f = {"type", "seq", "ts", "code", "message", "recoverable", "retry_after_ms", "path"}
  BY <1>1
<1>3. PICK o : o = Encode(f).fields
  OBVIOUS
<1>4. SeqOf(o) = f.seq /\ ~Failed(f.seq) /\ TsOf(o) = f.ts
  BY <1>1, <1>2, <1>3, NumberedFields
<1>5. /\ Get(o, "code", Str("")) = f["code"]
      /\ Get(o, "message", Str("")) = f["message"]
      /\ Get(o, "recoverable", Bool(FALSE)) = f["recoverable"]
  BY <1>2, <1>3, PlainField
<1>6. Bool(~Falsy(f.recoverable)) = f.recoverable
  <2>1. ~Falsy(Bool(TRUE)) /\ Falsy(Bool(FALSE))
    BY DEF Falsy, Null, Bool, Num, Real, Str
  <2>2. CASE f.recoverable = Bool(TRUE)
    BY <2>1, <2>2 DEF Bool
  <2>3. CASE f.recoverable = Bool(FALSE)
    BY <2>1, <2>3 DEF Bool
  <2> QED
    BY <1>1, <2>2, <2>3
<1>7. Get(o, "retry_after_ms", Null)
        = IF Falsy(f["retry_after_ms"]) THEN Null ELSE f["retry_after_ms"]
  BY <1>2, <1>3, EmptiableField
<1>8. IntOf(OrElse(Get(o, "retry_after_ms", Null), Num(0))) = f.retry_after_ms
      /\ ~Failed(f.retry_after_ms)
  <2>1. PICK n : f.retry_after_ms = [is |-> "int", n |-> n]
    BY <1>1 DEF IsInt, Num
  <2>2. Falsy(f.retry_after_ms) <=> f.retry_after_ms = Num(0)
    <3>1. PICK j : j = f.retry_after_ms
      OBVIOUS
    <3>2. j.is = "int" /\ j # Real(0, TRUE) /\ j # Null /\ j # Bool(FALSE) /\ j # Str("")
      <4>1. j.is = "int"
        BY <2>1, <3>1
      <4>2. /\ Real(0, TRUE).is = "float" /\ Null.is = "null" /\ Bool(FALSE).is = "bool"
            /\ Str("").is = "str"
        BY DEF Null, Bool, Real, Str
      <4> QED
        BY <4>1, <4>2
    <3>3. Falsy(j) <=> j = Num(0)
      BY <3>2 DEF Falsy
    <3> QED
      BY <3>1, <3>3
  <2>3. Falsy(Null)
    BY DEF Falsy
  <2>4. OrElse(Get(o, "retry_after_ms", Null), Num(0)) = f.retry_after_ms
    BY <1>7, <2>2, <2>3 DEF OrElse
  <2> QED
    BY <1>1, <2>4, Values
<1>9. Get(o, "path", Null) = f["path"]
  BY <1>2, <1>3, NullableField
<1>10. ErrorOf(o) = FirstFailure(<<f.seq, f.retry_after_ms>>, f)
  BY <1>1, <1>4, <1>5, <1>6, <1>8, <1>9 DEF ErrorOf
<1> QED
  BY <1>3, <1>4, <1>8, <1>10, NoFailureOfTwo

(* A client's frame is read as it was built: whatever its fields hold, the  *)
(* decoder gives back the record the encoder was given (encode,             *)
(* decode_client).                                                          *)
THEOREM ClientRoundTrip ==
  ASSUME NEW f, ClientFrame(f)
  PROVE  DecodeClient(Encode(f)) = f
<1>1. "type" \in DOMAIN f
  BY DEF ClientFrame, IsSubscribe, IsInput, IsHeartbeat
<1>2. PICK env : env = Encode(f)
  OBVIOUS
<1>3. ParseEnvelope(env) = env /\ ~Failed(env) /\ env.fields["type"].s = f.type
  BY <1>1, <1>2, EncodedEnvelope
<1>4. DecodeClient(env) = CASE f.type = "subscribe"        -> SubscribeOf(env.fields)
                            [] f.type = "input"            -> InputOf(env.fields)
                            [] f.type \in {"ping", "pong"} -> Heartbeat(f.type, env.fields)
                            [] f.type = "unsubscribe"      -> [type |-> f.type]
                            [] OTHER                       -> Refused("unknown")
  BY <1>3 DEF DecodeClient
<1>5. CASE f.type = "subscribe" /\ IsSubscribe(f)
  BY <1>2, <1>4, <1>5, SubscribeRoundTrip
<1>6. CASE f.type = "input" /\ IsInput(f)
  BY <1>2, <1>4, <1>6, InputRoundTrip
<1>7. CASE f.type \in {"ping", "pong"} /\ IsHeartbeat(f)
  BY <1>2, <1>4, <1>7, HeartbeatRoundTrip
<1>8. CASE f = [type |-> "unsubscribe"]
  BY <1>2, <1>4, <1>8
<1> QED
  BY <1>5, <1>6, <1>7, <1>8 DEF ClientFrame

(* And so is a server's (encode, decode_server).                            *)
THEOREM ServerRoundTrip ==
  ASSUME NEW f, ServerFrame(f)
  PROVE  DecodeServer(Encode(f)) = f
<1>1. "type" \in DOMAIN f
  <2>1. IsSnapshot(f) => "type" \in DOMAIN f
    BY DEF IsSnapshot
  <2>2. IsDelta(f) => "type" \in DOMAIN f
    BY DEF IsDelta
  <2>3. IsSceneChanged(f) => "type" \in DOMAIN f
    <3>1. IsSceneChanged(f) =>
            f = [type |-> "scene_changed", seq |-> f.seq, ts |-> f.ts, scene_id |-> f.scene_id,
                 scene_version |-> f.scene_version, from_scene_id |-> f.from_scene_id,
                 transition |-> f.transition]
      BY DEF IsSceneChanged
    <3> QED
      BY <3>1
  <2>4. IsError(f) => "type" \in DOMAIN f
    BY DEF IsError
  <2>5. IsHeartbeat(f) => "type" \in DOMAIN f
    BY DEF IsHeartbeat
  <2> QED
    BY <2>1, <2>2, <2>3, <2>4, <2>5 DEF ServerFrame
<1>2. PICK env : env = Encode(f)
  OBVIOUS
<1>3. ParseEnvelope(env) = env /\ ~Failed(env) /\ env.fields["type"].s = f.type
  BY <1>1, <1>2, EncodedEnvelope
<1>4. DecodeServer(env) = CASE f.type = "snapshot"         -> SnapshotOf(env.fields)
                            [] f.type = "delta"            -> DeltaOf(env.fields)
                            [] f.type = "scene_changed"    -> SceneChangedOf(env.fields)
                            [] f.type = "error"            -> ErrorOf(env.fields)
                            [] f.type \in {"ping", "pong"} -> Heartbeat(f.type, env.fields)
                            [] OTHER                       -> Refused("unknown")
  BY <1>3 DEF DecodeServer
<1>5. CASE f.type = "snapshot" /\ IsSnapshot(f)
  BY <1>2, <1>4, <1>5, SnapshotRoundTrip
<1>6. CASE f.type = "delta" /\ IsDelta(f)
  BY <1>2, <1>4, <1>6, DeltaRoundTrip
<1>7. CASE f.type = "scene_changed" /\ IsSceneChanged(f)
  BY <1>2, <1>4, <1>7, SceneChangedRoundTrip
<1>8. CASE f.type = "error" /\ IsError(f)
  BY <1>2, <1>4, <1>8, ErrorRoundTrip
<1>9. CASE f.type \in {"ping", "pong"} /\ IsHeartbeat(f)
  BY <1>2, <1>4, <1>9, HeartbeatRoundTrip
<1> QED
  BY <1>5, <1>6, <1>7, <1>8, <1>9 DEF ServerFrame

------------------------------------------------------------------------------
(* The session.                                                             *)

Codes == {"AUTH_DENIED", "SCENE_NOT_FOUND", "VERSION_MISMATCH", "INTERNAL"}
Final(c) == Error(c, 0, FALSE, Null)
OfAnInput == Error("INVALID_VALUE", 0, TRUE, Str(""))

(* What this server may say: a frame of the scene's queue, a heartbeat, an  *)
(* error there is no recovering from, or the refusal of an input.           *)
Sayable ==
  Queued \cup {Ping, OfAnInput} \cup {Pong(DecodeClient(text).nonce) : text \in Texts}
         \cup {Final(c) : c \in Codes}

Speakers == {"handshake", "reader", "goodbye", "writer"}

Admits(text) ==
  /\ ~Failed(DecodeClient(text))
  /\ "token" \in DOMAIN DecodeClient(text)
  /\ Admissible(DecodeClient(text), Accounts)

(* The two coroutines and what they hold.                                   *)
Hands ==
  /\ reader.at = "sending" => reader.reply \in Sayable
  /\ stage # "running" => reader.at \in {"reading", "done"} /\ writer.at \in {"waiting", "done"}

(* Nothing is heard before the upgrade, nothing served before the admission *)
(* of what was heard first.                                                 *)
Admission ==
  /\ heard \in Seq(Texts)
  /\ said \in Seq([by : Speakers, frame : Sayable])
  /\ stage \in {"upgrade", "subscribing"} => heard = <<>> /\ said = <<>>
  /\ stage = "opening" => said = <<>>
  /\ stage \in {"opening", "running"} => heard # <<>> /\ Admits(heard[1])
  /\ \A i \in DOMAIN said :
       said[i].by # "handshake" \/ said[i].frame.type # "error" =>
         heard # <<>> /\ Admits(heard[1])

(* After a goodbye the reader is done, and the writer too once it has sent  *)
(* the frame it may have had in hand.                                       *)
Farewell ==
  \A i \in DOMAIN said :
    said[i].by = "goodbye" =>
      /\ reader.at = "done"
      /\ \/ Len(said) = i
         \/ Len(said) = i + 1 /\ said[i + 1].by = "writer" /\ writer.at = "done"

WireInv == TypeOK /\ Hands /\ Admission /\ Farewell

------------------------------------------------------------------------------
(* What the steps are made of.                                              *)

LEMMA Ends ==
  /\ Reading.at = "reading" /\ ReaderDone.at = "done" /\ NextRead.at \in {"reading", "done"}
  /\ Waiting.at = "waiting" /\ WriterDone.at = "done"
  /\ \A r : NextGet(r).at \in {"waiting", "done"} /\ (r.at = "done" => NextGet(r).at = "done")
BY DEF Reading, ReaderDone, NextRead, Waiting, WriterDone, NextGet

LEMMA ErrorsAreSayable ==
  /\ \A c \in Codes : Error(c, 0, FALSE, Null) \in Sayable /\ Error(c, 0, FALSE, Null).type = "error"
  /\ OfAnInput \in Sayable /\ OfAnInput.type = "error"
<1>1. OfAnInput.type = "error" /\ \A c : Final(c).type = "error"
  BY DEF Error, OfAnInput, Final
<1>2. \A c \in Codes : Final(c) \in Sayable
  BY DEF Sayable
<1>3. OfAnInput \in Sayable
  BY DEF Sayable
<1> QED
  BY <1>1, <1>2, <1>3 DEF Final

(* Everything sayable is a frame of the server's.                           *)
LEMMA SayableFrames ==
  ASSUME NEW f \in Sayable
  PROVE  ServerFrame(f)
<1>1. CASE f \in Queued
  BY <1>1, QueuedAssumption
<1>2. CASE f = Ping
  BY <1>2 DEF Ping, ServerFrame, IsHeartbeat
<1>3. CASE f \in {Pong(DecodeClient(text).nonce) : text \in Texts}
  <2>1. PICK n : f = [type |-> "pong", nonce |-> n]
    BY <1>3 DEF Pong
  <2> QED
    BY <2>1 DEF ServerFrame, IsHeartbeat
<1>4. \A c, p : ServerFrame(Error(c, 0, FALSE, p)) /\ ServerFrame(Error(c, 0, TRUE, p))
  <2>1. \A zero, empty, word, flag, p :
          IsInt(zero) /\ IsText(empty) /\ flag \in {Bool(TRUE), Bool(FALSE)} =>
            ServerFrame([type |-> "error", seq |-> zero, ts |-> empty, code |-> word,
                         message |-> empty, recoverable |-> flag, retry_after_ms |-> zero,
                         path |-> p])
    <3>1. TAKE zero, empty, word, flag, p
    <3>2. HAVE IsInt(zero) /\ IsText(empty) /\ flag \in {Bool(TRUE), Bool(FALSE)}
    <3>3. PICK e : e = [type |-> "error", seq |-> zero, ts |-> empty, code |-> word,
                        message |-> empty, recoverable |-> flag, retry_after_ms |-> zero,
                        path |-> p]
      OBVIOUS
    <3>4. /\ e.type = "error" /\ e.seq = zero /\ e.ts = empty /\ e.code = word
          /\ e.message = empty /\ e.recoverable = flag /\ e.retry_after_ms = zero /\ e.path = p
      BY <3>3
    <3>5. IsError(e)
      BY <3>2, <3>3, <3>4 DEF IsError
    <3> QED
      BY <3>3, <3>4, <3>5 DEF ServerFrame
  <2>2. IsInt(Num(0)) /\ IsText(Str(""))
    BY DEF IsInt, IsText, Num, Str
  <2> QED
    BY <2>1, <2>2 DEF Error
<1>5. CASE f = OfAnInput
  BY <1>4, <1>5 DEF OfAnInput
<1>6. CASE f \in {Final(c) : c \in Codes}
  BY <1>4, <1>6 DEF Final
<1> QED
  BY <1>1, <1>2, <1>3, <1>5, <1>6 DEF Sayable

LEMMA AnswerSays ==
  ASSUME NEW text \in Texts, NEW verdict \in Verdicts
  PROVE  LET answer == Answer(DecodeClient(text), verdict, 0)
         IN  \/ answer = <<>>
             \/ \E e \in Sayable : e.type \in {"error", "pong"} /\ answer = <<e>>
<1>1. PICK f : f = DecodeClient(text)
  OBVIOUS
<1>2. /\ Error("VERSION_MISMATCH", 0, FALSE, Null) \in Sayable
      /\ Error("VERSION_MISMATCH", 0, FALSE, Null).type = "error"
      /\ Error("INTERNAL", 0, FALSE, Null) \in Sayable
      /\ Error("INTERNAL", 0, FALSE, Null).type = "error"
      /\ Error("INVALID_VALUE", 0, TRUE, Str("")) \in Sayable
      /\ Error("INVALID_VALUE", 0, TRUE, Str("")).type = "error"
  BY ErrorsAreSayable DEF Codes, OfAnInput
<1>3. Pong(f.nonce) \in Sayable /\ Pong(f.nonce).type = "pong"
  <2>1. Pong(DecodeClient(text).nonce) \in {Pong(DecodeClient(t).nonce) : t \in Texts}
    OBVIOUS
  <2>2. \A n : Pong(n).type = "pong"
    BY DEF Pong
  <2> QED
    BY <1>1, <2>1, <2>2 DEF Sayable
<1>4. verdict.code # "OK" => verdict.code = "INVALID_VALUE" /\ verdict.path = Str("")
  <2>1. \/ verdict = [code |-> "OK", path |-> Null]
        \/ verdict = [code |-> "INVALID_VALUE", path |-> Str("")]
    BY DEF Verdicts
  <2>2. CASE verdict = [code |-> "OK", path |-> Null]
    BY <2>2
  <2>3. CASE verdict = [code |-> "INVALID_VALUE", path |-> Str("")]
    BY <2>3
  <2> QED
    BY <2>1, <2>2, <2>3
<1>5. CASE Failed(f)
  BY <1>1, <1>2, <1>5 DEF Answer
<1>6. CASE ~Failed(f)
  BY <1>1, <1>2, <1>3, <1>4, <1>6 DEF Answer
<1> QED
  BY <1>5, <1>6

LEMMA DispatchedAt ==
  ASSUME NEW text \in Texts, NEW verdict \in Verdicts
  PROVE  /\ Dispatched(text, verdict).at \in {"reading", "sending", "closing", "done"}
         /\ Dispatched(text, verdict).at = "sending" =>
              /\ Dispatched(text, verdict).reply \in Sayable
              /\ Dispatched(text, verdict).reply.type \in {"error", "pong"}
<1>1. PICK f : f = DecodeClient(text)
  OBVIOUS
<1>2. PICK answer : answer = Answer(f, verdict, 0)
  OBVIOUS
<1>3. \/ answer = <<>>
      \/ \E e \in Sayable : e.type \in {"error", "pong"} /\ answer = <<e>>
  BY <1>1, <1>2, AnswerSays
<1>4. Dispatched(text, verdict)
        = IF answer # <<>> THEN [at |-> "sending", reply |-> answer[1], last |-> Failed(f)]
          ELSE IF Failed(f) THEN ReaderDone
          ELSE IF f.type = "unsubscribe" THEN [Reading EXCEPT !.at = "closing"]
          ELSE NextRead
  BY <1>1, <1>2 DEF Dispatched
<1>5. [Reading EXCEPT !.at = "closing"].at = "closing"
  BY DEF Reading
<1>6. CASE answer = <<>>
  BY <1>4, <1>5, <1>6, Ends
<1>7. CASE answer # <<>>
  BY <1>3, <1>4, <1>7
<1> QED
  BY <1>6, <1>7

(* A Subscribe is one whole.                                                *)
LEMMA SubscribeIsWhole ==
  ASSUME NEW raw, ~Failed(DecodeClient(raw)), DecodeClient(raw).type = "subscribe"
  PROVE  "token" \in DOMAIN DecodeClient(raw)
<1>1. PICK env : env = ParseEnvelope(raw)
  OBVIOUS
<1>2. PICK t, o : t = env.fields["type"].s /\ o = env.fields
  OBVIOUS
<1>3. ~Failed(env)
  BY <1>1 DEF DecodeClient
<1>4. DecodeClient(raw) = CASE t = "subscribe"        -> SubscribeOf(o)
                            [] t = "input"            -> InputOf(o)
                            [] t \in {"ping", "pong"} -> Heartbeat(t, o)
                            [] t = "unsubscribe"      -> [type |-> t]
                            [] OTHER                  -> Refused("unknown")
  BY <1>1, <1>2, <1>3 DEF DecodeClient
<1>5. \A a, whole : FirstFailure(<<a>>, whole) = whole \/ Failed(FirstFailure(<<a>>, whole))
  <2>1. SUFFICES ASSUME NEW a, NEW whole, Failed(a)
                 PROVE  FirstFailure(<<a>>, whole) = a
    BY NoFailureOfOne
  <2>2. {i \in DOMAIN <<a>> : Failed(<<a>>[i])} = {1}
    BY <2>1
  <2>3. (CHOOSE i \in {1} : \A j \in {1} : i <= j) = 1
    OBVIOUS
  <2> QED
    BY <2>2, <2>3 DEF FirstFailure
<1>6. CASE t = "subscribe"
  <2>1. PICK token, scene, session, since :
          SubscribeOf(o) = FirstFailure(<<since>>,
                             [type |-> "subscribe", token |-> token, scene |-> scene,
                              session |-> session, since_sequence |-> since])
    BY DEF SubscribeOf
  <2>2. SubscribeOf(o) = [type |-> "subscribe", token |-> token, scene |-> scene,
                          session |-> session, since_sequence |-> since]
    BY <1>4, <1>5, <1>6, <2>1
  <2> QED
    BY <1>4, <1>6, <2>2
<1>7. CASE t = "input"
  <2>1. PICK ps, id : InputOf(o) = [type |-> "input", patches |-> ps, client_msg_id |-> id]
    BY <1>4, <1>5, <1>7 DEF InputOf
  <2> QED
    BY <1>4, <1>7, <2>1
<1>8. CASE t \in {"ping", "pong"}
  BY <1>4, <1>8 DEF Heartbeat
<1>9. CASE t = "unsubscribe"
  BY <1>4, <1>9
<1>10. CASE t \notin {"subscribe", "input", "ping", "pong", "unsubscribe"}
  BY <1>4, <1>10 DEF Refused, Failed
<1> QED
  BY <1>6, <1>7, <1>8, <1>9, <1>10

LEMMA OutcomeIs ==
  ASSUME NEW text, NEW active \in BOOLEAN
  PROVE  LET outcome == Outcome(DecodeClient(text), Accounts, Registered, active)
         IN  /\ outcome \in {"version", "raises", "admitted", "AUTH_DENIED", "SCENE_NOT_FOUND"}
             /\ outcome = "admitted" => Admits(text)
<1>1. PICK f : f = DecodeClient(text)
  OBVIOUS
<1>2. \A role : Resolution(f, role, Registered, active)
                  \in {"raises", "admitted", "AUTH_DENIED", "SCENE_NOT_FOUND"}
  BY DEF Resolution
<1>3. Outcome(f, Accounts, Registered, active)
        \in {"version", "raises", "admitted", "AUTH_DENIED", "SCENE_NOT_FOUND"}
  BY <1>2 DEF Outcome
<1>4. Outcome(f, Accounts, Registered, active) = "admitted" =>
        ~Failed(f) /\ f.type = "subscribe" /\ Admissible(f, Accounts)
  BY DEF Outcome
<1> QED
  BY <1>1, <1>3, <1>4, SubscribeIsWhole DEF Admits

(* One more frame said, one more text heard.                                *)
LEMMA SayOne ==
  ASSUME said \in Seq([by : Speakers, frame : Sayable]), NEW who \in Speakers, NEW f \in Sayable,
         said' = Append(said, By(who, f))
  PROVE  /\ said' \in Seq([by : Speakers, frame : Sayable])
         /\ Len(said') = Len(said) + 1 /\ Len(said) \in Nat
         /\ DOMAIN said = 1..Len(said) /\ DOMAIN said' = 1..(Len(said) + 1)
         /\ \A i \in DOMAIN said : said'[i] = said[i]
         /\ said'[Len(said) + 1].by = who /\ said'[Len(said) + 1].frame = f
<1>1. By(who, f) \in [by : Speakers, frame : Sayable] /\ By(who, f).by = who /\ By(who, f).frame = f
  BY DEF By
<1> QED
  BY <1>1

LEMMA HearOne ==
  ASSUME heard \in Seq(Texts), NEW text \in Texts, heard' = Append(heard, text)
  PROVE  /\ heard' \in Seq(Texts) /\ heard' # <<>>
         /\ DOMAIN heard' = 1..(Len(heard) + 1)
         /\ \A i \in DOMAIN heard' : heard'[i] \in Texts
         /\ heard # <<>> => heard'[1] = heard[1]
         /\ heard = <<>> => heard'[1] = text
OBVIOUS

LEMMA Elements ==
  /\ \A s \in Seq(Texts) : \A i \in DOMAIN s : s[i] \in Texts
  /\ \A s \in Seq([by : Speakers, frame : Sayable]) :
       \A i \in DOMAIN s : s[i].by \in Speakers /\ s[i].frame \in Sayable
<1>1. ASSUME NEW S, NEW s \in Seq(S), NEW i \in DOMAIN s
      PROVE  s[i] \in S
  OBVIOUS
<1>2. ASSUME NEW x \in [by : Speakers, frame : Sayable]
      PROVE  x.by \in Speakers /\ x.frame \in Sayable
  OBVIOUS
<1> QED
  BY <1>1, <1>2

(* The parts of the invariant, by what a step does to the histories.        *)
LEMMA AdmissionStays ==
  ASSUME Admission, said' = said,
         heard' \in Seq(Texts), heard # <<>> => heard' # <<>> /\ heard'[1] = heard[1],
         \/ stage' = stage /\ (heard' = heard \/ stage = "running")
         \/ stage = "upgrade" /\ stage' = "subscribing" /\ heard' = heard
         \/ stage = "subscribing" /\ stage' = "opening" /\ heard' # <<>> /\ Admits(heard'[1])
         \/ stage = "opening" /\ stage' = "running"
         \/ stage' = "ended"
  PROVE  Admission'
<1>1. /\ stage' \in {"upgrade", "subscribing"} => heard' = <<>> /\ said' = <<>>
      /\ stage' = "opening" => said' = <<>>
      /\ stage' \in {"opening", "running"} => heard' # <<>> /\ Admits(heard'[1])
  BY DEF Admission
<1>2. \A i \in DOMAIN said' :
        said'[i].by # "handshake" \/ said'[i].frame.type # "error" =>
          heard' # <<>> /\ Admits(heard'[1])
  BY DEF Admission
<1>3. said' \in Seq([by : Speakers, frame : Sayable])
  BY DEF Admission
<1> QED
  BY <1>1, <1>2, <1>3 DEF Admission, Admits

LEMMA AdmissionSays ==
  ASSUME Admission, NEW who \in Speakers, NEW f \in Sayable,
         said' = Append(said, By(who, f)),
         heard' \in Seq(Texts), heard # <<>> => heard' # <<>> /\ heard'[1] = heard[1],
         stage' \in {"running", "ended"},
         (who = "handshake" /\ f.type = "error" /\ stage' = "ended")
           \/ (heard # <<>> /\ Admits(heard[1]))
  PROVE  Admission'
<1>1. /\ said' \in Seq([by : Speakers, frame : Sayable])
      /\ DOMAIN said = 1..Len(said) /\ DOMAIN said' = 1..(Len(said) + 1) /\ Len(said) \in Nat
      /\ \A i \in DOMAIN said : said'[i] = said[i]
      /\ said'[Len(said) + 1].by = who /\ said'[Len(said) + 1].frame = f
  BY SayOne DEF Admission
<1>2. ASSUME NEW i \in DOMAIN said', said'[i].by # "handshake" \/ said'[i].frame.type # "error"
      PROVE  heard' # <<>> /\ Admits(heard'[1])
  <2>1. CASE i \in DOMAIN said
    BY <1>1, <1>2, <2>1 DEF Admission
  <2>2. CASE i = Len(said) + 1
    BY <1>1, <1>2, <2>2
  <2> QED
    BY <1>1, <2>1, <2>2
<1>3. stage' = "running" => heard' # <<>> /\ Admits(heard'[1])
  OBVIOUS
<1>4. stage' \notin {"upgrade", "subscribing", "opening"}
  OBVIOUS
<1> QED
  BY <1>1, <1>2, <1>3, <1>4 DEF Admission, Admits

LEMMA FarewellStays ==
  ASSUME Farewell, UNCHANGED said,
         reader.at = "done" => reader'.at = "done",
         writer.at = "done" => writer'.at = "done"
  PROVE  Farewell'
BY DEF Farewell

LEMMA FarewellSays ==
  ASSUME Admission, Farewell, NEW who \in Speakers, NEW f \in Sayable,
         said' = Append(said, By(who, f)),
         \/ /\ who = "writer" /\ writer.at # "done"
            /\ reader' = reader /\ (reader.at = "done" => writer'.at = "done")
         \/ who = "reader" /\ reader.at # "done"
         \/ who = "goodbye" /\ reader.at # "done" /\ reader'.at = "done"
         \/ who = "handshake" /\ said = <<>>
  PROVE  Farewell'
<1>1. /\ Len(said') = Len(said) + 1 /\ Len(said) \in Nat
      /\ DOMAIN said = 1..Len(said) /\ DOMAIN said' = 1..(Len(said) + 1)
      /\ \A i \in DOMAIN said : said'[i] = said[i]
      /\ said'[Len(said) + 1].by = who
  BY SayOne DEF Admission
<1> SUFFICES ASSUME NEW i \in DOMAIN said', said'[i].by = "goodbye"
             PROVE  /\ reader'.at = "done"
                    /\ \/ Len(said') = i
                       \/ Len(said') = i + 1 /\ said'[i + 1].by = "writer" /\ writer'.at = "done"
  BY DEF Farewell
<1>2. CASE i \in DOMAIN said
  <2>1. /\ reader.at = "done"
        /\ \/ Len(said) = i
           \/ Len(said) = i + 1 /\ said[i + 1].by = "writer" /\ writer.at = "done"
    BY <1>1, <1>2 DEF Farewell
  <2>2. said # <<>>
    BY <1>2, <1>1
  <2>3. who = "writer" /\ writer.at # "done" /\ reader' = reader /\ writer'.at = "done"
    BY <2>1, <2>2
  <2> QED
    BY <1>1, <2>1, <2>3
<1>3. CASE i = Len(said) + 1
  BY <1>1, <1>3
<1> QED
  BY <1>1, <1>2, <1>3

------------------------------------------------------------------------------
(* Every step keeps the invariant.                                          *)

LEMMA InitEstablishes ==
  ASSUME Init
  PROVE  WireInv
<1>1. TypeOK
  BY Ends DEF Init, TypeOK
<1>2. Hands
  BY Ends DEF Init, Hands
<1>3. Admission
  BY DEF Init, Admission
<1>4. Farewell
  BY DEF Init, Farewell
<1> QED
  BY <1>1, <1>2, <1>3, <1>4 DEF WireInv

(* The control's part of the type invariant; the histories' is Admission's. *)
Control ==
  /\ stage \in {"upgrade", "subscribing", "opening", "running", "ended"}
  /\ up \in BOOLEAN
  /\ code \in {"none", "normal", "protocol", "policy", "raised", "dropped"}
  /\ reader.at \in {"reading", "sending", "closing", "done"}
  /\ reader.at = "sending" => reader.reply.type \in {"error", "pong"}
  /\ writer.at \in {"waiting", "sending", "done"}
  /\ writer.at = "sending" => writer.frame \in Queued \cup {Ping}

LEMMA Typed ==
  ASSUME Admission', Control'
  PROVE  TypeOK'
<1>1. heard' \in Seq(Texts) /\ said' \in Seq([by : Speakers, frame : Sayable])
  BY DEF Admission
<1>2. /\ \A i \in DOMAIN heard' : heard'[i] \in Texts
      /\ \A i \in DOMAIN said' : said'[i].by \in Speakers
  BY <1>1, Elements
<1> QED
  BY <1>2 DEF TypeOK, Control, Speakers

LEMMA UpgradeKeeps ==
  ASSUME WireInv, NEW offered, Upgrade(offered)
  PROVE  WireInv'
<1>1. /\ stage = "upgrade"
      /\ \/ stage' = "ended" /\ code' = "policy"
         \/ stage' = "subscribing" /\ code' = code
      /\ UNCHANGED <<up, reader, writer, heard, said>>
  BY DEF Upgrade
<1>2. Admission'
  BY <1>1, AdmissionStays DEF WireInv, Admission
<1>3. Control'
  BY <1>1 DEF WireInv, TypeOK, Control
<1>4. Hands'
  BY <1>1 DEF WireInv, Hands
<1>5. Farewell'
  BY <1>1, FarewellStays DEF WireInv
<1> QED
  BY <1>2, <1>3, <1>4, <1>5, Typed DEF WireInv

(* A refusal during the handshake, whatever has been heard.                 *)
LEMMA DenyKeeps ==
  ASSUME WireInv, stage = "subscribing", NEW c \in Codes, Deny(c, "policy"),
         heard' \in Seq(Texts)
  PROVE  WireInv'
<1>1. heard = <<>> /\ said = <<>> /\ Admission /\ Farewell /\ TypeOK /\ Hands
  BY DEF WireInv, Admission
<1>2. /\ Error(c, 0, FALSE, Null) \in Sayable
      /\ Error(c, 0, FALSE, Null).type = "error"
  BY ErrorsAreSayable
<1>3. /\ stage' = "ended" /\ UNCHANGED <<up, reader, writer>>
      /\ code' \in {"policy", "raised"}
      /\ said' = Append(said, By("handshake", Error(c, 0, FALSE, Null))) \/ said' = said
  BY DEF Deny
<1>4. Admission'
  <2>1. CASE said' = said
    BY <1>1, <1>3, <2>1, AdmissionStays
  <2>2. CASE said' = Append(said, By("handshake", Error(c, 0, FALSE, Null)))
    BY <1>1, <1>2, <1>3, <2>2, AdmissionSays DEF Speakers
  <2> QED
    BY <1>3, <2>1, <2>2
<1>5. Control'
  BY <1>1, <1>3 DEF TypeOK, Control
<1>6. Hands'
  BY <1>1, <1>3 DEF Hands
<1>7. Farewell'
  <2>1. CASE said' = said
    BY <1>1, <1>3, <2>1, FarewellStays
  <2>2. CASE said' = Append(said, By("handshake", Error(c, 0, FALSE, Null)))
    BY <1>1, <1>2, <2>2, FarewellSays DEF Speakers
  <2> QED
    BY <1>3, <2>1, <2>2
<1> QED
  BY <1>4, <1>5, <1>6, <1>7, Typed DEF WireInv

LEMMA FirstKeeps ==
  ASSUME WireInv, NEW text \in Texts, NEW active \in BOOLEAN, First(text, active)
  PROVE  WireInv'
<1>1. PICK outcome : outcome = Outcome(DecodeClient(text), Accounts, Registered, active)
  OBVIOUS
<1>2. /\ outcome \in {"version", "raises", "admitted", "AUTH_DENIED", "SCENE_NOT_FOUND"}
      /\ outcome = "admitted" => Admits(text)
  BY <1>1, OutcomeIs
<1>3. /\ stage = "subscribing" /\ heard' = Append(heard, text)
      /\ CASE outcome = "version"  -> EndUntold("protocol")
           [] outcome = "raises"   -> EndUntold("raised")
           [] outcome = "admitted" -> /\ stage' = "opening"
                                      /\ UNCHANGED <<up, code, reader, writer, said>>
           [] OTHER                -> Deny(outcome, "policy")
  BY <1>1 DEF First
<1>4. heard = <<>> /\ said = <<>> /\ heard \in Seq(Texts) /\ Admission /\ Farewell /\ TypeOK /\ Hands
  BY <1>3 DEF WireInv, Admission
<1>5. heard' \in Seq(Texts) /\ heard' # <<>> /\ heard'[1] = text
  BY <1>3, <1>4, HearOne
<1>6. CASE outcome \in {"AUTH_DENIED", "SCENE_NOT_FOUND"}
  <2>1. Deny(outcome, "policy")
    BY <1>3, <1>6
  <2> QED
    BY <1>3, <1>5, <1>6, <2>1, DenyKeeps DEF Codes
<1>7. CASE outcome \in {"version", "raises", "admitted"}
  <2>1. /\ \/ stage' = "ended" /\ code' \in {"protocol", "raised"}
           \/ stage' = "opening" /\ code' = code /\ outcome = "admitted"
        /\ UNCHANGED <<up, reader, writer, said>>
    BY <1>3, <1>7 DEF EndUntold
  <2>2. Admission'
    BY <1>2, <1>3, <1>4, <1>5, <2>1, AdmissionStays
  <2>3. Control'
    BY <1>4, <2>1 DEF TypeOK, Control
  <2>4. Hands'
    BY <1>3, <1>4, <2>1 DEF Hands
  <2>5. Farewell'
    BY <1>4, <2>1, FarewellStays
  <2> QED
    BY <2>2, <2>3, <2>4, <2>5, Typed DEF WireInv
<1> QED
  BY <1>2, <1>6, <1>7

LEMMA OpenedKeeps ==
  ASSUME WireInv, NEW f \in Queued, Opened(f)
  PROVE  WireInv'
<1>1. /\ stage = "opening" /\ UNCHANGED <<up, reader, writer, heard>>
      /\ \/ stage' = "running" /\ said' = Append(said, By("handshake", f)) /\ code' = code
         \/ stage' = "ended" /\ said' = said /\ code' = "dropped"
  BY DEF Opened
<1>2. /\ said = <<>> /\ heard # <<>> /\ Admits(heard[1]) /\ heard \in Seq(Texts)
      /\ Admission /\ Farewell /\ TypeOK /\ Hands
  BY <1>1 DEF WireInv, Admission
<1>3. f \in Sayable
  BY DEF Sayable
<1>4. Admission'
  <2>1. CASE said' = said /\ stage' = "ended"
    BY <1>1, <1>2, <2>1, AdmissionStays
  <2>2. CASE said' = Append(said, By("handshake", f)) /\ stage' = "running"
    BY <1>1, <1>2, <1>3, <2>2, AdmissionSays DEF Speakers
  <2> QED
    BY <1>1, <2>1, <2>2
<1>5. Control'
  BY <1>1, <1>2 DEF TypeOK, Control
<1>6. Hands'
  BY <1>1, <1>2 DEF Hands
<1>7. Farewell'
  <2>1. CASE said' = said
    BY <1>1, <1>2, <2>1, FarewellStays
  <2>2. CASE said' = Append(said, By("handshake", f))
    BY <1>2, <1>3, <2>2, FarewellSays DEF Speakers
  <2> QED
    BY <1>1, <2>1, <2>2
<1> QED
  BY <1>4, <1>5, <1>6, <1>7, Typed DEF WireInv

LEMMA NothingMissedKeeps ==
  ASSUME WireInv, NothingMissed
  PROVE  WireInv'
<1>1. stage = "opening" /\ stage' = "running" /\ UNCHANGED <<up, code, reader, writer, heard, said>>
  BY DEF NothingMissed
<1>2. Admission'
  BY <1>1, AdmissionStays DEF WireInv, Admission
<1>3. Control'
  BY <1>1 DEF WireInv, TypeOK, Control
<1>4. Hands'
  BY <1>1 DEF WireInv, Hands
<1>5. Farewell'
  BY <1>1, FarewellStays DEF WireInv
<1> QED
  BY <1>2, <1>3, <1>4, <1>5, Typed DEF WireInv

LEMMA HearKeeps ==
  ASSUME WireInv, NEW text \in Texts, NEW verdict \in Verdicts, Hear(text, verdict)
  PROVE  WireInv'
<1>1. /\ stage = "running" /\ reader.at = "reading"
      /\ heard' = Append(heard, text) /\ reader' = Dispatched(text, verdict)
      /\ UNCHANGED <<stage, up, code, writer, said>>
  BY DEF Hear
<1>2. heard \in Seq(Texts) /\ Admission /\ Farewell /\ TypeOK /\ Hands
  BY DEF WireInv, Admission
<1>3. heard' \in Seq(Texts) /\ (heard # <<>> => heard' # <<>> /\ heard'[1] = heard[1])
  BY <1>1, <1>2, HearOne
<1>4. /\ reader'.at \in {"reading", "sending", "closing", "done"}
      /\ reader'.at = "sending" =>
           reader'.reply \in Sayable /\ reader'.reply.type \in {"error", "pong"}
  BY <1>1, DispatchedAt
<1>5. Admission'
  BY <1>1, <1>2, <1>3, AdmissionStays
<1>6. Control'
  BY <1>1, <1>2, <1>4 DEF TypeOK, Control
<1>7. Hands'
  BY <1>1, <1>4 DEF Hands, Sayable, Texts
<1>8. Farewell'
  BY <1>1, <1>2, FarewellStays
<1> QED
  BY <1>5, <1>6, <1>7, <1>8, Typed DEF WireInv

(* A frame the socket takes while a session runs.                           *)
LEMMA SessionSays ==
  ASSUME WireInv, stage = "running", UNCHANGED <<stage, up, code, heard>>,
         NEW who \in {"reader", "goodbye", "writer"}, NEW f \in Sayable,
         said' = Append(said, By(who, f)),
         \/ /\ who = "writer" /\ writer.at = "sending" /\ reader' = reader
            /\ writer'.at \in {"waiting", "done"} /\ (reader.at = "done" => writer'.at = "done")
         \/ /\ who = "reader" /\ reader.at = "sending" /\ writer' = writer
            /\ reader'.at \in {"reading", "done"}
         \/ /\ who = "goodbye" /\ reader.at = "sending" /\ writer' = writer
            /\ reader'.at = "done"
  PROVE  WireInv'
<1>1. /\ heard # <<>> /\ Admits(heard[1]) /\ heard' \in Seq(Texts)
      /\ Admission /\ Farewell /\ TypeOK /\ Hands
  BY DEF WireInv, Admission
<1>2. Admission'
  BY <1>1, AdmissionSays DEF Speakers
<1>3. Control'
  BY <1>1 DEF TypeOK, Control
<1>4. Hands'
  BY <1>1 DEF Hands
<1>5. Farewell'
  BY <1>1, FarewellSays DEF Speakers
<1> QED
  BY <1>2, <1>3, <1>4, <1>5, Typed DEF WireInv

(* A step of one of the two coroutines, or of the client, that says and     *)
(* hears nothing.                                                           *)
LEMMA QuietKeeps ==
  ASSUME WireInv, UNCHANGED <<heard, said>>, Control',
         stage' = stage \/ stage' = "ended",
         reader' = reader \/ (reader.at # "done" /\ stage = "running" /\ stage' = stage
                                /\ reader'.at \in {"reading", "done"}),
         writer' = writer \/ (writer.at # "done" /\ stage = "running" /\ stage' = stage),
         stage' # "running" => stage # "running" \/ (reader.at = "done" /\ writer.at = "done")
  PROVE  WireInv'
<1>1. heard \in Seq(Texts) /\ Admission /\ Farewell /\ TypeOK /\ Hands
  BY DEF WireInv, Admission
<1>2. Admission'
  BY <1>1, AdmissionStays
<1>3. Hands'
  BY <1>1 DEF Hands
<1>4. Farewell'
  BY <1>1, FarewellStays
<1> QED
  BY <1>2, <1>3, <1>4, Typed DEF WireInv

LEMMA ReaderKeeps ==
  ASSUME WireInv, ReplySent \/ ReplyFails \/ CloseSent \/ ReceiveRaises
  PROVE  WireInv'
<1>1. TypeOK /\ Hands
  BY DEF WireInv
<1>2. CASE ReplySent
  <2>1. /\ reader.at = "sending" /\ UNCHANGED <<stage, up, code, writer, heard>>
        /\ said' = Append(said, By(IF reader.last THEN "goodbye" ELSE "reader", reader.reply))
        /\ reader' = IF reader.last THEN ReaderDone ELSE NextRead
    BY <1>2 DEF ReplySent
  <2>2. stage = "running" /\ reader.reply \in Sayable
    BY <1>1, <2>1 DEF Hands
  <2>3. CASE reader.last
    BY <2>1, <2>2, <2>3, Ends, SessionSays
  <2>4. CASE ~reader.last
    BY <2>1, <2>2, <2>4, Ends, SessionSays
  <2> QED
    BY <2>3, <2>4
<1>3. CASE ReplyFails
  <2>1. /\ reader.at = "sending" /\ UNCHANGED <<stage, up, code, writer, heard, said>>
        /\ reader'.at \in {"reading", "done"}
    BY <1>3, Ends DEF ReplyFails
  <2>2. stage = "running"
    BY <1>1, <2>1 DEF Hands
  <2>3. Control'
    BY <1>1, <2>1 DEF TypeOK, Control
  <2> QED
    BY <2>1, <2>2, <2>3, QuietKeeps
<1>4. CASE CloseSent
  <2>1. /\ reader.at = "closing" /\ UNCHANGED <<stage, up, writer, heard, said>>
        /\ reader'.at = "done" /\ code' \in {"normal", code}
    BY <1>4, Ends DEF CloseSent
  <2>2. stage = "running"
    BY <1>1, <2>1 DEF Hands
  <2>3. Control'
    BY <1>1, <2>1 DEF TypeOK, Control
  <2> QED
    BY <2>1, <2>2, <2>3, QuietKeeps
<1>5. CASE ReceiveRaises
  <2>1. /\ stage = "running" /\ reader.at = "reading" /\ reader'.at = "done"
        /\ UNCHANGED <<stage, up, code, writer, heard, said>>
    BY <1>5, Ends DEF ReceiveRaises
  <2>2. Control'
    BY <1>1, <2>1 DEF TypeOK, Control
  <2> QED
    BY <2>1, <2>2, QuietKeeps
<1> QED
  BY <1>2, <1>3, <1>4, <1>5

LEMMA WriterKeeps ==
  ASSUME WireInv,
         \/ \E f \in Queued : WriterGet(f)
         \/ GetSentinel \/ PingDue \/ FrameSent \/ FrameFails
  PROVE  WireInv'
<1>1. TypeOK /\ Hands
  BY DEF WireInv
<1>2. CASE (\E f \in Queued : WriterGet(f)) \/ PingDue
  <2>1. PICK f \in Queued \cup {Ping} : writer' = [at |-> "sending", frame |-> f]
    BY <1>2 DEF WriterGet, PingDue
  <2>2. /\ stage = "running" /\ writer.at = "waiting"
        /\ UNCHANGED <<stage, up, code, reader, heard, said>>
    BY <1>2 DEF WriterGet, PingDue
  <2>3. Control'
    BY <1>1, <2>1, <2>2 DEF TypeOK, Control
  <2> QED
    BY <2>2, <2>3, QuietKeeps
<1>3. CASE GetSentinel \/ FrameFails
  <2>1. /\ writer.at \in {"waiting", "sending"} /\ writer'.at = "done"
        /\ UNCHANGED <<stage, up, code, reader, heard, said>>
        /\ stage = "running" \/ writer.at = "sending"
    BY <1>3, Ends DEF GetSentinel, FrameFails
  <2>2. stage = "running"
    BY <1>1, <2>1 DEF Hands
  <2>3. Control'
    BY <1>1, <2>1 DEF TypeOK, Control
  <2> QED
    BY <2>1, <2>2, <2>3, QuietKeeps
<1>4. CASE FrameSent
  <2>1. /\ writer.at = "sending" /\ UNCHANGED <<stage, up, code, reader, heard>>
        /\ said' = Append(said, By("writer", writer.frame)) /\ writer' = NextGet(reader)
    BY <1>4 DEF FrameSent
  <2>2. stage = "running" /\ writer.frame \in Sayable
    BY <1>1, <2>1 DEF Hands, TypeOK, Sayable
  <2>3. writer'.at \in {"waiting", "done"} /\ (reader.at = "done" => writer'.at = "done")
    BY <2>1, Ends
  <2> QED
    BY <2>1, <2>2, <2>3, SessionSays
<1> QED
  BY <1>2, <1>3, <1>4

LEMMA EndKeeps ==
  ASSUME WireInv, Finish \/ ClientGoes \/ UNCHANGED vars
  PROVE  WireInv'
<1>1. TypeOK
  BY DEF WireInv
<1>2. CASE Finish
  <2>1. /\ reader.at = "done" /\ writer.at = "done" /\ stage' = "ended"
        /\ code' \in {"dropped", code} /\ UNCHANGED <<up, reader, writer, heard, said>>
    BY <1>2 DEF Finish
  <2>2. Control'
    BY <1>1, <2>1 DEF TypeOK, Control
  <2> QED
    BY <2>1, <2>2, QuietKeeps
<1>3. CASE ClientGoes
  <2>1. up' = FALSE /\ UNCHANGED <<stage, code, reader, writer, heard, said>>
    BY <1>3 DEF ClientGoes
  <2>2. Control'
    BY <1>1, <2>1 DEF TypeOK, Control
  <2> QED
    BY <2>1, <2>2, QuietKeeps
<1>4. CASE UNCHANGED vars
  <2>1. UNCHANGED <<stage, up, code, reader, writer, heard, said>>
    BY <1>4 DEF vars
  <2>2. Control'
    BY <1>1, <2>1 DEF TypeOK, Control
  <2> QED
    BY <2>1, <2>2, QuietKeeps
<1> QED
  BY <1>2, <1>3, <1>4

THEOREM WireInvariance == Spec => []WireInv
<1>1. Init => WireInv
  BY InitEstablishes
<1>2. WireInv /\ [Next]_vars => WireInv'
  <2> SUFFICES ASSUME WireInv, [Next]_vars
               PROVE  WireInv'
    OBVIOUS
  <2>1. CASE \E offered \in SUBSET (Subprotocols \cup {"other"}) : Upgrade(offered)
    BY <2>1, UpgradeKeeps
  <2>2. CASE NoSubscribe
    <3>1. stage = "subscribing" /\ Deny("AUTH_DENIED", "policy") /\ heard' = heard
      BY <2>2 DEF NoSubscribe
    <3>2. heard \in Seq(Texts)
      BY DEF WireInv, Admission
    <3> QED
      BY <3>1, <3>2, DenyKeeps DEF Codes
  <2>3. CASE \E text \in Texts, active \in BOOLEAN : First(text, active)
    BY <2>3, FirstKeeps
  <2>4. CASE \E f \in Queued : Opened(f)
    BY <2>4, OpenedKeeps
  <2>5. CASE NothingMissed
    BY <2>5, NothingMissedKeeps
  <2>6. CASE \E text \in Texts : \E verdict \in Verdicts : Hear(text, verdict)
    BY <2>6, HearKeeps
  <2>7. CASE ReplySent \/ ReplyFails \/ CloseSent \/ ReceiveRaises
    BY <2>7, ReaderKeeps
  <2>8. CASE (\E f \in Queued : WriterGet(f)) \/ GetSentinel \/ PingDue \/ FrameSent \/ FrameFails
    BY <2>8, WriterKeeps
  <2>9. CASE Finish \/ ClientGoes \/ UNCHANGED vars
    BY <2>9, EndKeeps
  <2> QED
    BY <2>1, <2>2, <2>3, <2>4, <2>5, <2>6, <2>7, <2>8, <2>9 DEF Next
<1> QED
  BY <1>1, <1>2, PTL DEF Spec

------------------------------------------------------------------------------
(* What is owed and what has been paid.                                     *)

(* The texts that are not the codec's own stand for what they are listed    *)
(* for: a frame, or one of the ways to be none.                             *)
Understood ==
  /\ \A t \in DOMAIN Loose : DecodeClient(t) = Loose[t] /\ ~Failed(Loose[t])
  /\ \A t \in DOMAIN Unfit :
       \/ Unfit[t] = "version" /\ DecodeClient(t) = Refused("version")
       \/ Unfit[t] = "internal" /\ DecodeClient(t) \in {Refused("decode"), Refused("unknown")}
       \/ Unfit[t] = "silent" /\ DecodeClient(t) = Refused("raises")

(* The part of the reply in hand that pays a debt.                          *)
InHand(r) == IF r.at = "sending" /\ ~OfInput(r.reply) THEN <<r.reply>> ELSE <<>>

LEMMA BuiltFrames ==
  ASSUME NEW text \in DOMAIN Meaning
  PROVE  /\ DecodeClient(text) = Meaning[text]
         /\ ~Failed(Meaning[text])
<1>1. text \in {Encode(f) : f \in Built} /\ Meaning[text] = CHOOSE f \in Built : Encode(f) = text
  BY DEF Meaning
<1>2. PICK f \in Built : f = Meaning[text] /\ Encode(f) = text
  BY <1>1
<1>3. ClientFrame(f)
  BY BuiltAssumption
<1>4. ~Failed(f)
  BY <1>3 DEF ClientFrame, IsSubscribe, IsInput, IsHeartbeat, Failed
<1> QED
  BY <1>2, <1>3, <1>4, ClientRoundTrip

(* The refusal of an input is no other error, and no pong.                  *)
LEMMA RepliesDiffer ==
  /\ \A seq, path : ~OfInput(Error("VERSION_MISMATCH", seq, FALSE, path))
  /\ \A seq, path : ~OfInput(Error("INTERNAL", seq, FALSE, path))
  /\ \A nonce : ~OfInput(Pong(nonce))
  /\ OfInput(Error("INVALID_VALUE", 0, TRUE, Str("")))
<1>1. \A c, seq, path : Error(c, seq, FALSE, path).recoverable = Bool(FALSE)
                        /\ Error(c, seq, FALSE, path).type = "error"
  BY DEF Error
<1>2. Error("INVALID_VALUE", 0, TRUE, Str("")).recoverable = Bool(TRUE)
      /\ Error("INVALID_VALUE", 0, TRUE, Str("")).type = "error"
  BY DEF Error
<1>3. Bool(TRUE) # Bool(FALSE)
  BY DEF Bool
<1>4. \A nonce : Pong(nonce).type = "pong"
  BY DEF Pong
<1> QED
  BY <1>1, <1>2, <1>3, <1>4 DEF OfInput

(* What a reader that has read a text is about to say is what it owes.      *)
LEMMA DispatchOwes ==
  ASSUME Understood, NEW text \in Texts, NEW verdict \in Verdicts
  PROVE  Owed(text) = InHand(Dispatched(text, verdict))
<1>1. PICK f : f = DecodeClient(text)
  OBVIOUS
<1>2. PICK answer : answer = Answer(f, verdict, 0)
  OBVIOUS
<1>3. Dispatched(text, verdict)
        = IF answer # <<>> THEN [at |-> "sending", reply |-> answer[1], last |-> Failed(f)]
          ELSE IF Failed(f) THEN ReaderDone
          ELSE IF f.type = "unsubscribe" THEN [Reading EXCEPT !.at = "closing"]
          ELSE NextRead
  BY <1>1, <1>2 DEF Dispatched
<1>4. [Reading EXCEPT !.at = "closing"].at = "closing"
  BY DEF Reading
<1>5. answer = <<>> => InHand(Dispatched(text, verdict)) = <<>>
  BY <1>3, <1>4, Ends DEF InHand
<1>6. ASSUME NEW reply, answer = <<reply>>
      PROVE  InHand(Dispatched(text, verdict)) = IF OfInput(reply) THEN <<>> ELSE <<reply>>
  BY <1>3, <1>6 DEF InHand
<1>7. CASE text \in DOMAIN Unfit
  <2>1. Owed(text) = CASE Unfit[text] = "version"  -> <<Error("VERSION_MISMATCH", 0, FALSE, Null)>>
                       [] Unfit[text] = "internal" -> <<Error("INTERNAL", 0, FALSE, Null)>>
                       [] Unfit[text] = "silent"   -> <<>>
    BY <1>7 DEF Owed
  <2>2. CASE Unfit[text] = "version" /\ f = Refused("version")
    <3>1. answer = <<Error("VERSION_MISMATCH", 0, FALSE, Null)>>
      BY <1>2, <2>2 DEF Answer, Failed, Refused
    <3> QED
      BY <1>6, <2>1, <2>2, <3>1, RepliesDiffer
  <2>3. CASE Unfit[text] = "internal" /\ f \in {Refused("decode"), Refused("unknown")}
    <3>1. Failed(f) /\ f.why \in {"decode", "unknown"}
      BY <2>3 DEF Failed, Refused
    <3>2. f.why # "version" /\ f.why # "raises"
      BY <3>1
    <3>3. answer = <<Error("INTERNAL", 0, FALSE, Null)>>
      BY <1>2, <3>1, <3>2 DEF Answer
    <3> QED
      BY <1>6, <2>1, <2>3, <3>3, RepliesDiffer
  <2>4. CASE Unfit[text] = "silent" /\ f = Refused("raises")
    <3>1. answer = <<>>
      BY <1>2, <2>4 DEF Answer, Failed, Refused
    <3> QED
      BY <1>5, <2>1, <2>4, <3>1
  <2> QED
    BY <1>1, <1>7, <2>2, <2>3, <2>4 DEF Understood
<1>8. CASE text \notin DOMAIN Unfit
  <2>1. f = (IF text \in DOMAIN Loose THEN Loose[text] ELSE Meaning[text]) /\ ~Failed(f)
    BY <1>1, <1>8, BuiltFrames DEF Understood, Texts
  <2>2. Owed(text) = CASE f.type = "ping"      -> <<Pong(f.nonce)>>
                       [] f.type = "subscribe" -> <<Error("INTERNAL", 0, FALSE, Null)>>
                       [] OTHER                -> <<>>
    BY <1>8, <2>1 DEF Owed
  <2>3. answer = CASE f.type = "ping"      -> <<Pong(f.nonce)>>
                   [] f.type = "subscribe" -> <<Error("INTERNAL", 0, FALSE, Null)>>
                   [] f.type = "input"     -> IF verdict.code = "OK" THEN <<>>
                                              ELSE <<Error(verdict.code, 0, TRUE, verdict.path)>>
                   [] OTHER                -> <<>>
    BY <1>2, <2>1 DEF Answer
  <2>4. CASE f.type = "ping"
    BY <1>6, <2>2, <2>3, <2>4, RepliesDiffer
  <2>5. CASE f.type = "subscribe"
    BY <1>6, <2>2, <2>3, <2>5, RepliesDiffer
  <2>6. CASE f.type = "input"
    <3>1. Owed(text) = <<>>
      BY <2>2, <2>6
    <3>2. \/ verdict.code = "OK"
          \/ verdict.code = "INVALID_VALUE" /\ verdict.path = Str("")
      <4>1. \/ verdict = [code |-> "OK", path |-> Null]
            \/ verdict = [code |-> "INVALID_VALUE", path |-> Str("")]
        BY DEF Verdicts
      <4>2. CASE verdict = [code |-> "OK", path |-> Null]
        BY <4>2
      <4>3. CASE verdict = [code |-> "INVALID_VALUE", path |-> Str("")]
        BY <4>3
      <4> QED
        BY <4>1, <4>2, <4>3
    <3>3. CASE verdict.code = "OK"
      BY <1>5, <2>3, <2>6, <3>1, <3>3
    <3>4. CASE verdict.code = "INVALID_VALUE" /\ verdict.path = Str("")
      <4>1. answer = <<Error("INVALID_VALUE", 0, TRUE, Str(""))>>
        BY <2>3, <2>6, <3>4
      <4> QED
        BY <1>6, <3>1, <4>1, RepliesDiffer
    <3> QED
      BY <3>2, <3>3, <3>4
  <2>7. CASE f.type \notin {"ping", "subscribe", "input"}
    BY <1>5, <2>2, <2>3, <2>7
  <2> QED
    BY <2>4, <2>5, <2>6, <2>7
<1> QED
  BY <1>7, <1>8

LEMMA ElementOf ==
  ASSUME NEW S, NEW s \in Seq(S), NEW i \in DOMAIN s
  PROVE  s[i] \in S
OBVIOUS

(* One more text heard, one more frame said: what is owed or paid grows by  *)
(* what the one owes or pays.                                               *)
LEMMA OwedIsSayable ==
  ASSUME Understood, NEW text \in Texts
  PROVE  Owed(text) \in Seq(Sayable)
<1>1. PICK verdict \in Verdicts : TRUE
  BY DEF Verdicts
<1>2. PICK r : r = Dispatched(text, verdict)
  OBVIOUS
<1>3. r.at = "sending" => r.reply \in Sayable
  BY <1>2, DispatchedAt
<1>4. InHand(r) \in Seq(Sayable)
  BY <1>3 DEF InHand
<1> QED
  BY <1>2, <1>4, DispatchOwes

LEMMA OwingGrows ==
  ASSUME Understood, NEW texts \in Seq(Texts), NEW text \in Texts
  PROVE  /\ Owing(<<>>) = <<>>
         /\ Owing(texts) \in Seq(Sayable)
         /\ Owing(Append(texts, text)) = Owing(texts) \o Owed(text)
<1> DEFINE debts == [i \in DOMAIN texts |-> Owed(texts[i])]
           more == Append(texts, text)
<1>1. \A i \in DOMAIN texts : Owed(texts[i]) \in Seq(Sayable)
  BY OwedIsSayable, Elements
<1>2. debts \in Seq(Seq(Sayable))
  BY <1>1
<1>3. Owed(text) \in Seq(Sayable)
  BY OwedIsSayable
<1>4. /\ DOMAIN more = 1..(Len(texts) + 1) /\ DOMAIN texts = 1..Len(texts) /\ Len(texts) \in Nat
      /\ \A i \in DOMAIN texts : more[i] = texts[i]
      /\ more[Len(texts) + 1] = text
  OBVIOUS
<1>5. Append(debts, Owed(text)) = [i \in 1..(Len(texts) + 1) |->
                                     IF i <= Len(texts) THEN debts[i] ELSE Owed(text)]
  BY <1>2, <1>3, <1>4
<1>6. [i \in DOMAIN more |-> Owed(more[i])] = Append(debts, Owed(text))
  <2>1. \A i \in 1..(Len(texts) + 1) :
          Owed(more[i]) = IF i <= Len(texts) THEN debts[i] ELSE Owed(text)
    BY <1>4
  <2> QED
    BY <1>4, <1>5, <2>1
<1>7. Owing(texts) = LX!FlattenSeq(debts)
  BY DEF Owing, SX!FlattenSeq, LX!FlattenSeq
<1>8. Owing(more) = LX!FlattenSeq(Append(debts, Owed(text)))
  <2>1. \A ss : SX!FlattenSeq(ss) = LX!FlattenSeq(ss)
    BY DEF SX!FlattenSeq, LX!FlattenSeq
  <2> QED
    BY <1>6, <2>1 DEF Owing
<1>9. Owing(<<>>) = <<>>
  BY DEF Owing, SX!FlattenSeq
<1> HIDE DEF debts, more
<1>10. /\ LX!FlattenSeq(debts) \in Seq(Sayable)
       /\ LX!FlattenSeq(Append(debts, Owed(text))) = LX!FlattenSeq(debts) \o Owed(text)
  BY <1>2, <1>3, FlattenAppend
<1> QED
  BY <1>7, <1>8, <1>9, <1>10 DEF more

LEMMA AnswersGrow ==
  ASSUME said \in Seq([by : Speakers, frame : Sayable]), NEW who \in Speakers, NEW f \in Sayable,
         said' = Append(said, By(who, f))
  PROVE  /\ Answers \in Seq(Sayable)
         /\ Answers' = Answers \o Paid(By(who, f))
<1> DEFINE pays == [i \in DOMAIN said |-> Paid(said[i])]
           n == Len(said)
<1>1. By(who, f) \in [by : Speakers, frame : Sayable]
  BY DEF By
<1>2. \A x \in [by : Speakers, frame : Sayable] : Paid(x) \in Seq(Sayable)
  BY DEF Paid
<1>3. \A i \in DOMAIN said : said[i] \in [by : Speakers, frame : Sayable]
  BY ElementOf
<1>4. pays \in Seq(Seq(Sayable))
  BY <1>2, <1>3
<1>5. Paid(By(who, f)) \in Seq(Sayable)
  BY <1>1, <1>2
<1>6. /\ DOMAIN said' = 1..(n + 1) /\ DOMAIN said = 1..n /\ n \in Nat
      /\ \A i \in DOMAIN said : said'[i] = said[i]
      /\ said'[n + 1] = By(who, f)
  BY <1>1
<1>7. Append(pays, Paid(By(who, f))) = [i \in 1..(n + 1) |->
                                          IF i <= n THEN pays[i] ELSE Paid(By(who, f))]
  BY <1>4, <1>5, <1>6
<1>8. [i \in DOMAIN said' |-> Paid(said'[i])] = Append(pays, Paid(By(who, f)))
  <2>1. \A i \in 1..(n + 1) :
          Paid(said'[i]) = IF i <= n THEN pays[i] ELSE Paid(By(who, f))
    BY <1>6
  <2> QED
    BY <1>6, <1>7, <2>1
<1>9. \A ss : SX!FlattenSeq(ss) = LX!FlattenSeq(ss)
  BY DEF SX!FlattenSeq, LX!FlattenSeq
<1>10. Answers = LX!FlattenSeq(pays)
  BY <1>9 DEF Answers
<1>11. Answers' = LX!FlattenSeq(Append(pays, Paid(By(who, f))))
  <2>1. Answers' = SX!FlattenSeq([i \in DOMAIN said' |-> Paid(said'[i])])
    BY DEF Answers, SX!FlattenSeq, Paid, OfInput, Error, Num, Str, Bool, Null
  <2> QED
    BY <1>8, <1>9, <2>1
<1> HIDE DEF pays
<1>12. /\ LX!FlattenSeq(pays) \in Seq(Sayable)
       /\ LX!FlattenSeq(Append(pays, Paid(By(who, f)))) = LX!FlattenSeq(pays) \o Paid(By(who, f))
  BY <1>4, <1>5, FlattenAppend
<1> QED
  BY <1>10, <1>11, <1>12

LEMMA AnswersTyped ==
  ASSUME said \in Seq([by : Speakers, frame : Sayable])
  PROVE  Answers \in Seq(Sayable)
<1> DEFINE pays == [i \in DOMAIN said |-> Paid(said[i])]
<1>1. \A x \in [by : Speakers, frame : Sayable] : Paid(x) \in Seq(Sayable)
  BY DEF Paid
<1>2. \A i \in DOMAIN said : said[i] \in [by : Speakers, frame : Sayable]
  BY ElementOf
<1>3. pays \in Seq(Seq(Sayable)) /\ <<>> \in Seq(Sayable)
  BY <1>1, <1>2
<1>4. Answers = LX!FlattenSeq(pays)
  BY DEF Answers, SX!FlattenSeq, LX!FlattenSeq
<1> HIDE DEF pays
<1> QED
  BY <1>3, <1>4, FlattenAppend

(* The account of a session: what the texts after the first are owed has    *)
(* been paid, but for what the reader has in hand.                          *)
Ledger ==
  /\ stage = "opening" => Len(heard) = 1
  /\ stage = "running" /\ Takes => Owing(Tail(heard)) = Answers \o InHand(reader)

(* A step of a session that says nothing and hears nothing.                 *)
LEMMA LedgerStays ==
  ASSUME Ledger, UNCHANGED <<heard, said>>,
         stage' = stage \/ stage' = "ended",
         stage' = "running" /\ Takes' => Takes /\ InHand(reader') = InHand(reader)
  PROVE  Ledger'
<1>1. Owing(Tail(heard))' = Owing(Tail(heard)) /\ Answers' = Answers
  BY DEF Owing, Answers, Owed, Paid
<1> QED
  BY <1>1 DEF Ledger

LEMMA LedgerHears ==
  ASSUME Understood, WireInv, Ledger, NEW text \in Texts, NEW verdict \in Verdicts,
         Hear(text, verdict)
  PROVE  Ledger'
<1>1. /\ stage = "running" /\ reader.at = "reading"
      /\ heard' = Append(heard, text) /\ reader' = Dispatched(text, verdict)
      /\ UNCHANGED <<stage, up, code, writer, said>>
  BY DEF Hear
<1>2. heard \in Seq(Texts) /\ heard # <<>>
  BY <1>1 DEF WireInv, Admission
<1>3. Tail(heard) \in Seq(Texts) /\ Tail(heard') = Append(Tail(heard), text)
  BY <1>1, <1>2
<1>4. Owing(Tail(heard')) = Owing(Tail(heard)) \o Owed(text)
  BY <1>3, OwingGrows
<1>5. Owed(text) = InHand(reader')
  BY <1>1, DispatchOwes
<1>6. Answers' = Answers
  BY <1>1 DEF Answers
<1>7. ASSUME Takes
      PROVE  Owing(Tail(heard')) = Answers' \o InHand(reader')
  <2>1. Owing(Tail(heard)) = Answers \o <<>>
    BY <1>1, <1>7 DEF Ledger, InHand
  <2>2. Answers \in Seq(Sayable)
    BY AnswersTyped DEF WireInv, Admission
  <2>3. Owing(Tail(heard)) = Answers
    BY <2>1, <2>2
  <2> QED
    BY <1>4, <1>5, <1>6, <2>3
<1>8. Takes' <=> Takes
  BY <1>1 DEF Takes
<1> QED
  BY <1>1, <1>7, <1>8 DEF Ledger

LEMMA LedgerSays ==
  ASSUME WireInv, Ledger, stage = "running", UNCHANGED <<stage, up, code, heard>>,
         NEW who \in Speakers, NEW f \in Sayable, said' = Append(said, By(who, f)),
         InHand(reader) = Paid(By(who, f)) \o InHand(reader'),
         InHand(reader') \in Seq(Sayable), Paid(By(who, f)) \in Seq(Sayable)
  PROVE  Ledger'
<1>1. Answers \in Seq(Sayable) /\ Answers' = Answers \o Paid(By(who, f))
  BY AnswersGrow DEF WireInv, Admission
<1>2. Takes => Owing(Tail(heard)) = Answers \o InHand(reader)
  BY DEF Ledger
<1>3. Answers \o (Paid(By(who, f)) \o InHand(reader')) = (Answers \o Paid(By(who, f))) \o InHand(reader')
  BY <1>1
<1>4. Takes' <=> Takes
  BY DEF Takes
<1>5. Owing(Tail(heard'))  = Owing(Tail(heard))
  OBVIOUS
<1> QED
  BY <1>1, <1>2, <1>3, <1>4, <1>5 DEF Ledger

(* Before the session there is no account.                                  *)
LEMMA LedgerOpens ==
  ASSUME WireInv, Ledger,
         \/ \E offered : Upgrade(offered)
         \/ NoSubscribe
         \/ \E text \in Texts, active \in BOOLEAN : First(text, active)
  PROVE  Ledger'
<1>1. CASE \E offered : Upgrade(offered)
  BY <1>1 DEF Upgrade, Ledger
<1>2. CASE NoSubscribe
  BY <1>2 DEF NoSubscribe, Deny, Ledger
<1>3. CASE \E text \in Texts, active \in BOOLEAN : First(text, active)
  <2>1. PICK text \in Texts, active \in BOOLEAN : First(text, active)
    BY <1>3
  <2>2. stage = "subscribing" /\ heard' = Append(heard, text) /\ stage' \in {"ended", "opening"}
    BY <2>1 DEF First, EndUntold, Deny
  <2>3. heard = <<>>
    BY <2>2 DEF WireInv, Admission
  <2>4. Len(heard') = 1
    BY <2>2, <2>3
  <2> QED
    BY <2>2, <2>4 DEF Ledger
<1> QED
  BY <1>1, <1>2, <1>3

(* A session starts with one text heard, and that was the Subscribe.        *)
LEMMA LedgerStarts ==
  ASSUME Understood, WireInv, Ledger, NothingMissed \/ \E f \in Queued : Opened(f)
  PROVE  Ledger'
<1>1. /\ stage = "opening" /\ UNCHANGED <<reader, heard>>
      /\ stage' \in {"running", "ended"}
      /\ \/ said' = said
         \/ \E f \in Queued : said' = Append(said, By("handshake", f))
  BY DEF NothingMissed, Opened
<1>2. said = <<>> /\ heard \in Seq(Texts) /\ Len(heard) = 1 /\ reader.at # "sending"
  BY <1>1 DEF WireInv, Admission, Ledger, Hands
<1>3. Tail(heard) = <<>>
  <2>1. Tail(heard) \in Seq(Texts) /\ Len(Tail(heard)) = 0
    BY <1>2
  <2> QED
    BY <2>1, NothingIn
<1>4. Owing(Tail(heard')) = <<>>
  <2>1. Owing(<<>>) = <<>>
    BY DEF Owing, SX!FlattenSeq
  <2> QED
    BY <1>1, <1>3, <2>1
<1>5. Answers = <<>>
  BY <1>2 DEF Answers, SX!FlattenSeq
<1>6. Answers' = <<>>
  <2>1. CASE said' = said
    BY <1>5, <2>1 DEF Answers
  <2>2. CASE \E f \in Queued : said' = Append(said, By("handshake", f))
    <3>1. PICK f \in Queued : said' = Append(said, By("handshake", f))
      BY <2>2
    <3>2. Answers' = Answers \o Paid(By("handshake", f))
      BY <3>1, AnswersGrow DEF WireInv, Admission, Speakers, Sayable
    <3>3. Paid(By("handshake", f)) = <<>>
      BY DEF Paid, By
    <3> QED
      BY <1>5, <3>2, <3>3
  <2> QED
    BY <1>1, <2>1, <2>2
<1>7. InHand(reader') = <<>>
  BY <1>1, <1>2 DEF InHand
<1> QED
  BY <1>1, <1>4, <1>6, <1>7 DEF Ledger

LEMMA LedgerReplies ==
  ASSUME WireInv, Ledger, ReplySent \/ ReplyFails \/ CloseSent \/ ReceiveRaises
  PROVE  Ledger'
<1>1. stage = "running"
  BY DEF WireInv, TypeOK, Hands, ReplySent, ReplyFails, CloseSent, ReceiveRaises
<1>2. CASE ReplySent
  <2> DEFINE who == IF reader.last THEN "goodbye" ELSE "reader"
             f == reader.reply
  <2>1. /\ reader.at = "sending" /\ said' = Append(said, By(who, f))
        /\ UNCHANGED <<stage, up, code, heard>>
        /\ reader'.at # "sending"
    BY <1>2, Ends DEF ReplySent
  <2>2. who \in Speakers /\ who \in {"reader", "goodbye"} /\ f \in Sayable
    BY <2>1 DEF WireInv, Hands, Speakers
  <2> HIDE DEF who
  <2>3. InHand(reader) = Paid(By(who, f))
    BY <2>1, <2>2 DEF InHand, Paid, By
  <2>4. InHand(reader') = <<>>
    BY <2>1 DEF InHand
  <2>5. Paid(By(who, f)) \in Seq(Sayable)
    BY <2>2 DEF Paid, By
  <2>6. Paid(By(who, f)) \o <<>> = Paid(By(who, f)) /\ <<>> \in Seq(Sayable)
    BY <2>5
  <2> QED
    BY <1>1, <2>1, <2>2, <2>3, <2>4, <2>5, <2>6, LedgerSays
<1>3. CASE ReplyFails
  BY <1>3, LedgerStays DEF ReplyFails, Takes
<1>4. CASE CloseSent
  <2>1. ~Takes'
    BY <1>4 DEF CloseSent, Takes
  <2> QED
    BY <1>4, <2>1, LedgerStays DEF CloseSent
<1>5. CASE ReceiveRaises
  BY <1>5, LedgerStays DEF ReceiveRaises, Takes
<1> QED
  BY <1>2, <1>3, <1>4, <1>5

LEMMA LedgerWrites ==
  ASSUME WireInv, Ledger,
         \/ \E f \in Queued : WriterGet(f)
         \/ GetSentinel \/ PingDue \/ FrameSent \/ FrameFails
  PROVE  Ledger'
<1>1. CASE FrameSent
  <2>1. /\ writer.at = "sending" /\ said' = Append(said, By("writer", writer.frame))
        /\ UNCHANGED <<stage, up, code, heard, reader>>
    BY <1>1 DEF FrameSent
  <2>2. stage = "running" /\ writer.frame \in Sayable /\ "writer" \in Speakers
    BY <2>1 DEF WireInv, TypeOK, Hands, Sayable, Speakers
  <2>3. Paid(By("writer", writer.frame)) = <<>>
    BY DEF Paid, By
  <2>4. InHand(reader) \in Seq(Sayable)
    BY DEF InHand, WireInv, Hands
  <2>5. <<>> \o InHand(reader) = InHand(reader) /\ <<>> \in Seq(Sayable)
    BY <2>4
  <2> QED
    BY <2>1, <2>2, <2>3, <2>4, <2>5, LedgerSays
<1>2. CASE (\E f \in Queued : WriterGet(f)) \/ GetSentinel \/ PingDue \/ FrameFails
  <2>1. UNCHANGED <<stage, up, code, reader, heard, said>>
    BY <1>2 DEF WriterGet, GetSentinel, PingDue, FrameFails
  <2>2. InHand(reader') = InHand(reader) /\ (Takes' <=> Takes)
    BY <2>1 DEF Takes
  <2> QED
    BY <2>1, <2>2, LedgerStays
<1> QED
  BY <1>1, <1>2

LEMMA LedgerEnds ==
  ASSUME Ledger, Finish \/ ClientGoes \/ UNCHANGED vars
  PROVE  Ledger'
<1>1. CASE Finish
  BY <1>1, LedgerStays DEF Finish
<1>2. CASE ClientGoes
  BY <1>2, LedgerStays DEF ClientGoes, Takes
<1>3. CASE UNCHANGED vars
  BY <1>3, LedgerStays DEF vars, Takes
<1> QED
  BY <1>1, <1>2, <1>3

THEOREM LedgerInvariance ==
  ASSUME Understood
  PROVE  Spec => []Ledger
<1>1. Init => Ledger
  BY DEF Init, Ledger
<1>2. WireInv /\ Ledger /\ [Next]_vars => Ledger'
  <2> SUFFICES ASSUME WireInv, Ledger, [Next]_vars
               PROVE  Ledger'
    OBVIOUS
  <2>1. CASE \/ \E offered \in SUBSET (Subprotocols \cup {"other"}) : Upgrade(offered)
             \/ NoSubscribe
             \/ \E text \in Texts, active \in BOOLEAN : First(text, active)
    BY <2>1, LedgerOpens
  <2>2. CASE NothingMissed \/ \E f \in Queued : Opened(f)
    BY <2>2, LedgerStarts
  <2>3. CASE \E text \in Texts : \E verdict \in Verdicts : Hear(text, verdict)
    BY <2>3, LedgerHears
  <2>4. CASE ReplySent \/ ReplyFails \/ CloseSent \/ ReceiveRaises
    BY <2>4, LedgerReplies
  <2>5. CASE (\E f \in Queued : WriterGet(f)) \/ GetSentinel \/ PingDue \/ FrameSent \/ FrameFails
    BY <2>5, LedgerWrites
  <2>6. CASE Finish \/ ClientGoes \/ UNCHANGED vars
    BY <2>6, LedgerEnds
  <2> QED
    BY <2>1, <2>2, <2>3, <2>4, <2>5, <2>6 DEF Next
<1> QED
  BY <1>1, <1>2, WireInvariance, PTL DEF Spec

(* Where the texts stand for what they are listed for, everything said in a *)
(* session is answered once, in order and for what it was, for every set of *)
(* texts (_reader_loop, _dispatch, _send_error).                            *)
THEOREM AnsweredInOrderHolds ==
  ASSUME Understood
  PROVE  Spec => []AnsweredInOrder
<1>1. WireInv /\ Ledger => AnsweredInOrder
  <2> SUFFICES ASSUME WireInv, Ledger, stage = "running", Takes
               PROVE  Owing(Tail(heard)) = IF reader.at = "sending" /\ ~OfInput(reader.reply)
                                             THEN Append(Answers, reader.reply) ELSE Answers
    BY DEF AnsweredInOrder
  <2>1. Answers \in Seq(Sayable)
    BY AnswersTyped DEF WireInv, Admission
  <2>2. Owing(Tail(heard)) = Answers \o InHand(reader)
    BY DEF Ledger
  <2>3. CASE reader.at = "sending" /\ ~OfInput(reader.reply)
    <3>1. reader.reply \in Sayable
      BY <2>3 DEF WireInv, Hands
    <3>2. Append(Answers, reader.reply) = Answers \o <<reader.reply>>
      BY <2>1, <3>1
    <3> QED
      BY <2>2, <2>3, <3>2 DEF InHand
  <2>4. CASE ~(reader.at = "sending" /\ ~OfInput(reader.reply))
    <3>1. Answers \o <<>> = Answers
      BY <2>1
    <3> QED
      BY <2>2, <2>4, <3>1 DEF InHand
  <2> QED
    BY <2>3, <2>4
<1> QED
  BY <1>1, WireInvariance, LedgerInvariance, PTL

------------------------------------------------------------------------------
(* What it is worth.                                                        *)

(* Every variable of a session holds what it is said to hold (_run_session).*)
THEOREM WireTypes == Spec => []TypeOK
<1>1. WireInv => TypeOK
  BY DEF WireInv
<1> QED
  BY <1>1, WireInvariance, PTL

(* Whatever either end builds, the other reads as it was built (encode,     *)
(* decode_client, decode_server).                                           *)
THEOREM ReadAsBuiltHolds == Spec => []ReadAsBuilt
<1>1. WireInv => ReadAsBuilt
  <2> SUFFICES ASSUME WireInv
               PROVE  ReadAsBuilt
    OBVIOUS
  <2>1. ASSUME NEW text \in DOMAIN Meaning
        PROVE  DecodeClient(text) = Meaning[text]
    <3>1. text \in {Encode(f) : f \in Built}
             /\ Meaning[text] = CHOOSE f \in Built : Encode(f) = text
      BY DEF Meaning
    <3>2. PICK f \in Built : f = Meaning[text] /\ Encode(f) = text
      BY <3>1
    <3> QED
      BY <3>2, ClientRoundTrip, BuiltAssumption
  <2>2. ASSUME NEW i \in DOMAIN said
        PROVE  DecodeServer(Encode(said[i].frame)) = said[i].frame
    <3>1. said[i].frame \in Sayable
      BY Elements DEF WireInv, Admission
    <3> QED
      BY <3>1, SayableFrames, ServerRoundTrip
  <2> QED
    BY <2>1, <2>2 DEF ReadAsBuilt
<1> QED
  BY <1>1, WireInvariance, PTL

(* Nobody is served who was not admitted first (handle_ws).                 *)
THEOREM ServedOnlyIfAdmittedHolds == Spec => []ServedOnlyIfAdmitted
<1>1. WireInv => ServedOnlyIfAdmitted
  BY DEF WireInv, Admission, ServedOnlyIfAdmitted, Admits
<1> QED
  BY <1>1, WireInvariance, PTL

(* After the error that ends a reader comes one frame of the writer's at    *)
(* most (_run_session).                                                     *)
THEOREM EndsThereafterHolds == Spec => []EndsThereafter
<1>1. WireInv => EndsThereafter
  <2> SUFFICES ASSUME WireInv, NEW i \in DOMAIN said, said[i].by = "goodbye"
               PROVE  /\ Len(said) <= i + 1
                      /\ \A j \in i + 1..Len(said) : said[j].by = "writer"
    BY DEF EndsThereafter
  <2>1. Len(said) \in Nat /\ DOMAIN said = 1..Len(said)
    BY DEF WireInv, Admission
  <2>2. \/ Len(said) = i
        \/ Len(said) = i + 1 /\ said[i + 1].by = "writer"
    BY DEF WireInv, Farewell
  <2> QED
    BY <2>1, <2>2
<1> QED
  BY <1>1, WireInvariance, PTL

==============================================================================
