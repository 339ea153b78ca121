--------------------------------- MODULE Codec ---------------------------------
(****************************************************************************)
(* protocol/codec.py: typed frames, the JSON objects that carry them, and   *)
(* what becomes of an object that carries none.                             *)
(*                                                                          *)
(* A JSON value is a record whose field `is` names its type.  A typed frame *)
(* is a record with a field `type`, whose other fields hold JSON values     *)
(* (Null for None), or, for patches, transition and cause, records of them. *)
(* Result of a decoder: such a record, or a refusal.                        *)
(****************************************************************************)
EXTENDS Integers, Sequences

Null == [is |-> "null"]
Bool(b) == [is |-> "bool", b |-> b]
Num(n) == [is |-> "int", n |-> n]
Real(n, whole) == [is |-> "float", n |-> n, whole |-> whole]    \* n, or n and a fraction
Str(s) == [is |-> "str", s |-> s]
List(items) == [is |-> "list", items |-> items]
Obj(fields) == [is |-> "object", fields |-> fields]

Huge == [is |-> "huge"]         \* an int no float can hold
Infinity == [is |-> "inf"]      \* json.loads accepts NaN and Infinity
Garbage == [is |-> "garbage"]   \* text that is not JSON

Digits == Str("7")              \* the text int() and float() accept

(* What isinstance takes for an int or a float, bools set apart.            *)
Number(j) == j.is \in {"int", "float"}

(* Why a frame is refused: the three errors of the codec, and "raises" for  *)
(* one that is not the codec's: the ValueError, TypeError or OverflowError  *)
(* of a conversion.                                                         *)
Refused(why) == [why |-> why]
Failed(result) == "why" \in DOMAIN result

(* Python evaluates the parts in order and raises at the first that fails.  *)
FirstFailure(parts, whole) ==
  LET failed == {i \in DOMAIN parts : Failed(parts[i])}
  IN  IF failed = {} THEN whole
      ELSE parts[CHOOSE i \in failed : \A j \in failed : i <= j]

Get(o, key, default) == IF key \in DOMAIN o THEN o[key] ELSE default

Falsy(j) ==
  \/ j = Null
  \/ j = Bool(FALSE)
  \/ j \in {Num(0), Real(0, TRUE)}
  \/ j = Str("")
  \/ j.is = "list" /\ j.items = <<>>
  \/ j.is = "object" /\ DOMAIN j.fields = {}

OrElse(j, default) == IF Falsy(j) THEN default ELSE j

IntOf(j) ==
  CASE j.is \in {"int", "huge"} -> j
    [] j.is = "bool"            -> Num(IF j.b THEN 1 ELSE 0)
    [] j.is = "float"           -> Num(j.n)
    [] j = Digits               -> Num(7)
    [] OTHER                    -> Refused("raises")

FloatOf(j) ==
  CASE j.is = "int"                -> Real(j.n, TRUE)
    [] j.is = "bool"               -> Real(IF j.b THEN 1 ELSE 0, TRUE)
    [] j.is \in {"float", "inf"}   -> j
    [] j = Digits                  -> Real(7, TRUE)
    [] OTHER                       -> Refused("raises")

(* str(): the printed form of what is no string is not told apart further.  *)
TextOf(j) == IF j.is = "str" THEN j ELSE Str("printed")

(* dict() of an object. A list of pairs, which it takes as well, is left    *)
(* out: no text of MCWire or MCHarness has one. Nothing falsy gets here.    *)
DictOf(j) == IF j.is = "object" THEN j ELSE Refused("raises")

Optional(j, Convert(_)) == IF j = Null THEN Null ELSE Convert(j)

Present(o, key, Convert(_)) == IF key \in DOMAIN o THEN Convert(o[key]) ELSE Null

------------------------------------------------------------------------------
(* Decoding.                                                                *)

(* v is compared with == : 1.0 and true pass for 1.                         *)
Version(j) == j \in {Num(1), Real(1, TRUE), Bool(TRUE)}

TypeFirstEnvelope(raw) ==       \* a mistake to be caught: the version is looked at last
  IF raw.is # "object" THEN Refused("decode")
  ELSE IF Get(raw.fields, "type", Null).is # "str" THEN Refused("decode")
  ELSE IF ~Version(Get(raw.fields, "v", Null)) THEN Refused("version")
  ELSE raw

ParseEnvelope(raw) ==
  IF raw.is # "object" THEN Refused("decode")
  ELSE IF ~Version(Get(raw.fields, "v", Null)) THEN Refused("version")
  ELSE IF Get(raw.fields, "type", Null).is # "str" THEN Refused("decode")
  ELSE raw

Kinds == {"tween", "spring", "snap"}
Easings == {"linear", "ease-in", "ease-out", "ease-in-out"}

OneOf(words, j) == IF j \in {Str(w) : w \in words} THEN j ELSE Refused("decode")

ParseTransitionSpec(j) ==
  IF j = Null THEN Null
  ELSE IF j.is # "object" THEN Refused("decode")
  ELSE LET o == j.fields
           spec == [kind        |-> OneOf(Kinds, Get(o, "kind", Null)),
                    duration_ms |-> Present(o, "duration_ms", IntOf),
                    easing      |-> Present(o, "easing", LAMBDA e : OneOf(Easings, e)),
                    stiffness   |-> Present(o, "stiffness", FloatOf),
                    damping     |-> Present(o, "damping", FloatOf)]
       IN  FirstFailure(<<spec.kind, spec.duration_ms, spec.easing, spec.stiffness,
                          spec.damping>>, spec)

ParsePatch(j) ==
  IF j.is # "object" THEN Refused("decode")
  ELSE IF "path" \notin DOMAIN j.fields THEN Refused("decode")
  ELSE LET transition == ParseTransitionSpec(Get(j.fields, "transition", Null))
       IN  IF Failed(transition) THEN transition
           ELSE [path |-> TextOf(j.fields["path"]), value |-> Get(j.fields, "value", Null),
                 transition |-> transition]

ParsePatches(j) ==
  IF j = Null THEN [patches |-> <<>>]
  ELSE IF j.is # "list" THEN Refused("decode")
  ELSE LET patches == [i \in DOMAIN j.items |-> ParsePatch(j.items[i])]
       IN  FirstFailure(patches, [patches |-> patches])

ParseCause(j) ==
  IF j = Null THEN Null
  ELSE IF j.is # "object" THEN Refused("decode")
  ELSE IF Get(j.fields, "source", Null).is # "str" THEN Refused("decode")
  ELSE [source |-> j.fields["source"], input_id |-> Get(j.fields, "input_id", Null)]

ParseSceneTransition(j) ==
  IF j = Null THEN Null
  ELSE IF j.is # "object" THEN Refused("decode")
  ELSE IF Get(j.fields, "kind", Null).is # "str" THEN Refused("decode")
  ELSE LET duration == Optional(Get(j.fields, "duration_ms", Null), IntOf)
       IN  IF Failed(duration) THEN duration
           ELSE [kind |-> j.fields["kind"], duration_ms |-> duration]

(* The reader of a type, given the object.                                  *)
SubscribeOf(o) ==
  LET since == Optional(Get(o, "since_sequence", Null), IntOf)
  IN  FirstFailure(<<since>>,
        [type |-> "subscribe", token |-> Get(o, "token", Str("")),
         scene |-> OrElse(Get(o, "scene", Null), Str("")),
         session |-> OrElse(Get(o, "session", Null), Str("")),
         since_sequence |-> since])

InputOf(o) ==
  LET parsed == ParsePatches(Get(o, "patches", Null))
  IN  FirstFailure(<<parsed>>,
        [type |-> "input", patches |-> parsed.patches,
         client_msg_id |-> Get(o, "client_msg_id", Null)])

Heartbeat(type, o) == [type |-> type, nonce |-> Get(o, "nonce", Null)]

DecodeClient(raw) ==
  LET env == ParseEnvelope(raw)
      t   == env.fields["type"].s
  IN  IF Failed(env) THEN env
      ELSE CASE t = "subscribe"          -> SubscribeOf(env.fields)
             [] t = "input"              -> InputOf(env.fields)
             [] t \in {"ping", "pong"}   -> Heartbeat(t, env.fields)
             [] t = "unsubscribe"        -> [type |-> t]
             [] OTHER                    -> Refused("unknown")

(* Every numbered frame begins with these two.                              *)
SeqOf(o) == IntOf(Get(o, "seq", Num(0)))
TsOf(o) == OrElse(Get(o, "ts", Null), Str(""))

SnapshotOf(o) ==
  LET seq == SeqOf(o)
      state == DictOf(OrElse(Get(o, "state", Null), Obj(<<>>)))
  IN  FirstFailure(<<seq, state>>,
        [type |-> "snapshot", seq |-> seq, ts |-> TsOf(o),
         scene_id |-> Get(o, "scene_id", Str("")),
         scene_version |-> Get(o, "scene_version", Str("")), state |-> state])

DeltaOf(o) ==
  LET seq == SeqOf(o)
      parsed == ParsePatches(Get(o, "patches", Null))
      cause == ParseCause(Get(o, "cause", Null))
  IN  FirstFailure(<<seq, parsed, cause>>,
        [type |-> "delta", seq |-> seq, ts |-> TsOf(o), patches |-> parsed.patches,
         cause |-> cause])

SceneChangedOf(o) ==
  LET seq == SeqOf(o)
      transition == ParseSceneTransition(Get(o, "transition", Null))
  IN  FirstFailure(<<seq, transition>>,
        [type |-> "scene_changed", seq |-> seq, ts |-> TsOf(o),
         scene_id |-> Get(o, "scene_id", Str("")),
         scene_version |-> Get(o, "scene_version", Str("")),
         from_scene_id |-> Get(o, "from_scene_id", Null), transition |-> transition])

ErrorOf(o) ==
  LET seq == SeqOf(o)
      retry == IntOf(OrElse(Get(o, "retry_after_ms", Null), Num(0)))
  IN  FirstFailure(<<seq, retry>>,
        [type |-> "error", seq |-> seq, ts |-> TsOf(o),
         code |-> Get(o, "code", Str("")), message |-> Get(o, "message", Str("")),
         recoverable |-> Bool(~Falsy(Get(o, "recoverable", Bool(FALSE)))),
         retry_after_ms |-> retry, path |-> Get(o, "path", Null)])

DecodeServer(raw) ==
  LET env == ParseEnvelope(raw)
      t   == env.fields["type"].s
  IN  IF Failed(env) THEN env
      ELSE CASE t = "snapshot"           -> SnapshotOf(env.fields)
             [] t = "delta"              -> DeltaOf(env.fields)
             [] t = "scene_changed"      -> SceneChangedOf(env.fields)
             [] t = "error"              -> ErrorOf(env.fields)
             [] t \in {"ping", "pong"}   -> Heartbeat(t, env.fields)
             [] OTHER                    -> Refused("unknown")

------------------------------------------------------------------------------
(* Encoding.                                                                *)

(* What a field of None leaves out, and what any empty value does.          *)
LeftOutIfNone == {"cause", "transition", "path", "nonce", "since_sequence", "client_msg_id"}
LeftOutIfEmpty == {"ts", "from_scene_id", "retry_after_ms", "scene", "session"}

BlindOmits(key, x) ==           \* a mistake to be caught: `if x` for `if x is not None`
  \/ key \in LeftOutIfEmpty /\ Falsy(x)
  \/ key \in LeftOutIfNone \ {"cause", "transition"} /\ Falsy(x)
  \/ key \in {"cause", "transition"} /\ x = Null

Omits(key, x) ==
  \/ key \in LeftOutIfNone /\ x = Null
  \/ key \in LeftOutIfEmpty /\ Falsy(x)

(* A cause, or either kind of transition: what is None is left out.         *)
Sparse(r) == Obj([key \in {k \in DOMAIN r : r[k] # Null} |-> r[key]])

PatchToDict(p) ==
  Obj([key \in {k \in DOMAIN p : ~(k = "transition" /\ p[k] = Null)} |->
         IF key = "transition" THEN Sparse(p[key]) ELSE p[key]])

FieldToJson(key, x) ==
  CASE key = "type"                      -> Str(x)
    [] key = "patches"                   -> List([i \in DOMAIN x |-> PatchToDict(x[i])])
    [] key \in {"cause", "transition"}   -> Sparse(x)
    [] OTHER                             -> x

Encode(f) ==
  Obj([key \in {"v"} \cup {k \in DOMAIN f : ~Omits(k, f[k])} |->
         IF key = "v" THEN Num(1) ELSE FieldToJson(key, f[key])])

==============================================================================
