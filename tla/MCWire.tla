-------------------------------- MODULE MCWire --------------------------------
(* Wire on small sets of frames: each field that the codec treats in its    *)
(* own way is there with each kind of value that makes a difference.        *)
EXTENDS Wire, TLC

x == Str("x")

Sub(token, scene, session, since) ==
  [type |-> "subscribe", token |-> token, scene |-> scene, session |-> session,
   since_sequence |-> since]

Input(patches, id) == [type |-> "input", patches |-> patches, client_msg_id |-> id]

PlainPatch == [path |-> x, value |-> Null, transition |-> Null]

Spring == [kind |-> Str("spring"), duration_ms |-> Num(0), easing |-> Str("ease-in"),
           stiffness |-> Real(1, FALSE), damping |-> Null]

MCAccounts == (Str("op") :> "operator") @@ (Str("view") :> "viewer") @@ (Str("void") :> "none")

MCRegistered == {Str("s")}

MCBuilt ==
  {Sub(Str("op"), Str(""), Str(""), Null), Sub(Str("op"), Str("s"), x, Num(0)),
   Sub(Str("op"), Str("s"), Str(""), Null), Sub(Str("op"), x, x, Null),
   Sub(Str("view"), Str(""), Str(""), Num(3)), Sub(Str("view"), Str("s"), x, Null),
   Sub(Str("void"), Str(""), Str(""), Null), Sub(x, Str(""), Str(""), Null),
   Input(<<[PlainPatch EXCEPT !.transition = Spring], PlainPatch>>, Str("")),
   Input(<<>>, Null),
   [type |-> "ping", nonce |-> Null], [type |-> "ping", nonce |-> Str("")],
   [type |-> "pong", nonce |-> x], [type |-> "unsubscribe"]}

MCQueued ==
  {[type |-> "snapshot", seq |-> Num(3), ts |-> Str(""), scene_id |-> Str("s"),
    scene_version |-> x, state |-> Obj(<<>>)],
   [type |-> "delta", seq |-> Num(3), ts |-> x,
    patches |-> <<[PlainPatch EXCEPT !.transition = [Spring EXCEPT !.easing = Null]]>>,
    cause |-> [source |-> x, input_id |-> Str("")]],
   [type |-> "scene_changed", seq |-> Num(3), ts |-> Str(""), scene_id |-> Str("s"),
    scene_version |-> Str(""), from_scene_id |-> Null,
    transition |-> [kind |-> x, duration_ms |-> Num(0)]]}

Env(type) == [v |-> Num(1), type |-> Str(type)]
With(o, key, j) == Obj(o @@ (key :> j))
Patched(j) == With(Env("input"), "patches", List(<<j>>))
Animated(spec) == Patched(Obj([path |-> x, transition |-> Obj(spec)]))
Tween == [kind |-> Str("tween")]

MCLater == {Encode(f) : f \in {[type |-> "ping", nonce |-> Str("")],
                               Sub(Str("op"), Str(""), Str(""), Null)}}
           \cup {Garbage}

(* Not the codec's own spelling, and yet a frame.                           *)
MCLoose ==
  (Obj([v |-> Real(1, TRUE), type |-> Str("ping")]) :> [type |-> "ping", nonce |-> Null])
  @@ (Obj([v |-> Bool(TRUE), type |-> Str("ping"), nonce |-> List(<<>>)])
        :> [type |-> "ping", nonce |-> List(<<>>)])
  @@ (With(Env("subscribe"), "since_sequence", Bool(TRUE)) :> Sub(Str(""), Str(""), Str(""), Num(1)))
  @@ (With(Env("subscribe"), "token", List(<<>>)) :> Sub(List(<<>>), Str(""), Str(""), Null))
  @@ (Obj([v |-> Num(1), type |-> Str("subscribe"), token |-> Str("op"), scene |-> Obj([k |-> x]),
           session |-> Num(7), since_sequence |-> Digits])
        :> Sub(Str("op"), Obj([k |-> x]), Num(7), Num(7)))
  @@ (Obj([v |-> Num(1), type |-> Str("subscribe"), token |-> Str("op"), scene |-> Num(0),
           extra |-> x]) :> Sub(Str("op"), Str(""), Str(""), Null))
  @@ (With(Env("input"), "patches", Null) :> Input(<<>>, Null))
  @@ (Patched(Obj([path |-> Num(7)])) :> Input(<<[PlainPatch EXCEPT !.path = Str("printed")]>>, Null))
  @@ (Animated([kind |-> Str("tween"), duration_ms |-> Real(1, FALSE), damping |-> Digits]) :>
        Input(<<[PlainPatch EXCEPT !.transition =
                   [kind |-> Str("tween"), duration_ms |-> Num(1), easing |-> Null,
                    stiffness |-> Null, damping |-> Real(7, TRUE)]]>>, Null))

MCUnfit ==
  (Garbage :> "internal") @@ (List(<<>>) :> "internal") @@ (Obj(<<>>) :> "version")
  @@ (Obj([v |-> Num(2), type |-> Num(0)]) :> "version")
  @@ (Obj([v |-> Str("1"), type |-> Str("subscribe"), token |-> Str("op")]) :> "version")
  @@ (Obj([v |-> Num(1)]) :> "internal") @@ (With([v |-> Num(1)], "type", Null) :> "internal")
  @@ (Obj(Env("delta")) :> "internal")
  @@ (With(Env("subscribe"), "since_sequence", x) :> "silent")
  @@ (With(Env("subscribe"), "since_sequence", Infinity) :> "silent")
  @@ (With(Env("input"), "patches", Obj(<<>>)) :> "internal")
  @@ (Patched(x) :> "internal") @@ (Patched(Obj(<<>>)) :> "internal")
  @@ (Patched(Obj([path |-> x, transition |-> x])) :> "internal")
  @@ (Animated([kind |-> x, duration_ms |-> x]) :> "internal")
  @@ (Animated(Tween @@ ("duration_ms" :> Null)) :> "silent")
  @@ (Animated(Tween @@ ("easing" :> Null)) :> "internal")
  @@ (Animated(Tween @@ ("stiffness" :> Huge)) :> "silent")
  @@ (With(Env("input"), "patches",
           List(<<Obj([path |-> x, transition |-> Obj(Tween @@ ("damping" :> x))]), x>>)) :> "silent")
==============================================================================
