------------------------------- MODULE MCHarness -------------------------------
(* Harness on small scripts over two leaves, one of them an operator's. *)
EXTENDS Harness

A == "__inputs.a"
P == "show"

MCSegments == (A :> <<"__inputs", "a">>) @@ (P :> <<"show">>)
MCMissing == [is |-> "missing"]
MCZeroHash == Str("sha256:0")

Operator == Str("$TOKEN_OPERATOR")
Viewer == Str("$TOKEN_VIEWER")
Invalid == Str("$TOKEN_INVALID")

MCTokenOf == (Operator :> Str("tok-op")) @@ (Viewer :> Str("tok-view")) @@ (Invalid :> Str("bad"))
MCRoleOf == (Operator :> "operator") @@ (Viewer :> "viewer") @@ (Invalid :> "none")

------------------------------------------------------------------------------
(* Steps and frames.                                                        *)

StepOf(kind, frame, state, action) ==
  [kind |-> kind, frame |-> frame, state |-> state, action |-> action]

V1(type, fields) == Obj([v |-> Num(1), type |-> Str(type)] @@ fields)
Patches(items) == [patches |-> List(items)]
Patch(p, j) == Obj([path |-> Str(p), value |-> j])

Says(type, fields) == StepOf("client-sends", V1(type, fields), <<>>, "")
Gets(type, fields) == StepOf("server-sends", V1(type, fields), <<>>, "")
Emits(type, fields) == StepOf("server-emits", V1(type, fields), <<>>, "")
Shows(state) == StepOf("expect-runtime-state", Null, state, "")
Has(state) == StepOf("expect-server-state", Null, state, "")
Quiet == StepOf("expect-no-frame-for", Null, <<>>, "")
Does(action) == StepOf("expect-client-action", Null, <<>>, action)
Waits == StepOf("wait", Null, <<>>, "")

Joins(token) == Says("subscribe", [token |-> token])
Sets(p, j) == Says("input", Patches(<<Patch(p, j)>>))
Delta(items) == Gets("delta", Patches(items))
Told(code) == Gets("error", [code |-> Str(code), recoverable |-> Bool(TRUE)])

Snap(state) == Gets("snapshot", [scene_id |-> Str("s"), scene_version |-> SentinelAnyHash,
                                 seq |-> SentinelAny, state |-> Obj(state)])
AtZero == (A :> Num(0)) @@ (P :> Num(0))
Begin == <<Joins(Operator), Snap(AtZero)>>

------------------------------------------------------------------------------
(* Scenarios.  sound: a server that is in time meets the script.            *)

Scene(name, sound, steps) ==
  [name |-> name, tag |-> "required", target |-> "server", bundles |-> Null,
   steps |-> steps, sound |-> sound]

One == Num(1)

WithBundles(bundles, sc) == [sc EXCEPT !.bundles = List(bundles)]

Declares(id, inline) == Obj([id |-> Str(id), inline |-> inline])

Input(spec) == [operator_inputs |-> List(<<Obj([path |-> Str(A)] @@ spec)>>)]

Bounded ==
  Declares("b", Obj([defaults |-> Obj(AtZero), scene_id |-> Str("show")] @@
    Input([type |-> Str("number"), max |-> Num(9), constraints |-> Obj([max |-> Real(2, FALSE)])])))

Choice ==
  Declares("b", Obj([defaults |-> Obj(AtZero), scene_id |-> Str("")] @@
    Input([type |-> Str("enum"), values |-> List(<<Str("x")>>)])))

(* Documents that differ in one number, or in where things are.             *)
Numbers ==
  <<Num(0), Real(0, TRUE), Decimal(TRUE, <<0>>, 1), Bool(TRUE), One, Str("1"), Real(1, FALSE),
    Decimal(FALSE, <<1>>, 1), Num(-1), Num(120), Decimal(FALSE, <<1, 2>>, 3),
    Decimal(FALSE, <<1, 0, 2>>, 1), Decimal(FALSE, <<1, 2>>, 17), Decimal(FALSE, <<1, 2>>, 21),
    Decimal(FALSE, <<1, 2>>, 22), Decimal(FALSE, <<5>>, 0), Decimal(FALSE, <<5>>, -3),
    Decimal(FALSE, <<5>>, -4), Decimal(TRUE, <<5, 1>>, -5), Decimal(FALSE, <<5, 1>>, -6),
    Decimal(FALSE, <<5>>, -7)>>

Documents ==
  <<Obj([operator_inputs |-> List(<<Obj([path |-> Str(P)])>>)]),
    Obj([scene_version |-> One]), Obj([scene_version |-> Str("y")]),
    Obj([k |-> Obj([scene_version |-> One])]), Obj([k |-> Obj([scene_version |-> Null])]),
    Obj([k |-> List(<<One, Null>>)]), Obj([k |-> List(<<Null, One>>)])>>
  \o [i \in DOMAIN Numbers |-> Obj([k |-> Numbers[i]])]

Library ==
  [i \in DOMAIN Documents |-> Declares(IF i = 1 THEN "first" ELSE "later", Documents[i])]

Sound ==
  {Scene("hello", TRUE, Begin \o <<Shows(A :> Real(0, TRUE)), Waits, Quiet>>),
   Scene("echo", TRUE, Begin \o <<Sets(A, One), Delta(<<Patch(A, Real(1, TRUE))>>),
                                  Has(A :> One), Quiet>>),
   Scene("emit", TRUE, Begin \o <<Sets(A, One), Emits("delta", Patches(<<Patch(P, One)>>)),
                                  Shows((A :> One) @@ (P :> One))>>),
   Scene("again", TRUE, Begin \o <<Emits("delta", Patches(<<Patch(P, One)>>)),
                                   Emits("delta", Patches(<<Patch(P, Null)>>)),
                                   Shows(P :> Null)>>),
   Scene("denied", TRUE, <<Joins(Invalid), Gets("error", [code |-> Str("AUTH_DENIED")]),
                           Does("close-with-reason")>>),
   Scene("version", TRUE, <<StepOf("client-sends", Obj([v |-> Num(2)]), <<>>, ""),
                            Does("reconnect")>>),
   Scene("viewer", TRUE, <<Joins(Viewer), Snap(AtZero), Sets(A, One), Told("WRITE_FORBIDDEN"),
                           Says("ping", [nonce |-> One]), Gets("pong", [nonce |-> One])>>),
   Scene("wild", TRUE, <<Joins(Operator), Gets("snapshot", [scene_version |-> SentinelAny])>>),
   Scene("leave", TRUE, Begin \o <<Says("unsubscribe", <<>>), Quiet>>),
   WithBundles(<<Bounded>>, Scene("bundle", TRUE,
     <<Joins(Operator), Gets("snapshot", [scene_version |-> Str("$BUNDLE.b.hash"),
                                          state |-> SentinelAny]),
       Sets(A, Num(3)), Told("INVALID_VALUE"), Sets(A, One), Delta(<<Patch(A, One)>>),
       Has((A :> One) @@ (P :> Num(0)))>>)),
   WithBundles(<<Choice>>, Scene("choice", TRUE,
     <<Joins(Operator), Gets("snapshot", [scene_version |-> SentinelAnyHash, state |-> Obj(P :> One)]),
       Sets(A, One), Told("INVALID_VALUE"), Sets(A, Str("x")), Delta(<<Patch(A, Str("x"))>>)>>)),
   WithBundles(<<Null, Obj([id |-> Str("")])>> \o Library \o <<Declares("empty", Null)>>, Scene("library", TRUE,
     <<Joins(Operator), Gets("snapshot", [scene_version |-> Str("$BUNDLE.first.hash")]),
       Sets(A, One), Told("UNKNOWN_PATH")>>))}

(* An error that may overtake a delta; a leaf the seed leaves out; a        *)
(* template with a patch too many; an emission that is none; two echoes     *)
(* before an emission; a state asked for before it is there; sends to a     *)
(* server that closes; silence where a refusal is due; a pong nobody owes.  *)
Unsound ==
  {Scene("overtake", FALSE, Begin \o <<Sets(A, One), Sets(P, One), Delta(<<Patch(A, One)>>),
                                       Told("WRITE_FORBIDDEN")>>),
   Scene("any", FALSE, <<Joins(Operator), Snap((A :> SentinelAny) @@ (P :> Num(0)))>>),
   Scene("short", FALSE, Begin \o <<Sets(A, One), Delta(<<Patch(A, One), Patch(P, One)>>)>>),
   Scene("odd", FALSE, Begin \o <<Emits("snapshot", [state |-> Obj(AtZero)])>>),
   Scene("crowd", FALSE, Begin \o <<Sets(A, One), Sets(A, Num(0)),
                                    Emits("delta", Patches(<<Patch(P, One)>>))>>),
   Scene("early", FALSE, Begin \o <<Sets(A, One), Has(A :> One)>>),
   Scene("late", FALSE, Begin \o <<Says("unsubscribe", <<>>), Sets(A, One),
                                   Emits("delta", Patches(<<Patch(P, One)>>))>>),
   Scene("mute", FALSE, <<Joins(Invalid), Quiet>>),
   Scene("broken", FALSE, Begin \o <<Says("input", [patches |-> One]), Told("INTERNAL"),
                                     Says("ping", <<>>), Gets("pong", <<>>)>>),
   Scene("wish", FALSE, Begin \o <<Gets("pong", <<>>)>>),
   Scene("status", FALSE, <<Does("status-change")>>)}

NotRun ==
  {Scene("excluded", FALSE, <<>>), [Scene("extra", FALSE, <<>>) EXCEPT !.tag = "extended"],
   [Scene("client", FALSE, <<>>) EXCEPT !.target = "runtime"],
   Scene("clock", FALSE, <<StepOf("set-clock", Null, <<>>, "")>>)}

MCPlans == {<<first, second>> : first \in Sound \cup Unsound \cup NotRun,
                                second \in {sc \in Sound : sc.name \in {"hello", "echo", "emit"}}}
==============================================================================
