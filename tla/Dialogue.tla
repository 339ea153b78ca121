------------------------------- MODULE Dialogue -------------------------------
(****************************************************************************)
(* What ws_handler.py makes of one decoded client frame, as functions: of   *)
(* the first, an admission or a refusal; of a later one, the reply it gets. *)
(*                                                                          *)
(* accounts   the role ("none" if it has none) of each token known          *)
(* registered the names, as JSON, of the scenes there are                   *)
(* active     whether one of them is active                                 *)
(****************************************************************************)
EXTENDS Codec

Error(errorCode, seq, recoverable, path) ==
  [type |-> "error", seq |-> Num(seq), ts |-> Str(""), code |-> Str(errorCode),
   message |-> Str(""), recoverable |-> Bool(recoverable), retry_after_ms |-> Num(0),
   path |-> path]

Pong(nonce) == [type |-> "pong", nonce |-> nonce]
Ping == [type |-> "ping", nonce |-> Null]

Hashable(j) == j.is \notin {"list", "object"}

Admissible(f, accounts) == f.token \in DOMAIN accounts /\ accounts[f.token] # "none"

(* resolve_scene: no scene is live mode, any other is test mode, which a    *)
(* role and a session must allow before the scene is looked up.             *)
Resolution(f, role, registered, active) ==
  IF Falsy(f.scene) THEN IF active THEN "admitted" ELSE "SCENE_NOT_FOUND"
  ELSE IF role \notin {"test", "operator"} THEN "AUTH_DENIED"
  ELSE IF Falsy(f.session) THEN "SCENE_NOT_FOUND"
  ELSE IF ~Hashable(f.scene) THEN "raises"
  ELSE IF f.scene \in registered THEN "admitted" ELSE "SCENE_NOT_FOUND"

LaxOutcome(f, accounts, registered, active) ==
  (* a mistake to be caught: any frame may come first *)
  IF Failed(f) THEN "AUTH_DENIED"
  ELSE IF f.type # "subscribe" THEN "admitted"
  ELSE IF ~Hashable(f.token) THEN "raises"
  ELSE IF ~Admissible(f, accounts) THEN "AUTH_DENIED"
  ELSE Resolution(f, accounts[f.token], registered, active)

(* What the first frame comes to: the error its sender is told, if any.     *)
Outcome(f, accounts, registered, active) ==
  IF f = Refused("version") THEN "version"
  ELSE IF Failed(f) THEN "AUTH_DENIED"
  ELSE IF f.type # "subscribe" THEN "AUTH_DENIED"
  ELSE IF ~Hashable(f.token) THEN "raises"
  ELSE IF ~Admissible(f, accounts) THEN "AUTH_DENIED"
  ELSE Resolution(f, accounts[f.token], registered, active)

(* The reply to a later frame, or none.  verdict is apply_input's on an     *)
(* Input; every code it knows is one the sender may recover from.           *)
Answer(f, verdict, seq) ==
  IF Failed(f)
  THEN CASE f.why = "version" -> <<Error("VERSION_MISMATCH", seq, FALSE, Null)>>
         [] f.why = "raises"  -> <<>>
         [] OTHER             -> <<Error("INTERNAL", seq, FALSE, Null)>>
  ELSE CASE f.type = "ping"      -> <<Pong(f.nonce)>>
         [] f.type = "subscribe" -> <<Error("INTERNAL", seq, FALSE, Null)>>
         [] f.type = "input"     -> IF verdict.code = "OK" THEN <<>>
                                    ELSE <<Error(verdict.code, seq, TRUE, verdict.path)>>
         [] OTHER                -> <<>>

==============================================================================
