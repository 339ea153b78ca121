----------------------------- MODULE ControlPlane -----------------------------
(****************************************************************************)
(* The /test/* endpoints of interop/control_plane.py, which drive a Server  *)
(* and the token table of server/auth.py from scenario to scenario while    *)
(* clients of this scenario, and of earlier ones, hold sessions.            *)
(*                                                                          *)
(* A handler suspends only to read its body, before it does anything: none  *)
(* of the methods it calls suspends.  So each request is one step, made of  *)
(* several changes of the server one after the other.                       *)
(*                                                                          *)
(* birth, opened and holder are history: the scenario a scene was made in,  *)
(* the one a session was opened in, where every reset begins a new one, and *)
(* the token and role it was opened with.                                   *)
(****************************************************************************)
EXTENDS Server

CONSTANTS Tokens,
          NoRole,       \* the role of a token that is not in the table
          BadBundle,    \* a bundle that is not a JSON object
          MaxBundles,   \* bound: bundles in a setup
          MaxScenario   \* bound: resets

ASSUME BadBundleAssumption == BadBundle \notin Names
ASSUME MaxScenarioAssumption == MaxScenario \in Nat

VARIABLES tokens,       \* [Tokens -> role or NoRole], StaticTokens._tokens
          scenario, birth, opened, holder

history == <<scenario, birth, opened, holder>>
allVars == <<vars, tokens, history>>

NoTokens == [t \in Tokens |-> NoRole]

TokenTables == [Tokens -> Roles \cup {NoRole}]

BundleLists == UNION {[1..k -> Names \cup {BadBundle}] : k \in 1..MaxBundles}

CPInit ==
  /\ Init
  /\ tokens = NoTokens
  /\ scenario = 0
  /\ birth = [o \in {} |-> 0]
  /\ opened = [s \in Sessions |-> 0]
  /\ holder = [s \in Sessions |-> <<>>]

------------------------------------------------------------------------------
(* Server.reset, as functions of the state before: what a name stands for   *)
(* and what an object is afterwards, and the sessions that are closed.      *)

KeptName(n) == registry[n]          \* a mistake to be caught: no clear()

AfterClear(n) == NoScene

KeptSubscribers(o) == scenes[o]     \* a mistake to be caught: no reset()

AfterReset(o) == IF o \in Registered THEN Bare(Cleared(scenes[o])) ELSE scenes[o]

Dropped == {s \in Sessions : \E o \in Registered : s \in scenes[o].subs}

(* The bundles that are registered, in order: if the first is bad, none.    *)
Kept(bundles) ==
  IF bundles[1] = BadBundle THEN {}
  ELSE {i \in 1..Len(bundles) : bundles[i] # BadBundle}

(* POST /test/setup: the server and the tokens are reset before the bundles *)
(* are looked at.  The first bundle is active as soon as it is registered,  *)
(* so that set_active has nothing to do; a bundle with the id of an earlier *)
(* one replaces it, in a task.                                              *)
Setup(bundles, table) ==
  \E made \in [Kept(bundles) -> SceneIds \ Objects] :
    LET kept     == Kept(bundles)
        new      == {made[i] : i \in kept}
        bearer(n) == {i \in kept : bundles[i] = n}
        last(n)  == CHOOSE i \in bearer(n) : \A j \in bearer(n) : j <= i
    IN  /\ scenario < MaxScenario
        /\ \A i, j \in kept : made[i] = made[j] => i = j
        /\ scenes' = [o \in Objects \cup new |->
                        IF o \in new THEN Bare(NewScene(o)) ELSE AfterReset(o)]
        /\ registry' = [n \in Names |-> IF bearer(n) = {} THEN AfterClear(n) ELSE made[last(n)]]
        /\ active' = IF kept = {} THEN NoName ELSE bundles[1]
        /\ resets' = resets \cup {made[i] : i \in {j \in kept : j # last(bundles[j])}}
        /\ subs' = [s \in Sessions |-> IF s \in Dropped THEN Close(subs[s]) ELSE subs[s]]
        /\ tokens' = table
        /\ scenario' = scenario + 1
        /\ birth' = [o \in Objects \cup new |-> IF o \in new THEN scenario' ELSE birth[o]]
        /\ UNCHANGED <<session, viewer, opened, holder>>

TokensOnlyReset ==          \* a mistake to be caught: the server goes on
  /\ scenario < MaxScenario
  /\ tokens' = NoTokens
  /\ scenario' = scenario + 1
  /\ UNCHANGED <<vars, birth, opened, holder>>

(* POST /test/reset, whether or not there is anything to reset.             *)
Reset ==
  /\ scenario < MaxScenario
  /\ IF Registered = {} THEN UNCHANGED vars ELSE ResetAll
  /\ tokens' = NoTokens
  /\ scenario' = scenario + 1
  /\ UNCHANGED <<birth, opened, holder>>

(* POST /test/emit: the active scene.                                       *)
EmitActive(patches) ==
  /\ ActiveScene # NoScene
  /\ Emit(ActiveScene, patches)
  /\ UNCHANGED <<tokens, history>>

------------------------------------------------------------------------------
(* The handshake: the token is looked up, and the role it has then is the   *)
(* session's for good.                                                      *)

Admit(s, t, n, past) ==
  /\ tokens[t] # NoRole
  /\ Subscribe(s, n, tokens[t], past)
  /\ opened' = [opened EXCEPT ![s] = scenario]
  /\ holder' = [holder EXCEPT ![s] = <<t, tokens[t]>>]
  /\ UNCHANGED <<tokens, scenario, birth>>

Reject(s, t, n) ==
  /\ session[s].status = "new"
  /\ tokens[t] = NoRole \/ Resolve(n, tokens[t]) = NoScene
  /\ session' = [session EXCEPT ![s] = Ended("over")]
  /\ UNCHANGED <<server, subs, viewer, tokens, history>>

SessionStep(s) ==
  /\ \/ FailOpening(s) \/ WriterGet(s) \/ SendFails(s) \/ PingOut(s)
     \/ ReaderEnds(s) \/ Finish(s) \/ Receive(s)
     \/ \E patches \in Patches : Input(s, patches)
  /\ UNCHANGED <<tokens, history>>

CPNext ==
  \/ \E bundles \in BundleLists, table \in TokenTables : Setup(bundles, table)
  \/ Reset
  \/ \E patches \in Patches : EmitActive(patches)
  \/ \E o \in Objects : RunReset(o) /\ UNCHANGED <<tokens, history>>
  \/ \E s \in Sessions :
       \/ SessionStep(s)
       \/ \E t \in Tokens, n \in Names \cup {NoName} :
            Reject(s, t, n) \/ \E past \in Pasts : Admit(s, t, n, past)

CPSpec == CPInit /\ [][CPNext]_allVars

------------------------------------------------------------------------------
(* Properties.                                                              *)

(* Every variable holds what the code's annotations say it holds.           *)
CPTypeOK ==
  /\ TypeOK
  /\ tokens \in TokenTables
  /\ birth \in [Objects -> 1..MaxScenario]
  /\ opened \in [Sessions -> 0..MaxScenario]

(* Whatever a session of an earlier scenario still does, it is attached to  *)
(* no scene but one a replaced bundle left to its reset, ...                *)
Stale(s) == Open(s) /\ opened[s] # scenario

OldAreDetached == \A s \in Sessions : Stale(s) => Attachments(s) \subseteq resets

(* ... no client is sent or queued a frame of another scenario's scene, and *)
(* no input reaches one: the reset between two scenarios separates them.    *)
Isolated ==
  \A s \in Sessions : Open(s) =>
    LET frames == session[s].out \o subs[s].queue
    IN  /\ birth[session[s].scene] = opened[s]
        /\ \A i \in 1..Len(frames) :
             frames[i] # Sentinel => birth[frames[i].scene] = opened[s]

(* Who is fed by a scene of the server, or can write into one, came with a  *)
(* token that is in the table now, in the role that it has there.           *)
Authorised ==
  \A s \in Sessions :
    Open(s) /\ (session[s].scene \in Registered \/ Attachments(s) \cap Registered # {}) =>
      tokens[holder[s][1]] = holder[s][2]

==============================================================================
