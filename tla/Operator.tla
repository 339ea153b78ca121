------------------------------- MODULE Operator -------------------------------
(****************************************************************************)
(* Operators writing into one scene: the reader of ws_handler.py, its       *)
(* dispatch, Scene.apply_input and what the sender hears of it.             *)
(*                                                                          *)
(* The writer and the end of a session are those of module Server; here the *)
(* scene stays the same one, and sessions are told apart by who they are.   *)
(* A client numbers the Input frames it sends, and the number is their      *)
(* client_msg_id.  The code copies it into the cause of the replay record   *)
(* and of the delta; here a delta's cause is found through the entry of the *)
(* log it reflects, at causes[delta.at].                                    *)
(****************************************************************************)
EXTENDS Scene, InputRules, FiniteSets

CONSTANTS Id,           \* the scene
          Sessions,
          Identities,   \* [role, paths, roots]: what authenticate may answer
          Nobody,       \* the identity of a session that is not open
          Specs,        \* [Paths -> spec], partial: what may be declared
          PatchLists,   \* the patch lists clients send
          AppPatches,   \* the patch maps the application emits
          MaxAsked,     \* bound: Input frames read
          MaxLog        \* bound: changes of the scene

ASSUME IdAssumption == Id \in SceneIds
ASSUME BoundsAssumption == MaxAsked \in Nat /\ MaxLog \in Nat
ASSUME PathsAssumption == Paths \subseteq Seq(STRING)
ASSUME AppPatchesAssumption == AppPatches \subseteq Patches
ASSUME PatchListsAssumption == PatchLists \subseteq Seq([path : Paths, value : Values])
ASSUME SpecsAssumption == Specs = [p \in DOMAIN Specs |-> Specs[p]]

(* The roots of an identity are what its claim means: a pattern stands for  *)
(* the subtree it names, with a ".*" at its end or without.                 *)
Named(pattern) ==
  IF Len(pattern) > 1 /\ pattern[Len(pattern)] = "*"
    THEN SubSeq(pattern, 1, Len(pattern) - 1) ELSE pattern

ASSUME IdentitiesAssumption ==
  \A identity \in Identities :
    /\ identity.paths \subseteq Seq(STRING)
    /\ identity.roots = {Named(pattern) : pattern \in identity.paths}

VARIABLES scene, declared,
          subs,         \* [Sessions -> pipe]
          session,      \* [Sessions -> [status, who, out, reply]]
          asked,        \* history: the Input frames read, in order
          causes,       \* per entry of the log, the Input it comes from or 0
          told          \* [Sessions -> the answers handed to its socket, in order]

vars == <<scene, declared, subs, session, asked, causes, told>>

NoSpecs == [p \in {} |-> NoLimit]

Refusals == {"WRITE_FORBIDDEN", "UNKNOWN_PATH", "INVALID_VALUE"}

(* status as in Server; `out` is with the writer, `reply` with the reader.  *)
Statuses == {"new", "opening", "running", "silent", "gone", "closing", "over"}

Closed(status) == [status |-> status, who |-> Nobody, out |-> <<>>, reply |-> <<>>]

Init ==
  /\ scene = NewScene(Id)
  /\ declared \in {NoSpecs, Specs}
  /\ subs = [c \in Sessions |-> NewSubscription(FALSE)]
  /\ session = [c \in Sessions |-> Closed("new")]
  /\ asked = <<>>
  /\ causes = <<0>>
  /\ told = [c \in Sessions |-> <<>>]

------------------------------------------------------------------------------
(* The application.                                                         *)

DeclareInputs(specs) ==
  /\ declared' = specs
  /\ UNCHANGED <<scene, subs, session, asked, causes, told>>

CauselessPublish(patches, cause) ==     \* a mistake to be caught
  /\ scene' = Emitted(scene, patches)
  /\ subs' = FanOut(scene', subs)
  /\ UNCHANGED causes

Publish(patches, cause) ==
  /\ scene' = Emitted(scene, patches)
  /\ subs' = FanOut(scene', subs)
  /\ causes' = Append(causes, cause)

Emit(patches) ==
  /\ Len(scene.log) < MaxLog
  /\ Publish(patches, 0)
  /\ UNCHANGED <<declared, session, asked, told>>

------------------------------------------------------------------------------
(* The life of a session.                                                   *)

Connect(c, identity) ==
  /\ session[c].status = "new"
  /\ scene' = Attached(scene, c)
  /\ subs' = [subs EXCEPT ![c] = NewSubscription(FALSE)]
  /\ session' = [session EXCEPT ![c] = [status |-> "opening", who |-> identity,
                                        out |-> <<SnapshotOf(scene)>>, reply |-> <<>>]]
  /\ UNCHANGED <<declared, asked, causes, told>>

WriterGet(c) ==
  /\ session[c].status \in {"running", "gone"}
  /\ session[c].out = <<>> /\ subs[c].queue # <<>>
  /\ session' = [session EXCEPT ![c].out = <<Head(subs[c].queue)>>]
  /\ subs' = [subs EXCEPT ![c].queue = Tail(@)]
  /\ UNCHANGED <<scene, declared, asked, causes, told>>

AfterWriter(status) == IF status = "gone" THEN "closing" ELSE "silent"

(* The reader goes on, unless the writer has ended meanwhile.               *)
AfterFrame(status) == IF status = "silent" THEN "closing" ELSE status

SwallowingReader(status) == status      \* a mistake to be caught: it goes on

(* The reader ends.                                                         *)
AfterReader(status) == IF status = "running" THEN "gone" ELSE "closing"

AfterSend(status) ==
  CASE status = "opening" -> "running"
    [] status = "gone"    -> "closing"
    [] OTHER              -> status

(* What a frame tells c about an Input of its own.                          *)
Echo(c, f) ==
  IF f.type = "delta" /\ causes[f.at] # 0 /\ asked[causes[f.at]].by = c
    THEN <<[type |-> "echo", asked |-> causes[f.at]]>> ELSE <<>>

Receive(c) ==
  /\ session[c].status \in {"opening", "running", "gone"}
  /\ session[c].out # <<>>
  /\ told' = [told EXCEPT ![c] = @ \o Echo(c, Head(session[c].out))]
  /\ session' = [session EXCEPT ![c].out = <<>>, ![c].status = AfterSend(@)]
  /\ UNCHANGED <<scene, declared, subs, asked, causes>>

SendFails(c) ==
  /\ session[c].status \in {"running", "gone"}
  /\ session[c].out # <<>> \/ (session[c].status = "running" /\ subs[c].queue = <<>>)
  /\ session' = [session EXCEPT ![c].status = AfterWriter(@), ![c].out = <<>>]
  /\ UNCHANGED <<scene, declared, subs, asked, causes, told>>

(* Thirty seconds without a frame: the ping finds that the reader is gone.  *)
PingOut(c) ==
  /\ session[c].status = "gone"
  /\ session[c].out = <<>> /\ subs[c].queue = <<>>
  /\ session' = [session EXCEPT ![c].status = "closing"]
  /\ UNCHANGED <<scene, declared, subs, asked, causes, told>>

(* Both loops have returned, or the snapshot could not be sent.             *)
Finish(c) ==
  /\ session[c].status \in {"opening", "closing"}
  /\ scene' = Detached(scene, c)
  /\ subs' = [subs EXCEPT ![c] = Close(@)]
  /\ session' = [session EXCEPT ![c] = Closed("over")]
  /\ UNCHANGED <<declared, asked, causes, told>>

------------------------------------------------------------------------------
(* The reader.  It reads no frame while a reply of its own is being sent.   *)

PipelinedReads(c) == session[c].status \in {"running", "silent"}    \* a mistake to be caught

Reads(c) == session[c].status \in {"running", "silent"} /\ session[c].reply = <<>>

(* n is the Input the error answers, or 0; the reader then returns, or not. *)
ErrorFrame(code, path, recoverable, n, ends) ==
  <<[code |-> code, path |-> path, recoverable |-> recoverable, asked |-> n, ends |-> ends]>>

(* An Input frame: committed as one emission, refused with an error, or     *)
(* the end of the reader, without a word.                                   *)
Input(c, patches) ==
  /\ Reads(c)
  /\ Len(asked) < MaxAsked
  /\ asked' = Append(asked, [by |-> c, who |-> session[c].who, patches |-> patches,
                             declared |-> declared])
  /\ LET v == Verdict(session[c].who, declared, patches)
     IN  \/ /\ v = Accepted
            /\ Len(scene.log) < MaxLog
            /\ Publish(AsDict(patches), Len(asked'))
            /\ session' = [session EXCEPT ![c].status = AfterFrame(@)]
         \/ /\ v.code \in Refusals
            /\ session' = [session EXCEPT
                  ![c].reply = ErrorFrame(v.code, v.path, TRUE, Len(asked'), FALSE)]
            /\ UNCHANGED <<scene, subs, causes>>
         \/ /\ v.code = "RAISES"
            /\ session' = [session EXCEPT ![c].status = AfterReader(@)]
            /\ UNCHANGED <<scene, subs, causes>>
  /\ UNCHANGED <<declared, told>>

(* A second Subscribe: an error that is not recoverable, and the reader     *)
(* goes on.                                                                 *)
Resubscribe(c) ==
  /\ Reads(c)
  /\ session' = [session EXCEPT
                   ![c].reply = ErrorFrame("INTERNAL", NoPath, FALSE, 0, FALSE)]
  /\ UNCHANGED <<scene, declared, subs, asked, causes, told>>

(* Another version, or a frame that does not decode: an error that is not   *)
(* recoverable, and the reader returns.                                     *)
Misframed(c) ==
  /\ Reads(c)
  /\ \E code \in {"VERSION_MISMATCH", "INTERNAL"} :
       session' = [session EXCEPT ![c].reply = ErrorFrame(code, NoPath, FALSE, 0, TRUE)]
  /\ UNCHANGED <<scene, declared, subs, asked, causes, told>>

(* The send of the reply is over; if it failed, _send_error says nothing.   *)
Replied(c) ==
  /\ session[c].reply # <<>>
  /\ LET error == Head(session[c].reply)
     IN  /\ session' = [session EXCEPT
                          ![c].reply = <<>>,
                          ![c].status = IF error.ends THEN AfterReader(@) ELSE AfterFrame(@)]
         /\ told' = IF error.asked = 0 THEN told
                    ELSE [told EXCEPT ![c] =
                            Append(@, [type |-> "error", asked |-> error.asked])]
  /\ UNCHANGED <<scene, declared, subs, asked, causes>>

(* The client goes away or unsubscribes, or decoding raises what the reader *)
(* has no reply for.                                                        *)
ReaderEnds(c) ==
  /\ Reads(c)
  /\ session' = [session EXCEPT ![c].status = AfterReader(@)]
  /\ UNCHANGED <<scene, declared, subs, asked, causes, told>>

------------------------------------------------------------------------------

Next ==
  \/ \E specs \in {NoSpecs, Specs} : DeclareInputs(specs)
  \/ \E patches \in AppPatches : Emit(patches)
  \/ \E c \in Sessions :
       \/ \E identity \in Identities : Connect(c, identity)
       \/ WriterGet(c) \/ Receive(c) \/ SendFails(c) \/ PingOut(c) \/ Finish(c)
       \/ \E patches \in PatchLists : Input(c, patches)
       \/ Resubscribe(c) \/ Misframed(c) \/ Replied(c) \/ ReaderEnds(c)

Spec == Init /\ [][Next]_vars

(* A send succeeds or fails, tasks are run, and a ping goes out after 30    *)
(* seconds.                                                                 *)
Fairness ==
  \A c \in Sessions :
    /\ WF_vars(WriterGet(c))
    /\ WF_vars(session[c].out # <<>> /\ (Receive(c) \/ SendFails(c)))
    /\ WF_vars(Replied(c))
    /\ WF_vars(PingOut(c))
    /\ WF_vars(session[c].status = "closing" /\ Finish(c))

FairSpec == Spec /\ Fairness

------------------------------------------------------------------------------
(* Properties.                                                              *)

Answers(n) == {i \in 1..Len(told[asked[n].by]) : told[asked[n].by][i].asked = n}

Entries(n) == {k \in 1..Len(causes) : causes[k] = n}

Refused(n) ==
  \/ \E i \in Answers(n) : told[asked[n].by][i].type = "error"
  \/ session[asked[n].by].reply # <<>> /\ Head(session[asked[n].by].reply).asked = n

ReplyFrame ==
  [code : Refusals \cup {"VERSION_MISMATCH", "INTERNAL"}, path : Paths \cup {NoPath},
   recoverable : BOOLEAN, asked : 0..MaxAsked, ends : BOOLEAN]

(* Every variable holds what the code's annotations say it holds.           *)
TypeOK ==
  /\ scene \in SceneRecord(Sessions)
  /\ declared \in {NoSpecs, Specs}
  /\ subs \in [Sessions -> Pipe(Snapshot \cup Delta)]
  /\ session \in [Sessions -> [status : Statuses, who : Identities \cup {Nobody},
                                out : Seq(Snapshot \cup Delta), reply : Seq(ReplyFrame)]]
  /\ asked \in Seq([by : Sessions, who : Identities, patches : PatchLists,
                     declared : {NoSpecs, Specs}])
  /\ causes \in Seq(0..MaxAsked) /\ Len(causes) = Len(scene.log)
  /\ told \in [Sessions -> Seq([type : {"echo", "error"}, asked : 1..MaxAsked])]

(* apply_input is atomic: an Input frame is committed once, as one change   *)
(* that leaves every path it names at the last value it gives it, or, when  *)
(* its sender is sent an error, not at all.                                 *)
AllOrNothing ==
  \A n \in 1..Len(asked) :
    /\ Cardinality(Entries(n)) <= 1
    /\ Refused(n) => Entries(n) = {}
    /\ \A k \in Entries(n) :
         /\ \A i \in 1..Len(asked[n].patches) : asked[n].patches[i].path \in scene.log[k].wrote
         /\ \A p \in scene.log[k].wrote :
              \E i \in 1..Len(asked[n].patches) :
                /\ asked[n].patches[i] = [path |-> p, value |-> scene.log[k].state[p]]
                /\ \A j \in i + 1..Len(asked[n].patches) : asked[n].patches[j].path # p

(* The leaves an identity is responsible for, said without the code's       *)
(* predicates: its namespace, and of that the subtrees of its claim.        *)
Subtree(root) == {p \in Paths : \E n \in 0..Len(p) : SubSeq(p, 1, n) = root}

Territory(identity) ==
  CASE identity.role = "operator" -> Subtree(<<"__inputs">>)
    [] identity.role = "test"     -> Subtree(<<"__test">>)
    [] identity.role = "service"  ->
         {p \in Subtree(<<"__inputs">>) : identity.roots # {} =>
            \E root \in identity.roots : p \in Subtree(root)}
    [] OTHER -> {}

(* No frame changes a leaf that is not its sender's, that the scene, as     *)
(* declared when it was read, does not take, or to a number out of bounds.  *)
Confined ==
  \A k \in 1..Len(causes) : causes[k] # 0 =>
    LET a == asked[causes[k]]
    IN  \A p \in scene.log[k].wrote :
          /\ p \in Territory(a.who)
          /\ a.who.role = "test" \/ a.declared = NoSpecs \/ p \in DOMAIN a.declared
          /\ p \in DOMAIN a.declared => Meets(a.declared[p], scene.log[k].state[p])

(* Whoever has a running session from which nothing was dropped, and has    *)
(* got everything, has got exactly one answer to each frame of its own.     *)
AnsweredOnce ==
  \A c \in Sessions :
    /\ session[c].status = "running" /\ session[c].out = <<>> /\ session[c].reply = <<>>
    /\ subs[c].queue = <<>> /\ ~subs[c].stale
    => \A n \in 1..Len(asked) : asked[n].by = c => Cardinality(Answers(n)) = 1

(* Answers come in the order the frames were read, but for an echo, which   *)
(* waits in the queue and may be overtaken by an error.                     *)
OnlyErrorsOvertake ==
  \A c \in Sessions : \A i, j \in 1..Len(told[c]) :
    i < j /\ told[c][i].asked > told[c][j].asked =>
      told[c][i].type = "error" /\ told[c][j].type = "echo"

(* Every frame a session has read is answered, if the session goes on and   *)
(* its queue never overflows.                                               *)
Settles ==
  \A n \in 1..MaxAsked :
    n \in DOMAIN asked ~>
      /\ n \in DOMAIN asked
      /\ \/ Answers(n) # {}
         \/ session[asked[n].by].status # "running"
         \/ subs[asked[n].by].stale

==============================================================================
