---------------------------- MODULE OperatorProofs ----------------------------
(****************************************************************************)
(* Operators writing into a scene: the inductive invariant of Operator and  *)
(* the theorems it yields, for any identities, patch lists and sessions.    *)
(****************************************************************************)
EXTENDS Operator, SceneProofs, FiniteSetTheorems

------------------------------------------------------------------------------
(* The rules of InputRules.                                                 *)

Patch == [path : Paths, value : Values]

LEMMA PatchListFacts ==
  ASSUME NEW patches \in PatchLists
  PROVE  /\ patches \in Seq(Patch) /\ Len(patches) \in Nat
         /\ patches # <<>> => Len(patches) >= 1
         /\ \A i \in 1..Len(patches) : patches[i].path \in Paths /\ patches[i].value \in Values
<1>1. patches \in Seq(Patch)
  BY PatchListsAssumption DEF Patch
<1>2. Len(patches) \in Nat /\ (patches # <<>> => Len(patches) >= 1)
  BY <1>1
<1>3. \A i \in 1..Len(patches) : patches[i] \in Patch
  BY <1>1
<1>4. \A x \in Patch : x.path \in Paths /\ x.value \in Values
  BY DEF Patch
<1>. QED  BY <1>1, <1>2, <1>3, <1>4

(* What dict() keeps of a list of pairs: each path, with its last value.    *)
LEMMA AsDictFacts ==
  ASSUME NEW patches \in PatchLists, patches # <<>>
  PROVE  /\ AsDict(patches) \in Patches
         /\ \A i \in 1..Len(patches) : patches[i].path \in DOMAIN AsDict(patches)
         /\ \A p \in DOMAIN AsDict(patches) : \E i \in 1..Len(patches) :
              /\ patches[i].path = p
              /\ AsDict(patches)[p] = patches[i].value
              /\ \A j \in i + 1..Len(patches) : patches[j].path # p
<1>. DEFINE n == Len(patches)
            d == AsDict(patches)
            named == {patches[i].path : i \in 1..n}
            Last(p, i) == /\ patches[i].path = p
                          /\ \A j \in i + 1..n : patches[j].path # p
            last(p) == CHOOSE i \in 1..n : Last(p, i)
<1>1. /\ n \in Nat /\ n >= 1
      /\ \A i \in 1..n : patches[i].path \in Paths /\ patches[i].value \in Values
  BY PatchListFacts
<1>2. d = [p \in named |-> patches[last(p)].value]
  BY DEF AsDict
<1>. HIDE DEF d, n
<1>3. ASSUME NEW p \in named  PROVE \E i \in 1..n : Last(p, i)
  <2>. DEFINE T == {m \in 0..n : n - m \in 1..n /\ patches[n - m].path = p}
  <2>1. PICK i \in 1..n : patches[i].path = p
    OBVIOUS
  <2>2. n - i \in T
    <3>1. i \in Nat /\ i <= n
      BY <1>1
    <3>2. n - i \in 0..n /\ n - (n - i) = i
      BY <1>1, <3>1
    <3>. QED  BY <2>1, <3>2
  <2>3. T \subseteq Nat /\ T # {}
    <3>1. T \subseteq 0..n /\ 0..n \subseteq Nat
      BY <1>1
    <3>. HIDE DEF T
    <3>. QED  BY <2>2, <3>1
  <2>4. PICK m \in T : \A y \in T : m <= y
    <3>. HIDE DEF T
    <3>. QED  BY <2>3, LeastNatural
  <2>5. \A j \in (n - m) + 1..n : patches[j].path # p
    <3>. SUFFICES ASSUME NEW j \in (n - m) + 1..n, patches[j].path = p  PROVE FALSE
      OBVIOUS
    <3>1. m \in 0..n /\ j \in Nat
      BY <1>1
    <3>2. n - j \in 0..n /\ n - (n - j) = j /\ j \in 1..n /\ n - j < m
      BY <1>1, <3>1
    <3>3. n - j \in T
      BY <3>2
    <3>. QED  BY <1>1, <2>4, <3>1, <3>2, <3>3
  <2>6. n - m \in 1..n /\ patches[n - m].path = p
    BY <2>4
  <2>. QED  BY <2>5, <2>6
<1>4. ASSUME NEW p \in named
      PROVE  /\ last(p) \in 1..n
             /\ Last(p, last(p))
  BY <1>3
<1>. HIDE DEF Last, last
<1>5. named \in SUBSET Paths /\ named # {}
  BY <1>1
<1>6. d \in [named -> Values]
  BY <1>1, <1>2, <1>4
<1>7. d \in Patches
  BY <1>5, <1>6 DEF Patches
<1>8. DOMAIN d = named
  BY <1>2
<1>9. \A i \in 1..n : patches[i].path \in DOMAIN d
  BY <1>8
<1>10. \A p \in DOMAIN d : \E i \in 1..n :
          /\ patches[i].path = p
          /\ d[p] = patches[i].value
          /\ \A j \in i + 1..n : patches[j].path # p
  <2>. SUFFICES ASSUME NEW p \in named
                PROVE  \E i \in 1..n : Last(p, i) /\ d[p] = patches[i].value
    BY <1>8 DEF Last
  <2>. QED  BY <1>2, <1>4
<1>. QED  BY <1>7, <1>9, <1>10 DEF d, n

(* The verdict is on the first patch that is not in order.                  *)
LEMMA VerdictFacts ==
  ASSUME NEW identity, NEW specs, NEW patches \in PatchLists
  PROVE  LET v == Verdict(identity, specs, patches)
         IN  /\ v.path \in Paths \cup {NoPath}
             /\ v = Accepted =>
                  /\ patches # <<>>
                  /\ \A i \in 1..Len(patches) :
                       PatchVerdict(identity, specs, patches[i]) = "OK"
<1>. DEFINE code(i) == PatchVerdict(identity, specs, patches[i])
            Wrong == {i \in 1..Len(patches) : code(i) # "OK"}
            first == CHOOSE i \in Wrong : \A j \in Wrong : i <= j
            v == Verdict(identity, specs, patches)
<1>1. \A i \in 1..Len(patches) : patches[i].path \in Paths
  BY PatchListFacts
<1>2. CASE patches = <<>>
  <2>1. v = [code |-> "INVALID_VALUE", path |-> NoPath]
    BY <1>2 DEF Verdict
  <2>. QED  BY <2>1 DEF Accepted
<1>3. CASE patches # <<>> /\ Wrong = {}
  <2>1. v = Accepted
    BY <1>3 DEF Verdict
  <2>. QED  BY <1>3, <2>1 DEF Accepted
<1>4. CASE patches # <<>> /\ Wrong # {}
  <2>1. first \in Wrong
    <3>1. Wrong \subseteq Nat
      OBVIOUS
    <3>. HIDE DEF Wrong
    <3>. QED  BY <1>4, <3>1, LeastNatural
  <2>2. v = [code |-> code(first), path |-> patches[first].path]
    BY <1>4 DEF Verdict
  <2>. HIDE DEF first
  <2>3. first \in 1..Len(patches) /\ code(first) # "OK"
    BY <2>1
  <2>4. v.code = code(first) /\ v.path = patches[first].path
    BY <2>2
  <2>. HIDE DEF v, code
  <2>5. v.path \in Paths /\ v # Accepted
    BY <1>1, <2>3, <2>4 DEF Accepted
  <2>. QED  BY <2>5 DEF v
<1>. QED  BY <1>2, <1>3, <1>4

(* A value with what the identity may write of it, and what is declared.    *)
LEMMA PatchVerdictOK ==
  ASSUME NEW identity, NEW specs, NEW patch, PatchVerdict(identity, specs, patch) = "OK"
  PROVE  /\ CanWrite(identity, patch.path)
         /\ Accepts(specs, identity.role, patch.path)
         /\ patch.path \in DOMAIN specs => Meets(specs[patch.path], patch.value)
BY DEF PatchVerdict

LEMMA PrefixSubtree ==
  ASSUME NEW path \in Paths, NEW root, Len(root) \in Nat, HasPrefix(path, root)
  PROVE  path \in Subtree(root)
<1>1. path \in Seq(STRING)
  BY PathsAssumption
<1>2. Len(path) \in Nat
  <2>. DEFINE S == STRING
  <2>1. path \in Seq(S)
    BY <1>1
  <2>. HIDE DEF S
  <2>. QED  BY <2>1
<1>3. Len(root) \in 0..Len(path)
  BY <1>2 DEF HasPrefix
<1>. QED  BY <1>3 DEF HasPrefix, Subtree

LEMMA UnderSubtree ==
  ASSUME NEW path \in Paths, NEW namespace, Under(path, namespace)
  PROVE  path \in Subtree(<<namespace>>)
<1>1. Len(<<namespace>>) \in Nat
  OBVIOUS
<1>. QED  BY <1>1, PrefixSubtree DEF Under

LEMMA NamedLen ==
  ASSUME NEW S, NEW pattern \in Seq(S)
  PROVE  Len(Named(pattern)) \in Nat
<1>1. Len(pattern) \in Nat
  OBVIOUS
<1>2. Len(pattern) > 1 => Len(SubSeq(pattern, 1, Len(pattern) - 1)) = Len(pattern) - 1
  BY <1>1
<1>. QED  BY <1>1, <1>2 DEF Named

LEMMA PatternSubtree ==
  ASSUME NEW path \in Paths, NEW pattern \in Seq(STRING), PatternMatches(pattern, path)
  PROVE  path \in Subtree(Named(pattern))
<1>1. Len(Named(pattern)) \in Nat
  BY NamedLen
<1>2. HasPrefix(path, Named(pattern))
  BY DEF PatternMatches, Named
<1>. QED  BY <1>1, <1>2, PrefixSubtree

(* The chain of predicates of role.py grants no leaf but the identity's.    *)
LEMMA WritesItsOwn ==
  ASSUME NEW identity \in Identities, NEW path \in Paths, CanWrite(identity, path)
  PROVE  path \in Territory(identity)
<1>1. CASE identity.role = "operator"
  <2>1. Under(path, "__inputs")
    BY <1>1 DEF CanWrite, RoleCanWrite
  <2>2. path \in Subtree(<<"__inputs">>)
    BY <2>1, UnderSubtree, Zenon
  <2>. QED  BY <1>1, <2>2 DEF Territory
<1>2. CASE identity.role = "test"
  <2>1. Under(path, "__test")
    BY <1>2 DEF CanWrite, RoleCanWrite
  <2>2. path \in Subtree(<<"__test">>)
    BY <2>1, UnderSubtree, Zenon
  <2>. QED  BY <1>2, <2>2 DEF Territory
<1>3. CASE identity.role = "service"
  <2>1. /\ Under(path, "__inputs")
        /\ identity.paths = {} \/ \E p \in identity.paths : PatternMatches(p, path)
    BY <1>3 DEF CanWrite, RoleCanWrite
  <2>2. path \in Subtree(<<"__inputs">>)
    BY <2>1, UnderSubtree, Zenon
  <2>3. identity.roots # {} => \E root \in identity.roots : path \in Subtree(root)
    BY <2>1, PatternSubtree, IdentitiesAssumption
  <2>. QED  BY <1>3, <2>2, <2>3 DEF Territory
<1>. QED  BY <1>1, <1>2, <1>3 DEF CanWrite, RoleCanWrite

(* A declaration is none, or says of every leaf it takes.                   *)
LEMMA AcceptsDeclared ==
  ASSUME NEW specs \in {NoSpecs, Specs}, NEW role, NEW path, Accepts(specs, role, path)
  PROVE  role = "test" \/ specs = NoSpecs \/ path \in DOMAIN specs
<1>1. CASE DOMAIN specs = {}
  <2>1. Specs = [p \in DOMAIN Specs |-> Specs[p]]
    BY SpecsAssumption
  <2>2. specs = Specs => specs = NoSpecs
    BY <1>1, <2>1 DEF NoSpecs
  <2>. QED  BY <2>2
<1>. QED  BY <1>1 DEF Accepts

------------------------------------------------------------------------------
(* The invariant.                                                           *)

Frame == Snapshot \cup Delta

(* The Input frame behind a change, and what it did.                        *)
Committed(entry, a) ==
  /\ Verdict(a.who, a.declared, a.patches) = Accepted
  /\ entry.wrote = DOMAIN AsDict(a.patches)
  /\ \A p \in entry.wrote : entry.state[p] = AsDict(a.patches)[p]

CauseInv ==
  /\ Len(causes) >= 1
  /\ \A k \in 1..Len(causes) : causes[k] # 0 =>
       causes[k] \in 1..Len(asked) /\ Committed(scene.log[k], asked[causes[k]])
  /\ \A k, l \in 1..Len(causes) :
       k < l /\ causes[k] # 0 /\ causes[l] # 0 => causes[k] < causes[l]

(* Where a session is, and what that says of what it holds.                 *)
LifeInv(c) ==
  /\ session[c].status \in {"new", "over"} => session[c].out = <<>> /\ session[c].reply = <<>>
  /\ session[c].status \notin {"new", "over"} =>
       session[c].who \in Identities /\ c \in scene.subs
  /\ session[c].status \in {"new", "opening"} => \A n \in 1..Len(asked) : asked[n].by # c
  /\ session[c].reply # <<>> => session[c].status \in {"running", "silent"}
  /\ Len(session[c].out) <= 1
  /\ Len(session[c].reply) <= 1

(* Frames go out in the order of the changes they tell of.                  *)
FrameInv(c) ==
  session[c].status # "over" =>
    /\ subs[c].queue \in Seq(Frame)
    /\ \A i \in 1..Len(session[c].out) : session[c].out[i].at \in 1..Len(causes)
    /\ \A i \in 1..Len(subs[c].queue) : subs[c].queue[i].at \in 1..Len(causes)
    /\ \A i, j \in 1..Len(subs[c].queue) : i < j => subs[c].queue[i].at < subs[c].queue[j].at
    /\ \A i \in 1..Len(session[c].out), j \in 1..Len(subs[c].queue) :
         session[c].out[i].at < subs[c].queue[j].at

(* No frame still to come tells of change k or of an older one.             *)
Passed(c, k) ==
  session[c].status # "over" =>
    /\ \A i \in 1..Len(session[c].out) : k < session[c].out[i].at
    /\ \A i \in 1..Len(subs[c].queue) : k < subs[c].queue[i].at

(* An answer the client has had: to a frame of its own, an echo of a change *)
(* or an error where there is none.                                         *)
Truthful(c, t) ==
  /\ t.asked \in 1..Len(asked) /\ asked[t.asked].by = c
  /\ t.type = "error" => Entries(t.asked) = {}
  /\ t.type = "echo" => \E k \in Entries(t.asked) : Passed(c, k)

ToldInv(c) ==
  /\ \A i \in 1..Len(told[c]) : Truthful(c, told[c][i])
  /\ \A i, j \in 1..Len(told[c]) : i # j => told[c][i].asked # told[c][j].asked
  /\ \A i, j \in 1..Len(told[c]) :
       i < j /\ told[c][i].asked > told[c][j].asked =>
         told[c][i].type = "error" /\ told[c][j].type = "echo"

(* The error the reader is sending: to the newest frame of this client,     *)
(* which changed nothing and has had no answer.                             *)
Answering(c, n) ==
  /\ n \in 1..Len(asked) /\ asked[n].by = c
  /\ Entries(n) = {}
  /\ \A m \in n + 1..Len(asked) : asked[m].by # c
  /\ \A i \in 1..Len(told[c]) : told[c][i].asked # n

ReplyInv(c) ==
  session[c].reply # <<>> /\ Head(session[c].reply).asked # 0 =>
    Answering(c, Head(session[c].reply).asked)

(* Answered, about to be, or by a frame that is still to come.              *)
Attended(c, n) ==
  \/ \E i \in 1..Len(told[c]) : told[c][i].asked = n
  \/ session[c].reply # <<>> /\ Head(session[c].reply).asked = n
  \/ \E k \in Entries(n) :
       \/ \E i \in 1..Len(session[c].out) :
            session[c].out[i].type = "delta" /\ session[c].out[i].at = k
       \/ \E i \in 1..Len(subs[c].queue) :
            subs[c].queue[i].type = "delta" /\ subs[c].queue[i].at = k

KeptInv(c) ==
  session[c].status = "running" /\ ~subs[c].stale =>
    \A n \in 1..Len(asked) : asked[n].by = c => Attended(c, n)

SessionInv(c) ==
  LifeInv(c) /\ FrameInv(c) /\ ToldInv(c) /\ ReplyInv(c) /\ KeptInv(c)

OperatorInv == TypeOK /\ CauseInv /\ \A c \in Sessions : SessionInv(c)

------------------------------------------------------------------------------
(* The initial state.                                                       *)
LEMMA InitInv == ASSUME Init PROVE OperatorInv
<1>. DEFINE new == Entry("new", {}, Blank, 1)
<1>1. scene = [id |-> Id, store |-> Blank, seq |-> 1, replay |-> <<>>, subs |-> {},
               log |-> <<new>>]
      /\ scene.log = <<new>>
  BY DEF Init, NewScene, NextServer, Fresh
<1>2. Blank \in State
  BY DEF Blank, State
<1>3. new \in LogEntry
  BY <1>2 DEF Entry, LogEntry
<1>. HIDE DEF new
<1>4. scene \in SceneRecord(Sessions)
  <2>1. <<new>> \in Seq(LogEntry)
    BY <1>3
  <2>. QED  BY <1>1, <1>2, <2>1, IdAssumption DEF SceneRecord
<1>5. causes = <<0>> /\ Len(causes) = 1 /\ causes[1] = 0 /\ Len(scene.log) = 1
  BY <1>1 DEF Init
<1>6. TypeOK
  <2>1. NewSubscription(FALSE) \in Pipe(Snapshot \cup Delta)
    BY NewSubscriptionType
  <2>2. Closed("new") \in [status : Statuses, who : Identities \cup {Nobody},
                           out : Seq(Snapshot \cup Delta), reply : Seq(ReplyFrame)]
    BY DEF Closed, Statuses
  <2>3. causes \in Seq(0..MaxAsked)
    <3>1. 0 \in 0..MaxAsked
      BY BoundsAssumption
    <3>. QED  BY <1>5, <3>1
  <2>4. subs \in [Sessions -> Pipe(Snapshot \cup Delta)]
    BY <2>1 DEF Init
  <2>5. session \in [Sessions -> [status : Statuses, who : Identities \cup {Nobody},
                           out : Seq(Snapshot \cup Delta), reply : Seq(ReplyFrame)]]
    BY <2>2 DEF Init
  <2>6. told \in [Sessions -> Seq([type : {"echo", "error"}, asked : 1..MaxAsked])]
    BY DEF Init
  <2>7. asked \in Seq([by : Sessions, who : Identities, patches : PatchLists,
                       declared : {NoSpecs, Specs}])
    BY DEF Init
  <2>8. declared \in {NoSpecs, Specs}
    BY DEF Init
  <2>. QED  BY <1>4, <1>5, <2>3, <2>4, <2>5, <2>6, <2>7, <2>8 DEF TypeOK
<1>7. CauseInv
  BY <1>5 DEF CauseInv
<1>8. ASSUME NEW c \in Sessions  PROVE SessionInv(c)
  <2>1. /\ session[c].status = "new" /\ session[c].out = <<>> /\ session[c].reply = <<>>
        /\ subs[c].queue = <<>> /\ told[c] = <<>> /\ asked = <<>>
    BY DEF Init, Closed, NewSubscription
  <2>. QED  BY <2>1 DEF SessionInv, LifeInv, FrameInv, ToldInv, ReplyInv, KeptInv
<1>. QED  BY <1>6, <1>7, <1>8 DEF OperatorInv

------------------------------------------------------------------------------
(* What a session sees of the others.                                       *)

(* The frames read grow by frames that are not d's.                         *)
OthersAsk(A, B, d) ==
  /\ Len(A) \in Nat /\ Len(B) \in Nat /\ Len(A) <= Len(B)
  /\ \A n \in 1..Len(A) : B[n] = A[n]
  /\ \A n \in Len(A) + 1..Len(B) : B[n].by # d

LEMMA OthersAskFacts ==
  ASSUME NEW S, NEW A \in Seq(S), NEW d
  PROVE  /\ OthersAsk(A, A, d)
         /\ \A a \in S : a.by # d => OthersAsk(A, Append(A, a), d)
<1>1. Len(A) \in Nat
  OBVIOUS
<1>2. OthersAsk(A, A, d)
  BY <1>1 DEF OthersAsk
<1>3. ASSUME NEW a \in S, a.by # d  PROVE OthersAsk(A, Append(A, a), d)
  <2>1. /\ Len(Append(A, a)) = Len(A) + 1
        /\ \A n \in 1..Len(A) : Append(A, a)[n] = A[n]
        /\ Append(A, a)[Len(A) + 1] = a
    OBVIOUS
  <2>. DEFINE B == Append(A, a)
  <2>. HIDE DEF B
  <2>2. OthersAsk(A, B, d)
    <3>1. Len(B) = Len(A) + 1 /\ (\A n \in 1..Len(A) : B[n] = A[n]) /\ B[Len(A) + 1] = a
      BY <2>1 DEF B
    <3>. QED  BY <1>1, <1>3, <3>1 DEF OthersAsk
  <2>. QED  BY <2>2 DEF B
<1>. QED  BY <1>2, <1>3

LEMMA Undisturbed ==
  ASSUME NEW d \in Sessions, SessionInv(d),
         session'[d] = session[d], subs'[d] = subs[d], told'[d] = told[d],
         causes' = causes, OthersAsk(asked, asked', d),
         d \in scene.subs => d \in scene'.subs
  PROVE  SessionInv(d)'
<1>1. \A n \in 1..Len(asked) : n \in 1..Len(asked') /\ asked'[n] = asked[n]
  BY DEF OthersAsk
<1>2. \A n \in 1..Len(asked') : asked'[n].by = d => n \in 1..Len(asked)
  BY DEF OthersAsk
<1>3. \A n : Entries(n)' = Entries(n)
  BY DEF Entries
<1>4. \A k : Passed(d, k)' <=> Passed(d, k)
  BY DEF Passed
<1>5. LifeInv(d)'
  BY <1>1, <1>2 DEF SessionInv, LifeInv
<1>6. FrameInv(d)'
  BY DEF SessionInv, FrameInv
<1>7. ToldInv(d)'
  <2>1. ASSUME NEW t, Truthful(d, t)  PROVE Truthful(d, t)'
    BY <1>1, <1>3, <1>4, <2>1 DEF Truthful
  <2>. QED  BY <2>1 DEF SessionInv, ToldInv
<1>8. ReplyInv(d)'
  <2>1. ASSUME NEW n, Answering(d, n)  PROVE Answering(d, n)'
    <3>1. \A m \in n + 1..Len(asked') : asked'[m].by # d
      <4>. SUFFICES ASSUME NEW m \in n + 1..Len(asked'), asked'[m].by = d  PROVE FALSE
        OBVIOUS
      <4>1. n \in 1..Len(asked) /\ m \in 1..Len(asked')
        BY <2>1 DEF OthersAsk, Answering
      <4>2. m \in 1..Len(asked) /\ asked'[m] = asked[m]
        BY <1>1, <1>2, <4>1
      <4>. QED  BY <2>1, <4>1, <4>2 DEF Answering
    <3>. QED  BY <1>1, <1>3, <2>1, <3>1 DEF Answering
  <2>. QED  BY <2>1 DEF SessionInv, ReplyInv
<1>9. KeptInv(d)'
  <2>1. \A n : Attended(d, n)' <=> Attended(d, n)
    BY <1>3 DEF Attended
  <2>. QED  BY <1>1, <1>2, <2>1 DEF SessionInv, KeptInv
<1>. QED  BY <1>5, <1>6, <1>7, <1>8, <1>9 DEF SessionInv

------------------------------------------------------------------------------
(* A change of the scene, by the application or by an Input frame.          *)

(* What becomes of a pipe when a frame is offered to it, or not.            *)
Offered(c, sub, sub2, f) ==
  \/ c \notin scene.subs /\ sub2 = sub
  \/ c \in scene.subs /\ sub2 = PutNowait(sub, f)
  \/ c \in scene.subs /\ sub2 = [sub EXCEPT !.stale = TRUE]

(* The entry and the frame of a change.                                     *)
Publishes(patches, cause, e, f) ==
  /\ e \in LogEntry /\ f \in Delta /\ f.at = Len(causes) + 1
  /\ scene'.log = Append(scene.log, e)
  /\ e.wrote = DOMAIN patches
  /\ \A p \in DOMAIN patches : e.state[p] = patches[p]
  /\ causes' = Append(causes, cause)
  /\ scene'.subs = scene.subs
  /\ \A c \in Sessions : Offered(c, subs[c], subs'[c], f)

LEMMA PublishFacts ==
  ASSUME TypeOK, NEW patches \in Patches, NEW cause \in 0..MaxAsked, Publish(patches, cause)
  PROVE  /\ \E e, f : Publishes(patches, cause, e, f)
         /\ scene' \in SceneRecord(Sessions)
         /\ subs' \in [Sessions -> Pipe(Frame)]
         /\ causes' \in Seq(0..MaxAsked) /\ Len(causes') = Len(scene'.log)
<1>. DEFINE state == Apply(scene.store, patches)
            seq == scene.seq + 1
            e == Entry("emit", DOMAIN patches, state, seq)
            r == [seq |-> seq, patches |-> patches, at |-> Len(scene.log) + 1]
            f == DeltaOf(scene', r)
<1>1. /\ scene \in SceneRecord(Sessions) /\ scene.log \in Seq(LogEntry)
      /\ scene.replay \in Seq(Record) /\ scene.seq \in Nat /\ Len(scene.log) \in Nat
      /\ causes \in Seq(0..MaxAsked) /\ Len(causes) = Len(scene.log)
  BY DEF TypeOK, SceneRecord
<1>2. scene' = Emitted(scene, patches) /\ scene' \in SceneRecord(Sessions)
  BY <1>1, SceneOps DEF Publish
<1>3. /\ scene'.log = Append(scene.log, e)
      /\ scene'.replay = Push(scene.replay, r)
      /\ scene'.subs = scene.subs
  BY <1>1, <1>2 DEF Emitted, SceneRecord, NextServer
<1>4. state \in State /\ scene.store \in State /\ seq \in Nat
      /\ DOMAIN patches \in SUBSET Paths
  BY <1>1, ApplyType, PatchesType DEF SceneRecord
<1>5. /\ e \in LogEntry /\ e.state = state /\ e.wrote = DOMAIN patches
  BY <1>4 DEF Entry, LogEntry
<1>6. r \in Record /\ r.at = Len(scene.log) + 1
  BY <1>1, <1>4 DEF Record
<1>7. \A p \in DOMAIN patches : e.state[p] = patches[p]
  BY <1>4, <1>5, ApplyAt
<1>. HIDE DEF e, state, seq, r
<1>8. scene'.replay[Len(scene'.replay)] = r
  BY <1>1, <1>3, <1>6, PushFacts
<1>9. f \in Delta /\ f.at = Len(causes) + 1
  BY <1>1, <1>2, <1>6, DeltaType DEF DeltaOf
<1>10. DOMAIN subs = Sessions /\ \A c \in Sessions : subs[c] \in Pipe(Frame)
  BY DEF TypeOK, Frame
<1>11. subs' = FanOut(scene', subs)
  BY DEF Publish
<1>12. \A c \in Sessions :
         subs'[c] = IF c \in scene.subs THEN SendDelta(subs[c], f, SnapshotOf(scene'))
                                        ELSE subs[c]
  BY <1>3, <1>8, <1>10, <1>11 DEF FanOut, f
<1>13. SnapshotOf(scene') \in Frame /\ f \in Frame
  BY <1>2, <1>9, SnapshotType DEF Frame
<1>14. subs' \in [Sessions -> Pipe(Frame)]
  <2>1. \A c \in Sessions : SendDelta(subs[c], f, SnapshotOf(scene')) \in Pipe(Frame)
    BY <1>10, <1>13, PipeOps
  <2>2. DOMAIN subs' = Sessions /\ subs' = [c \in Sessions |-> subs'[c]]
    BY <1>10, <1>11 DEF FanOut
  <2>3. \A c \in Sessions : subs'[c] \in Pipe(Frame)
    BY <1>10, <1>12, <2>1
  <2>. QED  BY <2>2, <2>3
<1>15. causes' = Append(causes, cause)
  BY DEF Publish
<1>16. causes' \in Seq(0..MaxAsked) /\ Len(causes') = Len(scene'.log)
  BY <1>1, <1>3, <1>15
<1>. HIDE DEF f
<1>17. \A c \in Sessions : Offered(c, subs[c], subs'[c], f)
  BY <1>12 DEF SendDelta, SendOrDrop, Offered
<1>18. Publishes(patches, cause, e, f)
  BY <1>3, <1>5, <1>7, <1>9, <1>15, <1>17 DEF Publishes
<1>. QED  BY <1>2, <1>14, <1>16, <1>18

(* What a session held is still in its place, and the new frame comes last. *)
Lengthened(c, sub, sub2, f) ==
  /\ sub2.queue \in Seq(Frame)
  /\ Len(sub.queue) \in Nat
  /\ Len(sub2.queue) \in {Len(sub.queue), Len(sub.queue) + 1}
  /\ \A i \in 1..Len(sub.queue) :
       i \in 1..Len(sub2.queue) /\ sub2.queue[i] = sub.queue[i]
  /\ Len(sub2.queue) = Len(sub.queue) + 1 => sub2.queue[Len(sub.queue) + 1] = f
  /\ c \in scene.subs /\ ~sub2.stale => Len(sub2.queue) = Len(sub.queue) + 1
  /\ ~sub2.stale => ~sub.stale

LEMMA OfferedFacts ==
  ASSUME NEW c, NEW sub \in Pipe(Frame), NEW sub2, NEW f \in Delta,
         sub.queue \in Seq(Frame), Offered(c, sub, sub2, f)
  PROVE  Lengthened(c, sub, sub2, f)
<1>1. f \in Frame
  BY DEF Frame
<1>2. CASE sub2.queue = sub.queue /\ (sub2.stale \/ c \notin scene.subs) /\ (~sub2.stale => ~sub.stale)
  <2>1. Len(sub.queue) \in Nat
    OBVIOUS
  <2>. QED  BY <1>2, <2>1 DEF Lengthened
<1>3. CASE c \in scene.subs /\ sub2 = PutNowait(sub, f)
  <2>1. sub2.queue = Append(sub.queue, f) /\ sub2.stale = sub.stale
    BY <1>3 DEF PutNowait, Pipe
  <2>. DEFINE q == sub.queue
              q2 == Append(q, f)
  <2>. HIDE DEF q
  <2>2. /\ q2 \in Seq(Frame) /\ Len(q) \in Nat /\ Len(q2) = Len(q) + 1
        /\ \A i \in 1..Len(q) : i \in 1..Len(q2) /\ q2[i] = q[i]
        /\ q2[Len(q) + 1] = f
    BY <1>1 DEF q
  <2>. HIDE DEF q2
  <2>. QED  BY <2>1, <2>2 DEF q, q2, Lengthened
<1>4. CASE c \notin scene.subs /\ sub2 = sub
  BY <1>2, <1>4
<1>5. CASE c \in scene.subs /\ sub2 = [sub EXCEPT !.stale = TRUE]
  <2>1. sub2.queue = sub.queue /\ sub2.stale
    BY <1>5 DEF Pipe
  <2>. QED  BY <1>2, <2>1
<1>. QED  BY <1>3, <1>4, <1>5 DEF Offered

(* Entries are added for the newest frame only.                             *)
LEMMA EntriesGrow ==
  ASSUME NEW C \in Seq(Nat), NEW cause \in Nat, causes = C, causes' = Append(C, cause)
  PROVE  /\ \A n : n # cause => Entries(n)' = Entries(n)
         /\ Entries(cause)' = Entries(cause) \cup {Len(C) + 1}
<1>1. /\ Len(C) \in Nat /\ Len(causes') = Len(C) + 1
      /\ \A k \in 1..Len(C) : causes'[k] = causes[k]
      /\ causes'[Len(C) + 1] = cause
  OBVIOUS
<1>2. 1..Len(causes') = 1..Len(C) \cup {Len(C) + 1} /\ Len(C) + 1 \notin 1..Len(C)
  BY <1>1
<1>3. ASSUME NEW n  PROVE Entries(n)' = IF n = cause THEN Entries(n) \cup {Len(C) + 1}
                                                     ELSE Entries(n)
  BY <1>1, <1>2 DEF Entries
<1>. QED  BY <1>3

LEMMA CausesType ==
  ASSUME TypeOK
  PROVE  causes \in Seq(Nat) /\ causes \in Seq(0..MaxAsked) /\ Len(causes) \in Nat
<1>1. causes \in Seq(0..MaxAsked) /\ 0..MaxAsked \subseteq Nat
  BY BoundsAssumption DEF TypeOK
<1>2. Seq(0..MaxAsked) \subseteq Seq(Nat)
  BY <1>1, PipeMono
<1>. QED  BY <1>1, <1>2

(* The pipe and the hand of session d while a change is published.          *)
LEMMA FramesGrow ==
  ASSUME OperatorInv, NEW d \in Sessions, NEW patches, NEW cause \in Nat, NEW e, NEW f,
         Publishes(patches, cause, e, f),
         session[d].status # "over",
         session'[d].out = session[d].out
  PROVE  /\ FrameInv(d)'
         /\ \A k \in 1..Len(causes) : Passed(d, k) => Passed(d, k)'
         /\ Len(causes') = Len(causes) + 1
         /\ \A i \in 1..Len(subs[d].queue) :
              i \in 1..Len(subs'[d].queue) /\ subs'[d].queue[i] = subs[d].queue[i]
         /\ d \in scene.subs /\ ~subs'[d].stale =>
              \E i \in 1..Len(subs'[d].queue) :
                subs'[d].queue[i].type = "delta" /\ subs'[d].queue[i].at = Len(causes) + 1
<1>. DEFINE q == subs[d].queue
            q2 == subs'[d].queue
            out == session[d].out
            N == Len(causes)
<1>1. causes \in Seq(Nat) /\ N \in Nat /\ subs[d] \in Pipe(Frame)
  BY CausesType DEF OperatorInv, TypeOK, Frame
<1>2. FrameInv(d)
  BY DEF OperatorInv, SessionInv
<1>3. /\ f \in Delta /\ f.at = N + 1 /\ f.type = "delta"
      /\ causes' = Append(causes, cause)
      /\ Offered(d, subs[d], subs'[d], f)
  BY DEF Publishes, Delta
<1>4. Len(causes') = N + 1
  BY <1>1, <1>3
<1>5. /\ q2 \in Seq(Frame) /\ Len(q) \in Nat
      /\ Len(q2) \in {Len(q), Len(q) + 1}
      /\ \A i \in 1..Len(q) : i \in 1..Len(q2) /\ q2[i] = q[i]
      /\ Len(q2) = Len(q) + 1 => q2[Len(q) + 1] = f
      /\ d \in scene.subs /\ ~subs'[d].stale => Len(q2) = Len(q) + 1
  <2>1. subs[d].queue \in Seq(Frame)
    BY <1>2 DEF FrameInv
  <2>2. Lengthened(d, subs[d], subs'[d], f)
    BY <1>1, <1>3, <2>1, OfferedFacts
  <2>. QED  BY <2>2 DEF Lengthened
<1>6. /\ \A i \in 1..Len(out) : out[i].at \in 1..N
      /\ \A i \in 1..Len(q) : q[i].at \in 1..N
      /\ \A i, j \in 1..Len(q) : i < j => q[i].at < q[j].at
      /\ \A i \in 1..Len(out), j \in 1..Len(q) : out[i].at < q[j].at
  BY <1>2 DEF FrameInv
<1>. HIDE DEF q, q2, out, N
<1>7. \A i \in 1..Len(q2) : \/ i \in 1..Len(q) /\ q2[i] = q[i]
                            \/ i = Len(q) + 1 /\ q2[i] = f /\ q2[i].at = N + 1
  BY <1>3, <1>5
<1>8. /\ \A i \in 1..Len(out) : out[i].at \in 1..N + 1
      /\ \A i \in 1..Len(q2) : q2[i].at \in 1..N + 1
      /\ \A i \in 1..Len(out), j \in 1..Len(q2) : out[i].at < q2[j].at
  <2>1. \A i \in 1..Len(out) : out[i].at \in 1..N + 1 /\ out[i].at < N + 1
    BY <1>1, <1>6
  <2>2. ASSUME NEW j \in 1..Len(q2)
        PROVE  q2[j].at \in 1..N + 1 /\ \A i \in 1..Len(out) : out[i].at < q2[j].at
    <3>1. CASE j \in 1..Len(q) /\ q2[j] = q[j]
      <4>1. q[j].at \in 1..N + 1
        BY <1>1, <1>6, <3>1
      <4>. QED  BY <1>6, <3>1, <4>1
    <3>2. CASE q2[j].at = N + 1
      BY <1>1, <2>1, <3>2
    <3>. QED  BY <1>7, <3>1, <3>2
  <2>. QED  BY <2>1, <2>2
<1>9. ASSUME NEW i \in 1..Len(q2), NEW j \in 1..Len(q2), i < j  PROVE q2[i].at < q2[j].at
  <2>1. i \in 1..Len(q) /\ q2[i] = q[i]
    BY <1>5, <1>7, <1>9
  <2>2. q[i].at \in 1..N
    BY <1>6, <2>1
  <2>3. CASE j \in 1..Len(q) /\ q2[j] = q[j]
    BY <1>6, <1>9, <2>1, <2>3
  <2>4. CASE q2[j].at = N + 1
    BY <1>1, <2>1, <2>2, <2>4
  <2>. QED  BY <1>7, <2>3, <2>4
<1>10. FrameInv(d)'
  BY <1>4, <1>5, <1>8, <1>9 DEF FrameInv, q2, out
<1>11. ASSUME NEW k \in 1..N, Passed(d, k)  PROVE Passed(d, k)'
  <2>1. /\ \A i \in 1..Len(out) : k < out[i].at
        /\ \A i \in 1..Len(q) : k < q[i].at
    BY <1>11 DEF Passed, out, q
  <2>2. \A i \in 1..Len(q2) : k < q2[i].at
    BY <1>1, <1>7, <2>1
  <2>. QED  BY <2>1, <2>2 DEF Passed, out, q2
<1>12. d \in scene.subs /\ ~subs'[d].stale =>
         \E i \in 1..Len(q2) : q2[i].type = "delta" /\ q2[i].at = N + 1
  <2>. SUFFICES ASSUME d \in scene.subs, ~subs'[d].stale
                PROVE  \E i \in 1..Len(q2) : q2[i].type = "delta" /\ q2[i].at = N + 1
    OBVIOUS
  <2>1. Len(q2) = Len(q) + 1 /\ q2[Len(q) + 1] = f
    BY <1>5
  <2>2. Len(q) + 1 \in 1..Len(q2)
    BY <1>5, <2>1
  <2>. QED  BY <1>3, <2>1, <2>2
<1>. QED  BY <1>4, <1>5, <1>10, <1>11, <1>12 DEF q, q2, N

(* What has been told stays true.                                           *)
LEMMA ToldGrows ==
  ASSUME OperatorInv, NEW d \in Sessions, NEW patches, NEW cause \in Nat, NEW e, NEW f,
         Publishes(patches, cause, e, f), cause \notin 1..Len(asked),
         told'[d] = told[d], session'[d].out = session[d].out,
         session'[d].status = "over" <=> session[d].status = "over",
         \A n \in 1..Len(asked) : n \in 1..Len(asked') /\ asked'[n] = asked[n]
  PROVE  /\ ToldInv(d)'
         /\ \A n \in 1..Len(asked) : Entries(n)' = Entries(n)
<1>1. causes \in Seq(Nat) /\ causes' = Append(causes, cause)
  BY CausesType DEF OperatorInv, Publishes
<1>2. \A n \in 1..Len(asked) : Entries(n)' = Entries(n)
  BY <1>1, EntriesGrow
<1>3. \A k \in 1..Len(causes) : Passed(d, k) => Passed(d, k)'
  <2>1. CASE session[d].status = "over"
    BY <2>1 DEF Passed
  <2>2. CASE session[d].status # "over"
    BY <2>2, FramesGrow
  <2>. QED  BY <2>1, <2>2
<1>4. ASSUME NEW t, Truthful(d, t)  PROVE Truthful(d, t)'
  <2>1. t.asked \in 1..Len(asked)
    BY <1>4 DEF Truthful
  <2>2. t.asked \in 1..Len(asked') /\ asked'[t.asked] = asked[t.asked]
    BY <2>1
  <2>3. Entries(t.asked)' = Entries(t.asked) /\ Entries(t.asked) \subseteq 1..Len(causes)
    BY <1>2, <2>1 DEF Entries
  <2>. QED  BY <1>3, <1>4, <2>2, <2>3 DEF Truthful
<1>5. ToldInv(d)
  BY DEF OperatorInv, SessionInv
<1>6. ToldInv(d)'
  BY <1>4, <1>5 DEF ToldInv
<1>. QED  BY <1>2, <1>6

(* Who was attended to still is, unless a frame was dropped.                *)
LEMMA AttendedGrows ==
  ASSUME OperatorInv, NEW d \in Sessions, NEW patches, NEW cause \in Nat, NEW e, NEW f,
         Publishes(patches, cause, e, f), cause \notin 1..Len(asked),
         told'[d] = told[d], session'[d].out = session[d].out,
         session'[d].reply = session[d].reply, session[d].status # "over",
         NEW n \in 1..Len(asked), Attended(d, n)
  PROVE  Attended(d, n)'
<1>1. causes \in Seq(Nat) /\ causes' = Append(causes, cause)
  BY CausesType DEF OperatorInv, Publishes
<1>2. Entries(n)' = Entries(n)
  BY <1>1, EntriesGrow
<1>3. \A i \in 1..Len(subs[d].queue) :
        i \in 1..Len(subs'[d].queue) /\ subs'[d].queue[i] = subs[d].queue[i]
  BY FramesGrow
<1>. QED  BY <1>2, <1>3 DEF Attended

LEMMA PublishOther ==
  ASSUME OperatorInv, NEW d \in Sessions, NEW patches, NEW cause \in Nat, NEW e, NEW f,
         Publishes(patches, cause, e, f), cause \notin 1..Len(asked),
         OthersAsk(asked, asked', d), session'[d] = session[d], told'[d] = told[d]
  PROVE  SessionInv(d)'
<1>1. SessionInv(d) /\ scene'.subs = scene.subs /\ subs[d] \in Pipe(Frame)
      /\ Offered(d, subs[d], subs'[d], f)
  BY DEF OperatorInv, Publishes, TypeOK, Frame
<1>2. /\ \A n \in 1..Len(asked) : n \in 1..Len(asked') /\ asked'[n] = asked[n]
      /\ \A n \in 1..Len(asked') : asked'[n].by = d => n \in 1..Len(asked)
  BY DEF OthersAsk
<1>3. ToldInv(d)' /\ \A n \in 1..Len(asked) : Entries(n)' = Entries(n)
  BY <1>2, ToldGrows
<1>4. LifeInv(d)'
  BY <1>1, <1>2 DEF SessionInv, LifeInv
<1>5. FrameInv(d)'
  <2>1. CASE session[d].status = "over"
    BY <2>1 DEF FrameInv
  <2>2. CASE session[d].status # "over"
    BY <2>2, FramesGrow
  <2>. QED  BY <2>1, <2>2
<1>6. ReplyInv(d)'
  <2>1. ASSUME NEW n, Answering(d, n)  PROVE Answering(d, n)'
    <3>1. n \in 1..Len(asked)
      BY <2>1 DEF Answering
    <3>2. \A m \in n + 1..Len(asked') : asked'[m].by # d
      <4>. SUFFICES ASSUME NEW m \in n + 1..Len(asked'), asked'[m].by = d  PROVE FALSE
        OBVIOUS
      <4>1. m \in 1..Len(asked')
        BY <3>1 DEF OthersAsk
      <4>2. m \in 1..Len(asked) /\ asked'[m] = asked[m]
        BY <1>2, <4>1
      <4>. QED  BY <2>1, <3>1, <4>2 DEF Answering
    <3>. QED  BY <1>2, <1>3, <2>1, <3>1, <3>2 DEF Answering
  <2>. QED  BY <1>1, <2>1 DEF SessionInv, ReplyInv
<1>7. KeptInv(d)'
  <2>. SUFFICES ASSUME session[d].status = "running", ~subs'[d].stale,
                       NEW n \in 1..Len(asked'), asked'[n].by = d
                PROVE  Attended(d, n)'
    BY DEF KeptInv
  <2>1. n \in 1..Len(asked) /\ asked[n].by = d
    BY <1>2
  <2>2. ~subs[d].stale
    BY <1>1 DEF Offered, PutNowait, Pipe
  <2>3. Attended(d, n)
    BY <1>1, <2>1, <2>2 DEF SessionInv, KeptInv
  <2>. QED  BY <2>1, <2>3, AttendedGrows
<1>. QED  BY <1>3, <1>4, <1>5, <1>6, <1>7 DEF SessionInv

(* The sender of a committed Input: its echo is the newest frame.           *)
LEMMA PublishOwn ==
  ASSUME OperatorInv, NEW c \in Sessions, NEW patches, NEW e, NEW f,
         Publishes(patches, Len(asked) + 1, e, f),
         session[c].status \in {"running", "silent"}, session[c].reply = <<>>,
         session'[c].status = AfterFrame(session[c].status),
         session'[c].who = session[c].who,
         session'[c].out = session[c].out, session'[c].reply = <<>>,
         told'[c] = told[c],
         NEW a, asked' = Append(asked, a), a.by = c
  PROVE  SessionInv(c)'
<1>. DEFINE N == Len(asked)
<1>1. /\ SessionInv(c) /\ scene'.subs = scene.subs /\ subs[c] \in Pipe(Frame)
      /\ Offered(c, subs[c], subs'[c], f)
      /\ causes \in Seq(Nat) /\ causes' = Append(causes, N + 1)
  BY CausesType DEF OperatorInv, Publishes, TypeOK, Frame
<1>2. /\ N \in Nat /\ N + 1 \in Nat /\ N + 1 \notin 1..N
      /\ Len(asked') = N + 1 /\ asked'[N + 1] = a
      /\ \A n \in 1..N : n \in 1..Len(asked') /\ asked'[n] = asked[n]
  <2>1. asked \in Seq([by : Sessions, who : Identities, patches : PatchLists,
                       declared : {NoSpecs, Specs}])
    BY DEF OperatorInv, TypeOK
  <2>2. N \in Nat /\ Len(asked') = N + 1 /\ asked'[N + 1] = a
        /\ \A n \in 1..N : asked'[n] = asked[n]
    BY <2>1
  <2>. QED  BY <2>2
<1>. HIDE DEF N
<1>3. session'[c].status \in {"running", "closing"}
      /\ (session'[c].status = "running" => session[c].status = "running")
  BY DEF AfterFrame
<1>4. ToldInv(c)' /\ \A n \in 1..N : Entries(n)' = Entries(n)
  BY <1>2, <1>3, ToldGrows DEF N
<1>5. LifeInv(c)'
  <2>1. session'[c].who \in Identities /\ c \in scene'.subs /\ Len(session'[c].out) <= 1
        /\ Len(session'[c].reply) <= 1
    BY <1>1 DEF SessionInv, LifeInv
  <2>. QED  BY <1>3, <2>1 DEF LifeInv
<1>6. FrameInv(c)'
  BY <1>2, FramesGrow DEF N
<1>7. ReplyInv(c)'
  BY DEF ReplyInv
<1>8. KeptInv(c)'
  <2>. SUFFICES ASSUME session'[c].status = "running", ~subs'[c].stale,
                       NEW n \in 1..Len(asked'), asked'[n].by = c
                PROVE  Attended(c, n)'
    BY DEF KeptInv
  <2>1. CASE n \in 1..N
    <3>1. ~subs[c].stale
      BY <1>1 DEF Offered, PutNowait, Pipe
    <3>2. Attended(c, n)
      BY <1>1, <1>2, <1>3, <2>1, <3>1 DEF SessionInv, KeptInv, N
    <3>. QED  BY <1>2, <2>1, <3>2, AttendedGrows DEF N
  <2>2. CASE n = N + 1
    <3>1. Len(causes) + 1 \in Entries(n)'
      BY <1>1, <1>2, <2>2, EntriesGrow
    <3>2. c \in scene.subs
      BY <1>1 DEF SessionInv, LifeInv
    <3>3. \E i \in 1..Len(subs'[c].queue) :
            subs'[c].queue[i].type = "delta" /\ subs'[c].queue[i].at = Len(causes) + 1
      BY <1>2, <3>2, FramesGrow DEF N
    <3>. QED  BY <3>1, <3>3 DEF Attended
  <2>. QED  BY <1>2, <2>1, <2>2
<1>. QED  BY <1>4, <1>5, <1>6, <1>7, <1>8 DEF SessionInv

(* The record of causes, over a change.                                     *)
LEMMA CausesGrow ==
  ASSUME OperatorInv, NEW patches, NEW cause \in Nat, NEW e, NEW f,
         Publishes(patches, cause, e, f),
         \A n \in 1..Len(asked) : n \in 1..Len(asked') /\ asked'[n] = asked[n],
         cause # 0 => /\ cause = Len(asked) + 1 /\ cause \in 1..Len(asked')
                      /\ Committed(e, asked'[cause])
  PROVE  CauseInv'
<1>. DEFINE N == Len(causes)
            C == causes'
            L == scene'.log
<1>1. /\ causes \in Seq(Nat) /\ N \in Nat /\ C = Append(causes, cause)
      /\ scene.log \in Seq(LogEntry) /\ Len(scene.log) = N /\ L = Append(scene.log, e)
      /\ e \in LogEntry /\ CauseInv
  BY CausesType DEF OperatorInv, Publishes, TypeOK, SceneRecord
<1>2. /\ Len(C) = N + 1 /\ C[N + 1] = cause
      /\ \A k \in 1..N : C[k] = causes[k] /\ causes[k] \in Nat
  BY <1>1
<1>3. L[N + 1] = e /\ \A k \in 1..N : L[k] = scene.log[k]
  BY <1>1
<1>4. Len(asked) \in Nat
  BY DEF OperatorInv, TypeOK
<1>. HIDE DEF N, C, L
<1>5. ASSUME NEW k \in 1..Len(C), C[k] # 0
      PROVE  C[k] \in 1..Len(asked') /\ Committed(L[k], asked'[C[k]])
  <2>1. CASE k \in 1..N
    <3>1. causes[k] \in 1..Len(asked) /\ Committed(scene.log[k], asked[causes[k]])
      BY <1>1, <1>2, <1>5, <2>1 DEF CauseInv, N
    <3>2. C[k] = causes[k] /\ L[k] = scene.log[k]
      BY <1>2, <1>3, <2>1
    <3>. QED  BY <3>1, <3>2
  <2>2. CASE k = N + 1
    BY <1>2, <1>3, <1>5, <2>2
  <2>. QED  BY <1>1, <1>2, <2>1, <2>2
<1>6. ASSUME NEW k \in 1..Len(C), NEW l \in 1..Len(C), k < l, C[k] # 0, C[l] # 0
      PROVE  C[k] < C[l]
  <2>1. k \in 1..N
    BY <1>1, <1>2, <1>6
  <2>2. C[k] = causes[k] /\ causes[k] \in 1..Len(asked)
    BY <1>1, <1>2, <1>6, <2>1 DEF CauseInv, N
  <2>3. CASE l \in 1..N
    BY <1>1, <1>2, <1>6, <2>1, <2>3 DEF CauseInv, N
  <2>4. CASE l = N + 1
    BY <1>2, <1>4, <1>6, <2>2, <2>4
  <2>. QED  BY <1>1, <1>2, <2>3, <2>4
<1>7. Len(C) >= 1
  BY <1>1, <1>2
<1>. QED  BY <1>5, <1>6, <1>7 DEF CauseInv, C, L

------------------------------------------------------------------------------
(* Steps of one session that change nothing for the others.                 *)

SessionRecord == [status : Statuses, who : Identities \cup {Nobody}, out : Seq(Frame),
                  reply : Seq(ReplyFrame)]

AskedRecord == [by : Sessions, who : Identities, patches : PatchLists,
                declared : {NoSpecs, Specs}]

ToldRecord == [type : {"echo", "error"}, asked : 1..MaxAsked]

(* TypeOK with its types named.                                             *)
Types ==
  /\ scene \in SceneRecord(Sessions)
  /\ declared \in {NoSpecs, Specs}
  /\ subs \in [Sessions -> Pipe(Frame)]
  /\ session \in [Sessions -> SessionRecord]
  /\ asked \in Seq(AskedRecord)
  /\ causes \in Seq(0..MaxAsked) /\ Len(causes) = Len(scene.log)
  /\ told \in [Sessions -> Seq(ToldRecord)]

LEMMA TypesOK == TypeOK <=> Types
BY DEF TypeOK, Types, SessionRecord, AskedRecord, ToldRecord, Frame

(* The frames read so far stay in their places.                             *)
Keeps(A, B) == \A n \in 1..Len(A) : n \in 1..Len(B) /\ B[n] = A[n]

LEMMA KeepsFacts ==
  ASSUME NEW S, NEW A \in Seq(S), NEW a \in S
  PROVE  /\ Keeps(A, A) /\ Keeps(A, Append(A, a))
         /\ Len(A) \in Nat /\ Len(Append(A, a)) = Len(A) + 1
         /\ Append(A, a)[Len(A) + 1] = a
BY DEF Keeps

(* A step of the session c alone.                                           *)
Alone(c) ==
  /\ scene'.log = scene.log /\ causes' = causes /\ Keeps(asked, asked')
  /\ \A d \in Sessions \ {c} :
       /\ session'[d] = session[d] /\ subs'[d] = subs[d] /\ told'[d] = told[d]
       /\ d \in scene.subs => d \in scene'.subs
       /\ OthersAsk(asked, asked', d)

LEMMA AloneInv ==
  ASSUME OperatorInv, NEW c \in Sessions, Alone(c), Types', SessionInv(c)'
  PROVE  OperatorInv'
<1>1. TypeOK'
  BY DEF TypeOK, Types, SessionRecord, AskedRecord, ToldRecord, Frame
<1>2. \A d \in Sessions \ {c} : SessionInv(d)'
  BY Undisturbed DEF OperatorInv, Alone
<1>3. CauseInv'
  BY DEF OperatorInv, CauseInv, Alone, Keeps
<1>. QED  BY <1>1, <1>2, <1>3 DEF OperatorInv

LEMMA TruthKept ==
  ASSUME NEW c \in Sessions, causes' = causes, Keeps(asked, asked'),
         \A k : Passed(c, k) => Passed(c, k)', NEW t, Truthful(c, t)
  PROVE  Truthful(c, t)'
<1>1. t.asked \in 1..Len(asked') /\ asked'[t.asked] = asked[t.asked]
  BY DEF Truthful, Keeps
<1>2. Entries(t.asked)' = Entries(t.asked)
  BY DEF Entries
<1>. QED  BY <1>1, <1>2 DEF Truthful

(* A step after which c does not listen, or not to both sides: it gives up  *)
(* what it has in hand, or keeps it.                                        *)
LEMMA QuietInv ==
  ASSUME OperatorInv, NEW c \in Sessions, causes' = causes, Keeps(asked, asked'),
         told'[c] = told[c],
         session[c].status # "over", session'[c].status \notin {"new", "opening", "running"},
         session'[c].out \in {session[c].out, <<>>},
         session'[c].reply \in {session[c].reply, <<>>},
         session'[c].reply # <<>> => asked' = asked /\ session'[c].status = "silent",
         \/ /\ session'[c].status # "over" /\ session[c].status # "new"
            /\ subs'[c].queue = subs[c].queue /\ session'[c].who = session[c].who
            /\ c \in scene.subs => c \in scene'.subs
         \/ /\ session'[c].status = "over"
            /\ session'[c].out = <<>> /\ session'[c].reply = <<>>
  PROVE  SessionInv(c)'
<1>1. SessionInv(c)
  BY DEF OperatorInv
<1>2. LifeInv(c)'
  BY <1>1 DEF SessionInv, LifeInv
<1>3. FrameInv(c)'
  <2>. SUFFICES ASSUME session'[c].status # "over"  PROVE FrameInv(c)'
    BY DEF FrameInv
  <2>1. FrameInv(c) /\ subs'[c].queue = subs[c].queue
    BY <1>1 DEF SessionInv
  <2>2. CASE session'[c].out = session[c].out
    BY <2>1, <2>2 DEF FrameInv
  <2>3. CASE session'[c].out = <<>>
    BY <2>1, <2>3 DEF FrameInv
  <2>. QED  BY <2>2, <2>3
<1>4. \A k : Passed(c, k) => Passed(c, k)'
  BY DEF Passed
<1>5. ToldInv(c)'
  <2>1. \A t : Truthful(c, t) => Truthful(c, t)'
    BY <1>4, TruthKept
  <2>. QED  BY <1>1, <2>1 DEF SessionInv, ToldInv
<1>6. ReplyInv(c)'
  <2>1. ASSUME asked' = asked, NEW n, Answering(c, n)  PROVE Answering(c, n)'
    BY <2>1 DEF Answering, Entries
  <2>. QED  BY <1>1, <2>1 DEF SessionInv, ReplyInv
<1>7. KeptInv(c)'
  BY DEF KeptInv
<1>. QED  BY <1>2, <1>3, <1>5, <1>6, <1>7 DEF SessionInv


(* What an action of c leaves alone, for the other sessions.                *)
LEMMA AloneFacts ==
  ASSUME OperatorInv, NEW c \in Sessions, scene'.log = scene.log, causes' = causes,
         scene.subs \ {c} \subseteq scene'.subs,
         \A d \in Sessions \ {c} :
           session'[d] = session[d] /\ subs'[d] = subs[d] /\ told'[d] = told[d],
         \/ asked' = asked
         \/ \E a \in AskedRecord : asked' = Append(asked, a) /\ a.by = c
  PROVE  Alone(c)
<1>1. asked \in Seq(AskedRecord)
  BY DEF OperatorInv, TypeOK, AskedRecord
<1>2. Keeps(asked, asked) /\ \A d : OthersAsk(asked, asked, d)
  BY <1>1, OthersAskFacts DEF Keeps
<1>3. ASSUME NEW a \in AskedRecord, a.by = c, asked' = Append(asked, a)
      PROVE  Keeps(asked, asked') /\ \A d \in Sessions \ {c} : OthersAsk(asked, asked', d)
  BY <1>1, <1>3, OthersAskFacts, KeepsFacts
<1>4. Keeps(asked, asked') /\ \A d \in Sessions \ {c} : OthersAsk(asked, asked', d)
  BY <1>2, <1>3
<1>. QED  BY <1>4 DEF Alone

(* The fields of a session.                                                 *)
LEMMA SessionTypes ==
  ASSUME OperatorInv, NEW c \in Sessions
  PROVE  /\ session[c] \in SessionRecord /\ DOMAIN session = Sessions
         /\ session[c].status \in Statuses
         /\ session[c].who \in Identities \cup {Nobody}
         /\ session[c].out \in Seq(Frame) /\ session[c].reply \in Seq(ReplyFrame)
         /\ subs[c] \in Pipe(Frame) /\ DOMAIN subs = Sessions
         /\ told[c] \in Seq(ToldRecord) /\ DOMAIN told = Sessions
         /\ SessionInv(c)
<1>1. Types
  BY TypesOK DEF OperatorInv
<1>2. session[c] \in SessionRecord /\ DOMAIN session = Sessions
  BY <1>1 DEF Types
<1>3. /\ session[c].status \in Statuses
      /\ session[c].who \in Identities \cup {Nobody}
      /\ session[c].out \in Seq(Frame) /\ session[c].reply \in Seq(ReplyFrame)
  BY <1>2 DEF SessionRecord
<1>4. subs[c] \in Pipe(Frame) /\ DOMAIN subs = Sessions
      /\ told[c] \in Seq(ToldRecord) /\ DOMAIN told = Sessions
  BY <1>1 DEF Types
<1>. QED  BY <1>2, <1>3, <1>4 DEF OperatorInv

(* An assignment to one session, of the right type.                         *)
LEMMA Assigned ==
  ASSUME OperatorInv, NEW c \in Sessions, NEW r \in SessionRecord,
         session' = [session EXCEPT ![c] = r]
  PROVE  /\ session' \in [Sessions -> SessionRecord]
         /\ session'[c] = r
         /\ \A d \in Sessions \ {c} : session'[d] = session[d]
<1>1. session \in [Sessions -> SessionRecord]
  BY TypesOK DEF OperatorInv, Types
<1>. QED  BY <1>1

LEMMA SendFailsInv ==
  ASSUME OperatorInv, NEW c \in Sessions, SendFails(c)
  PROVE  OperatorInv'
<1>. DEFINE status == AfterWriter(session[c].status)
            r == [session[c] EXCEPT !.status = status, !.out = <<>>]
<1>0. status \in Statuses
  BY DEF AfterWriter, Statuses
<1>. HIDE DEF status
<1>1. r \in SessionRecord /\ r.status = status /\ r.out = <<>>
      /\ r.who = session[c].who /\ r.reply = session[c].reply
  <2>1. PICK s \in SessionRecord : s = session[c]
    BY SessionTypes
  <2>2. r = [s EXCEPT !.status = status, !.out = <<>>]
    BY <2>1
  <2>. HIDE DEF r
  <2>3. PICK st \in Statuses : st = status
    BY <1>0
  <2>4. /\ r \in SessionRecord /\ r.status = st /\ r.out = <<>>
        /\ r.who = s.who /\ r.reply = s.reply
    <3>1. <<>> \in Seq(Frame) /\ <<>> \in Seq(ReplyFrame)
      OBVIOUS
    <3>2. r = [s EXCEPT !.status = st, !.out = <<>>]
      BY <2>2, <2>3
    <3>. QED  BY <3>1, <3>2 DEF SessionRecord
  <2>. QED  BY <2>1, <2>3, <2>4
<1>2. session' = [session EXCEPT ![c] = r]
  BY DEF SendFails, status
<1>. HIDE DEF r
<1>3. /\ session' \in [Sessions -> SessionRecord] /\ session'[c] = r
      /\ \A d \in Sessions \ {c} : session'[d] = session[d]
  BY <1>1, <1>2, Assigned
<1>4. /\ session[c].status \in {"running", "gone"}
      /\ UNCHANGED <<scene, declared, subs, asked, causes, told>>
  BY DEF SendFails
<1>5. Types'
  BY <1>3, <1>4, TypesOK DEF OperatorInv, Types
<1>6. Alone(c)
  BY <1>3, <1>4, AloneFacts
<1>7. session[c].reply # <<>> => session[c].status = "running"
  BY <1>4, SessionTypes DEF SessionInv, LifeInv
<1>8. SessionInv(c)'
  BY <1>1, <1>3, <1>4, <1>6, <1>7, QuietInv DEF status, AfterWriter, Alone
<1>. QED  BY <1>5, <1>6, <1>8, AloneInv

LEMMA PingOutInv ==
  ASSUME OperatorInv, NEW c \in Sessions, PingOut(c)
  PROVE  OperatorInv'
<1>. DEFINE r == [session[c] EXCEPT !.status = "closing"]
<1>1. r \in SessionRecord /\ r.status = "closing" /\ r.out = session[c].out
      /\ r.who = session[c].who /\ r.reply = session[c].reply
  BY SessionTypes DEF SessionRecord, Statuses
<1>2. session' = [session EXCEPT ![c] = r]
  BY DEF PingOut
<1>. HIDE DEF r
<1>3. /\ session' \in [Sessions -> SessionRecord] /\ session'[c] = r
      /\ \A d \in Sessions \ {c} : session'[d] = session[d]
  BY <1>1, <1>2, Assigned
<1>4. /\ session[c].status = "gone"
      /\ UNCHANGED <<scene, declared, subs, asked, causes, told>>
  BY DEF PingOut
<1>5. Types'
  BY <1>3, <1>4, TypesOK DEF OperatorInv, Types
<1>6. Alone(c)
  BY <1>3, <1>4, AloneFacts
<1>7. session[c].reply = <<>>
  BY <1>4, SessionTypes DEF SessionInv, LifeInv
<1>8. SessionInv(c)'
  BY <1>1, <1>3, <1>4, <1>6, <1>7, QuietInv DEF Alone
<1>. QED  BY <1>5, <1>6, <1>8, AloneInv

LEMMA ReaderEndsInv ==
  ASSUME OperatorInv, NEW c \in Sessions, ReaderEnds(c)
  PROVE  OperatorInv'
<1>. DEFINE r == [session[c] EXCEPT !.status = AfterReader(@)]
<1>1. r \in SessionRecord /\ r.status = AfterReader(session[c].status)
      /\ r.out = session[c].out /\ r.who = session[c].who /\ r.reply = session[c].reply
  BY SessionTypes DEF SessionRecord, AfterReader, Statuses
<1>2. session' = [session EXCEPT ![c] = r]
  BY DEF ReaderEnds
<1>. HIDE DEF r
<1>3. /\ session' \in [Sessions -> SessionRecord] /\ session'[c] = r
      /\ \A d \in Sessions \ {c} : session'[d] = session[d]
  BY <1>1, <1>2, Assigned
<1>4. /\ session[c].status \in {"running", "silent"} /\ session[c].reply = <<>>
      /\ UNCHANGED <<scene, declared, subs, asked, causes, told>>
  BY DEF ReaderEnds, Reads
<1>5. Types'
  BY <1>3, <1>4, TypesOK DEF OperatorInv, Types
<1>6. Alone(c)
  BY <1>3, <1>4, AloneFacts
<1>7. SessionInv(c)'
  BY <1>1, <1>3, <1>4, <1>6, QuietInv DEF AfterReader, Alone
<1>. QED  BY <1>5, <1>6, <1>7, AloneInv

LEMMA FinishInv ==
  ASSUME OperatorInv, NEW c \in Sessions, Finish(c)
  PROVE  OperatorInv'
<1>. DEFINE r == Closed("over")
<1>1. r \in SessionRecord /\ r.status = "over" /\ r.out = <<>> /\ r.reply = <<>>
  BY DEF SessionRecord, Closed, Statuses
<1>2. session' = [session EXCEPT ![c] = r]
  BY DEF Finish
<1>. HIDE DEF r
<1>3. /\ session' \in [Sessions -> SessionRecord] /\ session'[c] = r
      /\ \A d \in Sessions \ {c} : session'[d] = session[d]
  BY <1>1, <1>2, Assigned
<1>4. /\ session[c].status \in {"opening", "closing"}
      /\ UNCHANGED <<declared, asked, causes, told>>
  BY DEF Finish
<1>5. scene' \in SceneRecord(Sessions) /\ scene'.log = scene.log
      /\ scene'.subs = scene.subs \ {c}
  <2>1. scene \in SceneRecord(Sessions) /\ scene' = Detached(scene, c)
    BY DEF OperatorInv, TypeOK, Finish
  <2>. QED  BY <2>1, SceneOps DEF Detached, SceneRecord
<1>6. subs' \in [Sessions -> Pipe(Frame)] /\ \A d \in Sessions \ {c} : subs'[d] = subs[d]
  <2>. DEFINE s == Close(subs[c])
  <2>1. s \in Pipe(Frame)
    BY SessionTypes, CloseType
  <2>2. subs' = [subs EXCEPT ![c] = s] /\ subs \in [Sessions -> Pipe(Frame)]
    BY TypesOK DEF OperatorInv, Types, Finish
  <2>. HIDE DEF s
  <2>. QED  BY <2>1, <2>2
<1>7. Types'
  BY <1>3, <1>4, <1>5, <1>6, TypesOK DEF OperatorInv, Types
<1>8. Alone(c)
  BY <1>3, <1>4, <1>5, <1>6, AloneFacts
<1>9. SessionInv(c)'
  BY <1>1, <1>3, <1>4, <1>8, QuietInv DEF Alone
<1>. QED  BY <1>7, <1>8, <1>9, AloneInv


(* The writer takes the oldest frame in hand.                               *)
LEMMA WriterGetInv ==
  ASSUME OperatorInv, NEW c \in Sessions, WriterGet(c)
  PROVE  OperatorInv'
<1>. DEFINE q == subs[c].queue
            o == <<Head(q)>>
            r == [session[c] EXCEPT !.out = o]
            s == [subs[c] EXCEPT !.queue = Tail(q)]
<1>1. /\ session[c].status \in {"running", "gone"} /\ session[c].out = <<>> /\ q # <<>>
      /\ session' = [session EXCEPT ![c] = r] /\ subs' = [subs EXCEPT ![c] = s]
      /\ UNCHANGED <<scene, declared, asked, causes, told>>
  BY DEF WriterGet
<1>2. SessionInv(c) /\ q \in Seq(Frame)
  BY <1>1, SessionTypes DEF SessionInv, FrameInv
<1>3. /\ Len(q) \in Nat /\ Len(q) >= 1 /\ Len(Tail(q)) = Len(q) - 1
      /\ Head(q) = q[1] /\ Head(q) \in Frame /\ Tail(q) \in Seq(Frame)
      /\ \A i \in 1..Len(Tail(q)) : Tail(q)[i] = q[i + 1] /\ i + 1 \in 1..Len(q)
  BY <1>1, <1>2
<1>0. o \in Seq(Frame) /\ Len(o) = 1 /\ o[1] = q[1]
  BY <1>3
<1>. HIDE DEF o
<1>4. r \in SessionRecord /\ r.out = o
      /\ r.status = session[c].status /\ r.who = session[c].who /\ r.reply = session[c].reply
  BY <1>0, SessionTypes DEF SessionRecord
<1>5. s \in Pipe(Frame) /\ s.queue = Tail(q) /\ s.stale = subs[c].stale
  <2>1. Tail(q) \in Seq(Frame \cup {Sentinel})
    BY <1>3
  <2>. QED  BY <2>1, SessionTypes DEF Pipe
<1>. HIDE DEF r, s
<1>6. /\ session' \in [Sessions -> SessionRecord] /\ session'[c] = r
      /\ \A d \in Sessions \ {c} : session'[d] = session[d]
  BY <1>1, <1>4, Assigned
<1>7. /\ subs' \in [Sessions -> Pipe(Frame)] /\ subs'[c] = s
      /\ \A d \in Sessions \ {c} : subs'[d] = subs[d]
  BY <1>1, <1>5, TypesOK DEF OperatorInv, Types
<1>8. Types'
  BY <1>1, <1>6, <1>7, TypesOK DEF OperatorInv, Types
<1>9. Alone(c)
  BY <1>1, <1>6, <1>7, AloneFacts
<1>10. /\ session[c].out = <<>> /\ Len(session'[c].out) = 1 /\ session'[c].out[1] = q[1]
       /\ subs'[c].queue = Tail(q) /\ subs'[c].stale = subs[c].stale
       /\ session'[c].status = session[c].status /\ session'[c].who = session[c].who
       /\ session'[c].reply = session[c].reply
  BY <1>0, <1>1, <1>3, <1>4, <1>5, <1>6, <1>7
<1>. DEFINE q2 == Tail(q)
            o2 == session'[c].out
<1>11. /\ q = subs[c].queue /\ Len(q2) = Len(q) - 1 /\ q2 \in Seq(Frame)
       /\ \A i \in 1..Len(q2) : q2[i] = q[i + 1] /\ i + 1 \in 1..Len(q)
       /\ q2 = subs'[c].queue /\ Len(o2) = 1 /\ o2[1] = q[1]
  BY <1>3, <1>10
<1>12. /\ \A i \in 1..Len(q) : q[i].at \in 1..Len(causes)
       /\ \A i, j \in 1..Len(q) : i < j => q[i].at < q[j].at
  BY <1>1, <1>2 DEF SessionInv, FrameInv
<1>13. Len(causes) \in Nat
  BY CausesType DEF OperatorInv
<1>. HIDE DEF q, q2, o2
<1>14. LifeInv(c)'
  <2>1. scene'.subs = scene.subs /\ asked' = asked
    BY <1>1
  <2>2. Len(session'[c].out) <= 1
    BY <1>10
  <2>. QED  BY <1>1, <1>2, <1>10, <2>1, <2>2 DEF SessionInv, LifeInv
<1>15. FrameInv(c)'
  <2>1. \A i \in 1..Len(o2) : o2[i] = q[1] /\ 1 \in 1..Len(q)
    BY <1>3, <1>11
  <2>2. \A i \in 1..Len(q2), j \in 1..Len(q2) : i < j => q2[i].at < q2[j].at
    <3>. SUFFICES ASSUME NEW i \in 1..Len(q2), NEW j \in 1..Len(q2), i < j
                  PROVE  q2[i].at < q2[j].at
      OBVIOUS
    <3>1. /\ q2[i] = q[i + 1] /\ i + 1 \in 1..Len(q)
          /\ q2[j] = q[j + 1] /\ j + 1 \in 1..Len(q) /\ i + 1 < j + 1
      BY <1>11
    <3>2. q[i + 1].at < q[j + 1].at
      BY <1>12, <3>1
    <3>. QED  BY <3>1, <3>2
  <2>3. \A i \in 1..Len(o2), j \in 1..Len(q2) : o2[i].at < q2[j].at
    <3>. SUFFICES ASSUME NEW i \in 1..Len(o2), NEW j \in 1..Len(q2)
                  PROVE  o2[i].at < q2[j].at
      OBVIOUS
    <3>1. o2[i] = q[1] /\ q2[j] = q[j + 1] /\ j + 1 \in 1..Len(q) /\ 1 < j + 1
      BY <1>3, <1>11, <2>1
    <3>2. q[1].at < q[j + 1].at
      BY <1>12, <2>1, <3>1
    <3>. QED  BY <3>1, <3>2
  <2>4. /\ \A i \in 1..Len(o2) : o2[i].at \in 1..Len(causes)
        /\ \A i \in 1..Len(q2) : q2[i].at \in 1..Len(causes)
    BY <1>11, <1>12, <2>1
  <2>. QED  BY <1>1, <1>11, <2>2, <2>3, <2>4 DEF FrameInv, o2
<1>16. \A k : Passed(c, k) => Passed(c, k)'
  <2>. SUFFICES ASSUME NEW k, Passed(c, k)  PROVE Passed(c, k)'
    OBVIOUS
  <2>1. \A i \in 1..Len(q) : k < q[i].at
    BY <1>1, <1>11 DEF Passed
  <2>2. \A i \in 1..Len(o2) : o2[i] = q[1] /\ 1 \in 1..Len(q)
    BY <1>3, <1>11
  <2>3. \A i \in 1..Len(o2) : k < o2[i].at
    BY <2>1, <2>2
  <2>4. \A i \in 1..Len(q2) : k < q2[i].at
    BY <1>11, <2>1
  <2>. QED  BY <1>11, <2>3, <2>4 DEF Passed, o2
<1>17. ToldInv(c)'
  <2>1. \A t : Truthful(c, t) => Truthful(c, t)'
    BY <1>1, <1>9, <1>16, TruthKept DEF Alone
  <2>. QED  BY <1>1, <1>2, <2>1 DEF SessionInv, ToldInv
<1>18. \A n : Entries(n)' = Entries(n)
  BY <1>1 DEF Entries
<1>19. ReplyInv(c)'
  <2>1. \A n : Answering(c, n) => Answering(c, n)'
    BY <1>1, <1>18 DEF Answering
  <2>. QED  BY <1>2, <1>10, <2>1 DEF SessionInv, ReplyInv
<1>20. KeptInv(c)'
  <2>1. ASSUME NEW n, Attended(c, n)  PROVE Attended(c, n)'
    <3>1. CASE \/ \E i \in 1..Len(told[c]) : told[c][i].asked = n
               \/ session[c].reply # <<>> /\ Head(session[c].reply).asked = n
      BY <1>1, <1>10, <3>1 DEF Attended
    <3>2. CASE \E k \in Entries(n) : \E i \in 1..Len(q) : q[i].type = "delta" /\ q[i].at = k
      <4>1. PICK k \in Entries(n), i \in 1..Len(q) : q[i].type = "delta" /\ q[i].at = k
        BY <3>2
      <4>2. CASE i = 1
        <5>1. 1 \in 1..Len(o2) /\ o2[1] = q[i]
          BY <1>11, <4>2
        <5>. QED  BY <1>18, <4>1, <5>1 DEF Attended, o2
      <4>3. CASE i # 1
        <5>1. i - 1 \in 1..Len(q2) /\ (i - 1) + 1 = i
          BY <1>3, <1>11, <4>3
        <5>2. q2[i - 1] = q[i]
          BY <1>11, <5>1
        <5>. QED  BY <1>11, <1>18, <4>1, <5>1, <5>2 DEF Attended
      <4>. QED  BY <4>2, <4>3
    <3>3. ~ \E i \in 1..Len(session[c].out) : TRUE
      BY <1>1
    <3>. QED  BY <1>11, <2>1, <3>1, <3>2, <3>3 DEF Attended
  <2>. QED  BY <1>1, <1>2, <1>10, <2>1 DEF SessionInv, KeptInv
<1>. QED  BY <1>8, <1>9, <1>14, <1>15, <1>17, <1>19, <1>20, AloneInv DEF SessionInv

(* A new session is owed nothing and has heard nothing.                     *)
LEMMA ConnectInv ==
  ASSUME OperatorInv, NEW c \in Sessions, NEW identity \in Identities, Connect(c, identity)
  PROVE  OperatorInv'
<1>. DEFINE f == SnapshotOf(scene)
            r == [status |-> "opening", who |-> identity, out |-> <<f>>, reply |-> <<>>]
            s == NewSubscription(FALSE)
<1>1. scene \in SceneRecord(Sessions) /\ f \in Frame /\ f.at = Len(causes)
  <2>1. scene \in SceneRecord(Sessions) /\ Len(causes) = Len(scene.log)
    BY DEF OperatorInv, TypeOK
  <2>. QED  BY <2>1, SnapshotType DEF Frame, SnapshotOf
<1>2. s \in Pipe(Frame) /\ s.queue = <<>>
  BY NewSubscriptionType DEF NewSubscription
<1>3. /\ session[c].status = "new" /\ scene' = Attached(scene, c)
      /\ subs' = [subs EXCEPT ![c] = s] /\ session' = [session EXCEPT ![c] = r]
      /\ UNCHANGED <<declared, asked, causes, told>>
  BY DEF Connect
<1>. HIDE DEF f, s
<1>4. /\ r \in SessionRecord /\ r.status = "opening" /\ r.who = identity
      /\ r.out = <<f>> /\ r.reply = <<>>
  BY <1>1 DEF SessionRecord, Statuses
<1>. HIDE DEF r
<1>5. /\ session' \in [Sessions -> SessionRecord] /\ session'[c] = r
      /\ \A d \in Sessions \ {c} : session'[d] = session[d]
  BY <1>3, <1>4, Assigned
<1>6. /\ subs' \in [Sessions -> Pipe(Frame)] /\ subs'[c] = s
      /\ \A d \in Sessions \ {c} : subs'[d] = subs[d]
  BY <1>2, <1>3, TypesOK DEF OperatorInv, Types
<1>7. scene' \in SceneRecord(Sessions) /\ scene'.log = scene.log
      /\ scene'.subs = scene.subs \cup {c}
  BY <1>1, <1>3, SceneOps DEF Attached, SceneRecord
<1>8. Types'
  BY <1>3, <1>5, <1>6, <1>7, TypesOK DEF OperatorInv, Types
<1>9. Alone(c)
  BY <1>3, <1>5, <1>6, <1>7, AloneFacts
<1>10. SessionInv(c) /\ \A n \in 1..Len(asked) : asked[n].by # c
  BY <1>3, SessionTypes DEF SessionInv, LifeInv
<1>11. \A i \in 1..Len(told[c]) : FALSE
  BY <1>10 DEF SessionInv, ToldInv, Truthful
<1>12. LifeInv(c)'
  <2>1. /\ session'[c].status = "opening" /\ session'[c].who = identity
        /\ session'[c].reply = <<>> /\ session'[c].out = <<f>>
    BY <1>4, <1>5
  <2>2. Len(<<f>>) = 1 /\ Len(<<>>) = 0
    OBVIOUS
  <2>3. c \in scene'.subs /\ asked' = asked
    BY <1>3, <1>7
  <2>. QED  BY <1>10, <2>1, <2>2, <2>3 DEF LifeInv
<1>13. Len(causes) \in Nat /\ Len(causes) >= 1
  BY CausesType DEF OperatorInv, CauseInv
<1>14. FrameInv(c)'
  <2>1. \A i \in 1..Len(session'[c].out) : session'[c].out[i].at \in 1..Len(causes')
    BY <1>1, <1>3, <1>4, <1>5, <1>13
  <2>2. subs'[c].queue = <<>> /\ Len(<<>>) = 0 /\ <<>> \in Seq(Frame)
    BY <1>2, <1>6
  <2>. QED  BY <2>1, <2>2 DEF FrameInv
<1>15. ToldInv(c)' /\ ReplyInv(c)' /\ KeptInv(c)'
  BY <1>3, <1>4, <1>5, <1>11 DEF ToldInv, ReplyInv, KeptInv
<1>. QED  BY <1>8, <1>9, <1>12, <1>14, <1>15, AloneInv DEF SessionInv


(* The entries of a frame: each one cause, in order.                        *)
LEMMA EntryFacts ==
  ASSUME OperatorInv
  PROVE  /\ \A n : \A k \in Entries(n) : k \in 1..Len(causes) /\ causes[k] = n
         /\ \A k \in 1..Len(causes) :
              causes[k] # 0 => causes[k] \in 1..Len(asked) /\ k \in Entries(causes[k])
         /\ \A m, n \in Nat \ {0} : \A k \in Entries(m), l \in Entries(n) : k < l => m < n
         /\ Len(causes) \in Nat /\ Len(asked) \in Nat
<1>1. TypeOK /\ CauseInv /\ Len(causes) \in Nat /\ Len(asked) \in Nat
  <2>1. asked \in Seq(AskedRecord)
    BY TypesOK DEF OperatorInv, Types
  <2>2. Len(asked) \in Nat
    BY <2>1
  <2>. QED  BY <2>2, CausesType DEF OperatorInv
<1>2. \A n : \A k \in Entries(n) : k \in 1..Len(causes) /\ causes[k] = n
  BY DEF Entries
<1>3. \A k \in 1..Len(causes) :
        causes[k] # 0 => causes[k] \in 1..Len(asked) /\ k \in Entries(causes[k])
  BY <1>1 DEF CauseInv, Entries
<1>4. \A m, n \in Nat \ {0} : \A k \in Entries(m), l \in Entries(n) : k < l => m < n
  BY <1>1, <1>2 DEF CauseInv
<1>. QED  BY <1>1, <1>2, <1>3, <1>4

(* The client receives a frame; of its own change, that is the answer.      *)
LEMMA ReceiveInv ==
  ASSUME OperatorInv, NEW c \in Sessions, Receive(c)
  PROVE  OperatorInv'
<1>. DEFINE status == AfterSend(session[c].status)
            r == [session[c] EXCEPT !.out = <<>>, !.status = status]
            f == Head(session[c].out)
            T == told[c]
            q == subs[c].queue
            Tells(n) == [type |-> "echo", asked |-> n]
<1>1. /\ session[c].status \in {"opening", "running", "gone"} /\ session[c].out # <<>>
      /\ session' = [session EXCEPT ![c] = r]
      /\ told' = [told EXCEPT ![c] = T \o Echo(c, f)]
      /\ UNCHANGED <<scene, declared, subs, asked, causes>>
  BY DEF Receive
<1>2. SessionInv(c) /\ T \in Seq(ToldRecord) /\ DOMAIN told = Sessions
  BY SessionTypes
<1>3. /\ Len(session[c].out) = 1 /\ f = session[c].out[1] /\ f \in Frame
      /\ f.at \in 1..Len(causes)
      /\ \A j \in 1..Len(q) : f.at < q[j].at
  <2>1. session[c].out \in Seq(Frame)
    BY SessionTypes
  <2>2. Len(session[c].out) <= 1
    BY <1>2 DEF SessionInv, LifeInv
  <2>3. Len(session[c].out) = 1 /\ f = session[c].out[1] /\ f \in Frame
    <3>. DEFINE o == session[c].out
    <3>1. o \in Seq(Frame) /\ o # <<>> /\ Len(o) <= 1
      BY <1>1, <2>1, <2>2
    <3>. HIDE DEF o
    <3>4. Len(o) \in Nat /\ Len(o) >= 1
      BY <3>1
    <3>5. Len(o) <= 1
      BY <3>1
    <3>2. Len(o) = 1
      <4>. DEFINE l == Len(o)
      <4>1. l \in Nat /\ l >= 1 /\ l <= 1
        BY <3>4, <3>5
      <4>. HIDE DEF l
      <4>2. l = 1
        BY <4>1
      <4>. QED  BY <4>2 DEF l
    <3>3. Head(o) = o[1] /\ o[1] \in Frame
      BY <3>1, <3>2
    <3>. QED  BY <3>2, <3>3 DEF o
  <2>4. /\ \A i \in 1..Len(session[c].out) : session[c].out[i].at \in 1..Len(causes)
        /\ \A i \in 1..Len(session[c].out), j \in 1..Len(q) : session[c].out[i].at < q[j].at
    BY <1>1, <1>2 DEF SessionInv, FrameInv
  <2>. HIDE DEF f, q
  <2>. QED  BY <2>3, <2>4
<1>20. status \in Statuses
  BY <1>1 DEF AfterSend, Statuses
<1>. HIDE DEF status
<1>21. /\ r \in SessionRecord /\ r.status = status /\ r.out = <<>>
       /\ r.who = session[c].who /\ r.reply = session[c].reply
  <2>1. PICK s \in SessionRecord : s = session[c]
    BY SessionTypes
  <2>2. r = [s EXCEPT !.out = <<>>, !.status = status]
    BY <2>1
  <2>. HIDE DEF r
  <2>3. PICK st \in Statuses : st = status
    BY <1>20
  <2>4. /\ r \in SessionRecord /\ r.status = st /\ r.out = <<>>
        /\ r.who = s.who /\ r.reply = s.reply
    <3>1. <<>> \in Seq(Frame) /\ <<>> \in Seq(ReplyFrame)
      OBVIOUS
    <3>2. r = [s EXCEPT !.out = <<>>, !.status = st]
      BY <2>2, <2>3
    <3>. QED  BY <3>1, <3>2 DEF SessionRecord
  <2>. QED  BY <2>1, <2>3, <2>4
<1>4. /\ r \in SessionRecord /\ r.status = AfterSend(session[c].status) /\ r.out = <<>>
      /\ r.who = session[c].who /\ r.reply = session[c].reply
  BY <1>21 DEF status
<1>22. PICK T2 : T2 = told'[c]
  OBVIOUS
<1>. HIDE DEF r, f
<1>5. /\ session' \in [Sessions -> SessionRecord] /\ session'[c] = r
      /\ \A d \in Sessions \ {c} : session'[d] = session[d]
  BY <1>1, <1>4, Assigned
<1>6. \/ /\ T2 = T
         /\ ~ (f.type = "delta" /\ causes[f.at] # 0 /\ asked[causes[f.at]].by = c)
      \/ \E n \in 1..Len(asked) :
           /\ f.type = "delta" /\ causes[f.at] = n /\ asked[n].by = c
           /\ f.at \in Entries(n)
           /\ Tells(n) \in ToldRecord /\ T2 = Append(T, Tells(n))
  <2>1. CASE f.type = "delta" /\ causes[f.at] # 0 /\ asked[causes[f.at]].by = c
    <3>1. Echo(c, f) = <<Tells(causes[f.at])>>
      BY <2>1 DEF Echo
    <3>2. causes[f.at] \in 1..Len(asked) /\ f.at \in Entries(causes[f.at])
      BY <1>3, <2>1, EntryFacts
    <3>3. causes[f.at] \in 1..MaxAsked
      <4>. DEFINE C == causes
                  S == 0..MaxAsked
      <4>1. C \in Seq(S) /\ f.at \in 1..Len(C)
        BY <1>3, CausesType DEF OperatorInv
      <4>. HIDE DEF C, S
      <4>2. C[f.at] \in S
        BY <4>1
      <4>. QED  BY <2>1, <4>2, BoundsAssumption DEF C, S
    <3>4. Tells(causes[f.at]) \in ToldRecord
      BY <3>3 DEF ToldRecord
    <3>5. T2 = T \o <<Tells(causes[f.at])>>
      BY <1>1, <1>2, <1>22, <3>1
    <3>. HIDE DEF Tells, T
    <3>6. T \o <<Tells(causes[f.at])>> = Append(T, Tells(causes[f.at]))
      BY <1>2, <3>4
    <3>. QED  BY <2>1, <3>2, <3>4, <3>5, <3>6
  <2>2. CASE ~ (f.type = "delta" /\ causes[f.at] # 0 /\ asked[causes[f.at]].by = c)
    <3>1. Echo(c, f) = <<>>
      BY <2>2 DEF Echo
    <3>2. T2 = T \o <<>>
      BY <1>1, <1>2, <1>22, <3>1
    <3>3. T \o <<>> = T
      BY <1>2
    <3>. QED  BY <2>2, <3>2, <3>3
  <2>. QED  BY <2>1, <2>2
<1>7. T2 \in Seq(ToldRecord)
  <2>. HIDE DEF Tells, T
  <2>1. T \in Seq(ToldRecord)
    BY <1>2 DEF T
  <2>2. \A x \in ToldRecord : Append(T, x) \in Seq(ToldRecord)
    BY <2>1
  <2>. QED  BY <1>6, <2>1, <2>2
<1>8. /\ told' \in [Sessions -> Seq(ToldRecord)]
      /\ \A d \in Sessions \ {c} : told'[d] = told[d]
  <2>. DEFINE U == T \o Echo(c, f)
  <2>1. told' = [told EXCEPT ![c] = U] /\ told \in [Sessions -> Seq(ToldRecord)]
    BY <1>1, TypesOK DEF OperatorInv, Types
  <2>2. U = T2
    BY <1>22, <2>1
  <2>. HIDE DEF U
  <2>. QED  BY <1>7, <2>1, <2>2
<1>9. Types'
  BY <1>1, <1>5, <1>8, TypesOK DEF OperatorInv, Types
<1>10. Alone(c)
  BY <1>1, <1>5, <1>8, AloneFacts
<1>11. LifeInv(c)'
  BY <1>1, <1>2, <1>4, <1>5 DEF SessionInv, LifeInv, AfterSend
<1>12. FrameInv(c)'
  BY <1>1, <1>2, <1>4, <1>5 DEF SessionInv, FrameInv
<1>13. \A k : Passed(c, k) => Passed(c, k)'
  BY <1>1, <1>4, <1>5 DEF Passed
<1>14. \A k : k = f.at => Passed(c, k)'
  <2>1. session'[c].out = <<>> /\ Len(<<>>) = 0 /\ subs'[c].queue = q
    BY <1>1, <1>4, <1>5
  <2>. QED  BY <1>3, <2>1 DEF Passed
<1>15. \A n : Entries(n)' = Entries(n)
  BY <1>1 DEF Entries
<1>16. \A t : Truthful(c, t) => Truthful(c, t)'
  BY <1>1, <1>10, <1>13, TruthKept DEF Alone
<1>17. ToldInv(c) /\ T = told[c] /\ T2 = told'[c] /\ Len(T) \in Nat
       /\ \A i \in 1..Len(T) : T[i].type \in {"echo", "error"} /\ T[i].asked \in Nat \ {0}
  <2>1. \A i \in 1..Len(T) : T[i] \in ToldRecord
    BY <1>2
  <2>2. \A t \in ToldRecord : t.type \in {"echo", "error"} /\ t.asked \in Nat \ {0}
    BY BoundsAssumption DEF ToldRecord
  <2>. QED  BY <1>2, <1>22, <2>1, <2>2 DEF SessionInv
<1>. HIDE DEF T
<1>18. CASE T2 = T /\ ~ (f.type = "delta" /\ causes[f.at] # 0 /\ asked[causes[f.at]].by = c)
  <2>1. ToldInv(c)'
    BY <1>16, <1>17, <1>18 DEF ToldInv
  <2>2. ReplyInv(c)'
    <3>1. \A n : Answering(c, n) => Answering(c, n)'
      BY <1>1, <1>15, <1>17, <1>18 DEF Answering
    <3>. QED  BY <1>2, <1>4, <1>5, <3>1 DEF SessionInv, ReplyInv
  <2>3. KeptInv(c)'
    <3>. SUFFICES ASSUME session'[c].status = "running", ~subs'[c].stale,
                         NEW n \in 1..Len(asked'), asked'[n].by = c
                  PROVE  Attended(c, n)'
      BY DEF KeptInv
    <3>1. session[c].status = "running"
      BY <1>1, <1>2, <1>4, <1>5 DEF AfterSend, SessionInv, LifeInv
    <3>2. Attended(c, n)
      BY <1>1, <1>2, <3>1 DEF SessionInv, KeptInv
    <3>3. ~ \E k \in Entries(n) : \E i \in 1..Len(session[c].out) :
              session[c].out[i].type = "delta" /\ session[c].out[i].at = k
      BY <1>1, <1>3, <1>18 DEF Entries
    <3>. QED  BY <1>1, <1>4, <1>5, <1>15, <1>17, <1>18, <3>2, <3>3 DEF Attended
  <2>. QED  BY <1>9, <1>10, <1>11, <1>12, <2>1, <2>2, <2>3, AloneInv DEF SessionInv
<1>19. ASSUME NEW n \in 1..Len(asked), f.type = "delta", causes[f.at] = n, asked[n].by = c,
              f.at \in Entries(n), Tells(n) \in ToldRecord, T2 = Append(T, Tells(n))
       PROVE  OperatorInv'
  <2>9. PICK t : t = Tells(n)
    OBVIOUS
  <2>1. /\ Len(T2) = Len(T) + 1 /\ T2[Len(T) + 1] = t
        /\ \A i \in 1..Len(T) : i \in 1..Len(T2) /\ T2[i] = T[i]
        /\ t.type = "echo" /\ t.asked = n
    <3>1. T \in Seq(ToldRecord)
      BY <1>2 DEF T
    <3>2. t.type = "echo" /\ t.asked = n
      BY <2>9
    <3>. HIDE DEF Tells
    <3>3. /\ Len(T2) = Len(T) + 1 /\ T2[Len(T) + 1] = t
          /\ \A i \in 1..Len(T) : T2[i] = T[i]
      BY <1>19, <2>9, <3>1
    <3>. QED  BY <1>17, <3>2, <3>3
  <2>2. \A i \in 1..Len(T2) : \/ i \in 1..Len(T) /\ T2[i] = T[i]
                              \/ i = Len(T) + 1 /\ T2[i] = t
    BY <1>17, <2>1
  <2>. HIDE DEF Tells
  <2>3. Truthful(c, t)'
    <3>1. n \in 1..Len(asked') /\ asked'[n].by = c /\ f.at \in Entries(n)'
      BY <1>1, <1>15, <1>19
    <3>. QED  BY <1>14, <2>1, <3>1 DEF Truthful
  <2>4. ASSUME NEW i \in 1..Len(T)
        PROVE  /\ T[i].asked # n
               /\ T[i].asked > n => T[i].type = "error"
    <3>1. Truthful(c, T[i])
      BY <1>17 DEF ToldInv
    <3>2. CASE T[i].type = "error"
      BY <1>19, <3>1, <3>2 DEF Truthful
    <3>3. CASE T[i].type = "echo"
      <4>1. PICK k \in Entries(T[i].asked) : Passed(c, k)
        BY <3>1, <3>3 DEF Truthful
      <4>2. k < f.at
        BY <1>1, <1>3, <4>1 DEF Passed
      <4>3. T[i].asked \in Nat \ {0} /\ n \in Nat \ {0}
        BY <1>17
      <4>4. T[i].asked < n
        BY <1>19, <4>1, <4>2, <4>3, EntryFacts
      <4>. QED  BY <4>3, <4>4
    <3>. QED  BY <1>17, <3>2, <3>3
  <2>5. ToldInv(c)'
    <3>1. \A i \in 1..Len(T2) : Truthful(c, T2[i])'
      BY <1>16, <1>17, <2>2, <2>3 DEF ToldInv
    <3>2. \A i, j \in 1..Len(T2) : i # j => T2[i].asked # T2[j].asked
      <4>. SUFFICES ASSUME NEW i \in 1..Len(T2), NEW j \in 1..Len(T2), i # j
                    PROVE  T2[i].asked # T2[j].asked
        OBVIOUS
      <4>1. CASE i \in 1..Len(T) /\ T2[i] = T[i] /\ j \in 1..Len(T) /\ T2[j] = T[j]
        BY <1>17, <4>1 DEF ToldInv
      <4>2. CASE i \in 1..Len(T) /\ T2[i] = T[i] /\ T2[j] = t
        BY <2>1, <2>4, <4>2
      <4>3. CASE j \in 1..Len(T) /\ T2[j] = T[j] /\ T2[i] = t
        BY <2>1, <2>4, <4>3
      <4>. QED  BY <2>2, <4>1, <4>2, <4>3
    <3>3. \A i, j \in 1..Len(T2) :
            i < j /\ T2[i].asked > T2[j].asked => T2[i].type = "error" /\ T2[j].type = "echo"
      <4>. SUFFICES ASSUME NEW i \in 1..Len(T2), NEW j \in 1..Len(T2), i < j,
                           T2[i].asked > T2[j].asked
                    PROVE  T2[i].type = "error" /\ T2[j].type = "echo"
        OBVIOUS
      <4>1. i \in 1..Len(T) /\ T2[i] = T[i]
        BY <1>17, <2>1, <2>2
      <4>2. CASE j \in 1..Len(T) /\ T2[j] = T[j]
        BY <1>17, <4>1, <4>2 DEF ToldInv
      <4>3. CASE T2[j] = t
        BY <2>1, <2>4, <4>1, <4>3
      <4>. QED  BY <2>2, <4>2, <4>3
    <3>. QED  BY <1>17, <3>1, <3>2, <3>3 DEF ToldInv
  <2>6. ReplyInv(c)'
    <3>1. ASSUME NEW m, Answering(c, m)  PROVE Answering(c, m)'
      <4>1. m # n
        BY <1>19, <3>1 DEF Answering
      <4>2. \A i \in 1..Len(T2) : T2[i].asked # m
        <5>1. \A i \in 1..Len(T) : T[i].asked # m
          BY <1>17, <3>1 DEF Answering
        <5>. QED  BY <2>1, <2>2, <4>1, <5>1
      <4>. QED  BY <1>1, <1>15, <1>17, <3>1, <4>2 DEF Answering
    <3>. QED  BY <1>2, <1>4, <1>5, <3>1 DEF SessionInv, ReplyInv
  <2>7. KeptInv(c)'
    <3>. SUFFICES ASSUME session'[c].status = "running", ~subs'[c].stale,
                         NEW m \in 1..Len(asked'), asked'[m].by = c
                  PROVE  Attended(c, m)'
      BY DEF KeptInv
    <3>1. session[c].status = "running"
      BY <1>1, <1>2, <1>4, <1>5 DEF AfterSend, SessionInv, LifeInv
    <3>2. Attended(c, m)
      BY <1>1, <1>2, <3>1 DEF SessionInv, KeptInv
    <3>3. CASE m = n
      <4>1. Len(T) + 1 \in 1..Len(T2) /\ T2[Len(T) + 1].asked = m
        BY <1>17, <2>1, <3>3
      <4>. QED  BY <1>17, <4>1 DEF Attended
    <3>4. CASE m # n
      <4>1. ~ \E k \in Entries(m) : \E i \in 1..Len(session[c].out) :
                session[c].out[i].type = "delta" /\ session[c].out[i].at = k
        BY <1>1, <1>3, <1>19, <3>4 DEF Entries
      <4>2. (\E i \in 1..Len(T) : T[i].asked = m) => \E i \in 1..Len(T2) : T2[i].asked = m
        BY <2>1
      <4>. QED  BY <1>1, <1>4, <1>5, <1>15, <1>17, <3>2, <4>1, <4>2 DEF Attended
    <3>. QED  BY <3>3, <3>4
  <2>. QED  BY <1>9, <1>10, <1>11, <1>12, <2>5, <2>6, <2>7, AloneInv DEF SessionInv
<1>. QED  BY <1>6, <1>18, <1>19


(* A reply goes into the reader's hand, to the newest frame or to none.     *)
LEMMA ReplyingInv ==
  ASSUME OperatorInv, NEW c \in Sessions, Reads(c), NEW n \in Nat,
         n = 0 \/ Answering(c, n)',
         Keeps(asked, asked'), \A m \in 1..Len(asked') : m \in 1..Len(asked) \/ m = n,
         causes' = causes, told'[c] = told[c], subs'[c] = subs[c],
         scene'.subs = scene.subs,
         Len(session'[c].reply) = 1, Head(session'[c].reply).asked = n,
         session'[c].status = session[c].status, session'[c].who = session[c].who,
         session'[c].out = session[c].out
  PROVE  SessionInv(c)'
<1>1. SessionInv(c) /\ session[c].status \in {"running", "silent"} /\ session[c].reply = <<>>
  BY SessionTypes DEF Reads
<1>2. LifeInv(c)'
  BY <1>1 DEF SessionInv, LifeInv
<1>3. FrameInv(c)'
  BY <1>1 DEF SessionInv, FrameInv
<1>4. \A k : Passed(c, k) => Passed(c, k)'
  BY DEF Passed
<1>5. ToldInv(c)'
  <2>1. \A t : Truthful(c, t) => Truthful(c, t)'
    BY <1>4, TruthKept
  <2>. QED  BY <1>1, <2>1 DEF SessionInv, ToldInv
<1>6. ReplyInv(c)'
  BY DEF ReplyInv
<1>7. KeptInv(c)'
  <2>. SUFFICES ASSUME session'[c].status = "running", ~subs'[c].stale,
                       NEW m \in 1..Len(asked'), asked'[m].by = c
                PROVE  Attended(c, m)'
    BY DEF KeptInv
  <2>1. CASE m = n
    <3>1. session'[c].reply # <<>>
      OBVIOUS
    <3>. QED  BY <2>1, <3>1 DEF Attended
  <2>2. CASE m \in 1..Len(asked)
    <3>1. Attended(c, m)
      BY <1>1, <2>2 DEF SessionInv, KeptInv, Keeps
    <3>2. Entries(m)' = Entries(m)
      BY DEF Entries
    <3>3. CASE \E i \in 1..Len(told[c]) : told[c][i].asked = m
      BY <3>3 DEF Attended
    <3>4. CASE \E k \in Entries(m) :
                 \/ \E i \in 1..Len(session[c].out) :
                      session[c].out[i].type = "delta" /\ session[c].out[i].at = k
                 \/ \E i \in 1..Len(subs[c].queue) :
                      subs[c].queue[i].type = "delta" /\ subs[c].queue[i].at = k
      BY <3>2, <3>4 DEF Attended
    <3>. QED  BY <1>1, <3>1, <3>3, <3>4 DEF Attended
  <2>. QED  BY <2>1, <2>2
<1>. QED  BY <1>2, <1>3, <1>5, <1>6, <1>7 DEF SessionInv

LEMMA ErrorFrameType ==
  ASSUME NEW code \in Refusals \cup {"VERSION_MISMATCH", "INTERNAL"},
         NEW path \in Paths \cup {NoPath}, NEW recoverable \in BOOLEAN,
         NEW n \in 0..MaxAsked, NEW ends \in BOOLEAN
  PROVE  /\ ErrorFrame(code, path, recoverable, n, ends) \in Seq(ReplyFrame)
         /\ Len(ErrorFrame(code, path, recoverable, n, ends)) = 1
         /\ Head(ErrorFrame(code, path, recoverable, n, ends)).asked = n
<1>. DEFINE f == [code |-> code, path |-> path, recoverable |-> recoverable,
                  asked |-> n, ends |-> ends]
<1>1. f \in ReplyFrame /\ f.asked = n
  BY DEF ReplyFrame
<1>2. ErrorFrame(code, path, recoverable, n, ends) = <<f>>
  BY DEF ErrorFrame
<1>. HIDE DEF f
<1>. QED  BY <1>1, <1>2

(* An error that answers no Input frame.                                    *)
LEMMA ProtestInv ==
  ASSUME OperatorInv, NEW c \in Sessions, Reads(c),
         NEW reply \in Seq(ReplyFrame), Len(reply) = 1, Head(reply).asked = 0,
         session' = [session EXCEPT ![c].reply = reply],
         UNCHANGED <<scene, declared, subs, asked, causes, told>>
  PROVE  OperatorInv'
<1>. DEFINE r == [session[c] EXCEPT !.reply = reply]
<1>1. /\ r \in SessionRecord /\ r.reply = reply /\ r.status = session[c].status
      /\ r.who = session[c].who /\ r.out = session[c].out
  BY SessionTypes DEF SessionRecord
<1>2. session' = [session EXCEPT ![c] = r]
  OBVIOUS
<1>. HIDE DEF r
<1>3. /\ session' \in [Sessions -> SessionRecord] /\ session'[c] = r
      /\ \A d \in Sessions \ {c} : session'[d] = session[d]
  BY <1>1, <1>2, Assigned
<1>4. Types'
  BY <1>3, TypesOK DEF OperatorInv, Types
<1>5. Alone(c)
  BY <1>3, AloneFacts
<1>6. SessionInv(c)'
  <2>1. \A m \in 1..Len(asked') : m \in 1..Len(asked) \/ m = 0
    OBVIOUS
  <2>2. /\ causes' = causes /\ told'[c] = told[c] /\ subs'[c] = subs[c]
        /\ scene'.subs = scene.subs /\ Keeps(asked, asked')
    BY <1>5 DEF Alone
  <2>. QED  BY <1>1, <1>3, <2>1, <2>2, ReplyingInv
<1>. QED  BY <1>4, <1>5, <1>6, AloneInv

LEMMA ResubscribeInv ==
  ASSUME OperatorInv, NEW c \in Sessions, Resubscribe(c)
  PROVE  OperatorInv'
<1>. DEFINE reply == ErrorFrame("INTERNAL", NoPath, FALSE, 0, FALSE)
<1>1. reply \in Seq(ReplyFrame) /\ Len(reply) = 1 /\ Head(reply).asked = 0
  <2>1. 0 \in 0..MaxAsked
    BY BoundsAssumption
  <2>2. /\ "INTERNAL" \in Refusals \cup {"VERSION_MISMATCH", "INTERNAL"}
        /\ NoPath \in Paths \cup {NoPath} /\ FALSE \in BOOLEAN /\ TRUE \in BOOLEAN
        /\ "VERSION_MISMATCH" \in Refusals \cup {"VERSION_MISMATCH", "INTERNAL"}
    OBVIOUS
  <2>. QED  BY <2>1, <2>2, ErrorFrameType, Zenon
<1>. HIDE DEF reply
<1>. QED  BY <1>1, ProtestInv DEF Resubscribe, reply

LEMMA MisframedInv ==
  ASSUME OperatorInv, NEW c \in Sessions, Misframed(c)
  PROVE  OperatorInv'
<1>1. PICK code \in {"VERSION_MISMATCH", "INTERNAL"} :
        session' = [session EXCEPT ![c].reply = ErrorFrame(code, NoPath, FALSE, 0, TRUE)]
  BY DEF Misframed
<1>. DEFINE reply == ErrorFrame(code, NoPath, FALSE, 0, TRUE)
<1>2. reply \in Seq(ReplyFrame) /\ Len(reply) = 1 /\ Head(reply).asked = 0
  <2>1. 0 \in 0..MaxAsked
    BY BoundsAssumption
  <2>2. /\ "INTERNAL" \in Refusals \cup {"VERSION_MISMATCH", "INTERNAL"}
        /\ NoPath \in Paths \cup {NoPath} /\ FALSE \in BOOLEAN /\ TRUE \in BOOLEAN
        /\ "VERSION_MISMATCH" \in Refusals \cup {"VERSION_MISMATCH", "INTERNAL"}
    OBVIOUS
  <2>. QED  BY <2>1, <2>2, ErrorFrameType, Zenon
<1>3. session' = [session EXCEPT ![c].reply = reply]
  BY <1>1
<1>. HIDE DEF reply
<1>. QED  BY <1>2, <1>3, ProtestInv DEF Misframed

(* The reply is on its way: if it answers a frame, the client has heard.    *)
LEMMA RepliedInv ==
  ASSUME OperatorInv, NEW c \in Sessions, Replied(c)
  PROVE  OperatorInv'
<1>. DEFINE error == Head(session[c].reply)
            status == IF error.ends THEN AfterReader(session[c].status)
                                    ELSE AfterFrame(session[c].status)
            r == [session[c] EXCEPT !.reply = <<>>, !.status = status]
            n == error.asked
            T == told[c]
<1>0. PICK T2 : T2 = told'[c]
  OBVIOUS
<1>25. PICK t : t = [type |-> "error", asked |-> n]
  OBVIOUS
<1>1. /\ session[c].reply # <<>>
      /\ session' = [session EXCEPT ![c] = r]
      /\ told' = IF n = 0 THEN told ELSE [told EXCEPT ![c] = Append(T, t)]
      /\ UNCHANGED <<scene, declared, subs, asked, causes>>
  BY <1>25 DEF Replied
<1>2. SessionInv(c) /\ T \in Seq(ToldRecord)
  BY SessionTypes
<1>3. n \in 0..MaxAsked /\ error \in ReplyFrame
  <2>1. error \in ReplyFrame
    BY <1>1, SessionTypes
  <2>. QED  BY <2>1 DEF ReplyFrame
<1>4. session[c].status \in {"running", "silent"} /\ (n # 0 => Answering(c, n))
  BY <1>1, <1>2 DEF SessionInv, LifeInv, ReplyInv
<1>5. status \in {"running", "gone", "closing"} /\ (status = "running" => session[c].status = "running")
  BY <1>4 DEF AfterReader, AfterFrame
<1>26. status \in Statuses
  BY <1>5 DEF Statuses
<1>. HIDE DEF status
<1>6. /\ r \in SessionRecord /\ r.status = status /\ r.reply = <<>>
      /\ r.who = session[c].who /\ r.out = session[c].out
  <2>1. PICK s \in SessionRecord : s = session[c]
    BY SessionTypes
  <2>2. r = [s EXCEPT !.reply = <<>>, !.status = status]
    BY <2>1
  <2>. HIDE DEF r
  <2>3. PICK st \in Statuses : st = status
    BY <1>26
  <2>4. /\ r \in SessionRecord /\ r.status = st /\ r.reply = <<>>
        /\ r.who = s.who /\ r.out = s.out
    <3>1. <<>> \in Seq(Frame) /\ <<>> \in Seq(ReplyFrame)
      OBVIOUS
    <3>2. r = [s EXCEPT !.reply = <<>>, !.status = st]
      BY <2>2, <2>3
    <3>. QED  BY <3>1, <3>2 DEF SessionRecord
  <2>. QED  BY <2>1, <2>3, <2>4
<1>. HIDE DEF r
<1>7. /\ session' \in [Sessions -> SessionRecord] /\ session'[c] = r
      /\ \A d \in Sessions \ {c} : session'[d] = session[d]
  BY <1>1, <1>6, Assigned
<1>8. n # 0 => t \in ToldRecord
  BY <1>3, <1>25, BoundsAssumption DEF ToldRecord
<1>9. t.type = "error" /\ t.asked = n
  BY <1>25
<1>. HIDE DEF n
<1>10. /\ told' \in [Sessions -> Seq(ToldRecord)]
       /\ T2 = IF n = 0 THEN T ELSE Append(T, t)
       /\ \A d \in Sessions \ {c} : told'[d] = told[d]
  <2>. DEFINE U == Append(T, t)
  <2>1. told \in [Sessions -> Seq(ToldRecord)]
    BY TypesOK DEF OperatorInv, Types
  <2>2. n # 0 => U \in Seq(ToldRecord)
    BY <1>2, <1>8
  <2>3. told' = IF n = 0 THEN told ELSE [told EXCEPT ![c] = U]
    BY <1>1
  <2>. HIDE DEF U
  <2>4. /\ told' \in [Sessions -> Seq(ToldRecord)]
        /\ T2 = IF n = 0 THEN T ELSE U
        /\ \A d \in Sessions \ {c} : told'[d] = told[d]
    BY <1>0, <2>1, <2>2, <2>3
  <2>. QED  BY <1>0, <2>4 DEF U
<1>11. Types'
  BY <1>1, <1>7, <1>10, TypesOK DEF OperatorInv, Types
<1>12. Alone(c)
  BY <1>1, <1>7, <1>10, AloneFacts
<1>13. LifeInv(c)'
  BY <1>1, <1>2, <1>4, <1>5, <1>6, <1>7 DEF SessionInv, LifeInv
<1>14. FrameInv(c)'
  BY <1>1, <1>2, <1>4, <1>5, <1>6, <1>7 DEF SessionInv, FrameInv
<1>15. \A k : Passed(c, k) => Passed(c, k)'
  BY <1>1, <1>4, <1>6, <1>7 DEF Passed
<1>16. \A m : Entries(m)' = Entries(m)
  BY <1>1 DEF Entries
<1>17. \A u : Truthful(c, u) => Truthful(c, u)'
  BY <1>1, <1>12, <1>15, TruthKept DEF Alone
<1>18. ToldInv(c) /\ T = told[c] /\ T2 = told'[c] /\ Len(T) \in Nat /\ Len(asked) \in Nat
  BY <1>0, <1>2, EntryFacts DEF SessionInv
<1>19. \A i \in 1..Len(T) : T[i].type \in {"echo", "error"} /\ T[i].asked \in Nat
  <2>1. \A i \in 1..Len(T) : T[i] \in ToldRecord
    BY <1>2
  <2>2. \A u \in ToldRecord : u.type \in {"echo", "error"} /\ u.asked \in Nat
    BY BoundsAssumption DEF ToldRecord
  <2>. QED  BY <2>1, <2>2
<1>20. ReplyInv(c)'
  BY <1>6, <1>7 DEF ReplyInv
<1>21. /\ \A i \in 1..Len(T) : i \in 1..Len(T2) /\ T2[i] = T[i]
       /\ n = 0 => T2 = T
       /\ n # 0 => Len(T2) = Len(T) + 1 /\ T2[Len(T) + 1] = t
  <2>1. /\ Len(Append(T, t)) = Len(T) + 1 /\ Append(T, t)[Len(T) + 1] = t
        /\ \A i \in 1..Len(T) : i \in 1..Len(Append(T, t)) /\ Append(T, t)[i] = T[i]
    BY <1>2
  <2>. QED  BY <1>10, <2>1
<1>22. error = Head(session[c].reply) /\ n = error.asked
  BY DEF n
<1>. HIDE DEF T, error
<1>23. KeptInv(c)'
  <2>. SUFFICES ASSUME session'[c].status = "running", ~subs'[c].stale,
                       NEW m \in 1..Len(asked'), asked'[m].by = c
                PROVE  Attended(c, m)'
    BY DEF KeptInv
  <2>1. Attended(c, m)
    BY <1>1, <1>2, <1>5, <1>6, <1>7 DEF SessionInv, KeptInv
  <2>2. CASE session[c].reply # <<>> /\ n = m
    <3>1. n # 0
      BY <1>18, <2>2
    <3>2. Len(T) + 1 \in 1..Len(T2) /\ T2[Len(T) + 1].asked = m
      BY <1>9, <1>18, <1>21, <2>2, <3>1
    <3>. QED  BY <1>18, <3>2 DEF Attended
  <2>3. CASE n # m
    BY <1>1, <1>6, <1>7, <1>16, <1>18, <1>21, <1>22, <2>1, <2>3 DEF Attended
  <2>. QED  BY <1>1, <2>2, <2>3
<1>24. ToldInv(c)'
  <2>1. CASE n = 0
    BY <1>17, <1>18, <1>21, <2>1 DEF ToldInv
  <2>2. CASE n # 0
    <3>1. \A i \in 1..Len(T2) : \/ i \in 1..Len(T) /\ T2[i] = T[i]
                                \/ i = Len(T) + 1 /\ T2[i] = t
      BY <1>18, <1>21, <2>2
    <3>2. Answering(c, n)
      BY <1>4, <2>2
    <3>3. Truthful(c, t)
      BY <1>9, <3>2 DEF Truthful, Answering
    <3>4. ASSUME NEW i \in 1..Len(T)
          PROVE  T[i].asked # n /\ T[i].asked <= n
      <4>1. T[i].asked # n
        BY <1>18, <3>2 DEF Answering
      <4>2. T[i].asked \in 1..Len(asked) /\ asked[T[i].asked].by = c
        BY <1>18 DEF ToldInv, Truthful
      <4>3. n \in 1..Len(asked) /\ \A m \in n + 1..Len(asked) : asked[m].by # c
        BY <3>2 DEF Answering
      <4>. QED  BY <1>18, <4>1, <4>2, <4>3
    <3>5. \A i \in 1..Len(T2) : Truthful(c, T2[i])'
      BY <1>17, <1>18, <3>1, <3>3 DEF ToldInv
    <3>6. \A i, j \in 1..Len(T2) : i # j => T2[i].asked # T2[j].asked
      <4>. SUFFICES ASSUME NEW i \in 1..Len(T2), NEW j \in 1..Len(T2), i # j
                    PROVE  T2[i].asked # T2[j].asked
        OBVIOUS
      <4>1. CASE i \in 1..Len(T) /\ T2[i] = T[i] /\ j \in 1..Len(T) /\ T2[j] = T[j]
        BY <1>18, <4>1 DEF ToldInv
      <4>2. CASE i \in 1..Len(T) /\ T2[i] = T[i] /\ T2[j] = t
        BY <1>9, <3>4, <4>2
      <4>3. CASE j \in 1..Len(T) /\ T2[j] = T[j] /\ T2[i] = t
        BY <1>9, <3>4, <4>3
      <4>. QED  BY <3>1, <4>1, <4>2, <4>3
    <3>7. \A i, j \in 1..Len(T2) :
            i < j /\ T2[i].asked > T2[j].asked => T2[i].type = "error" /\ T2[j].type = "echo"
      <4>. SUFFICES ASSUME NEW i \in 1..Len(T2), NEW j \in 1..Len(T2), i < j,
                           T2[i].asked > T2[j].asked
                    PROVE  T2[i].type = "error" /\ T2[j].type = "echo"
        OBVIOUS
      <4>1. i \in 1..Len(T) /\ T2[i] = T[i]
        BY <1>18, <1>21, <2>2, <3>1
      <4>2. CASE j \in 1..Len(T) /\ T2[j] = T[j]
        BY <1>18, <4>1, <4>2 DEF ToldInv
      <4>3. CASE T2[j] = t
        <5>1. T[i].asked <= n /\ T[i].asked > n /\ T[i].asked \in Nat /\ n \in Nat
          BY <1>3, <1>9, <1>19, <1>22, <3>2, <3>4, <4>1, <4>3 DEF Answering
        <5>. QED  BY <5>1
      <4>. QED  BY <3>1, <4>2, <4>3
    <3>. QED  BY <1>18, <3>5, <3>6, <3>7 DEF ToldInv
  <2>. QED  BY <2>1, <2>2
<1>. QED  BY <1>11, <1>12, <1>13, <1>14, <1>20, <1>23, <1>24, AloneInv DEF SessionInv


------------------------------------------------------------------------------
(* The application.                                                         *)

LEMMA DeclareInputsInv ==
  ASSUME OperatorInv, NEW specs \in {NoSpecs, Specs}, DeclareInputs(specs)
  PROVE  OperatorInv'
<1>1. UNCHANGED <<scene, subs, session, asked, causes, told>> /\ declared' = specs
  BY DEF DeclareInputs
<1>2. Types'
  BY <1>1, TypesOK DEF OperatorInv, Types
<1>3. TypeOK'
  BY <1>2 DEF TypeOK, Types, SessionRecord, AskedRecord, ToldRecord, Frame
<1>4. asked \in Seq(AskedRecord)
  BY TypesOK DEF OperatorInv, Types
<1>5. CauseInv'
  BY <1>1 DEF OperatorInv, CauseInv
<1>6. ASSUME NEW d \in Sessions  PROVE SessionInv(d)'
  <2>1. OthersAsk(asked, asked', d)
    BY <1>1, <1>4, OthersAskFacts
  <2>. QED  BY <1>1, <2>1, Undisturbed DEF OperatorInv
<1>. QED  BY <1>3, <1>5, <1>6 DEF OperatorInv

LEMMA EmitInv ==
  ASSUME OperatorInv, NEW patches \in AppPatches, Emit(patches)
  PROVE  OperatorInv'
<1>1. /\ Publish(patches, 0) /\ patches \in Patches /\ 0 \in 0..MaxAsked
      /\ UNCHANGED <<declared, session, asked, told>>
  BY AppPatchesAssumption, BoundsAssumption DEF Emit
<1>2. PICK e, f : Publishes(patches, 0, e, f)
  BY <1>1, PublishFacts DEF OperatorInv
<1>3. /\ scene' \in SceneRecord(Sessions) /\ subs' \in [Sessions -> Pipe(Frame)]
      /\ causes' \in Seq(0..MaxAsked) /\ Len(causes') = Len(scene'.log)
  BY <1>1, PublishFacts DEF OperatorInv
<1>4. Types'
  BY <1>1, <1>3, TypesOK DEF OperatorInv, Types
<1>5. TypeOK'
  BY <1>4 DEF TypeOK, Types, SessionRecord, AskedRecord, ToldRecord, Frame
<1>6. asked \in Seq(AskedRecord) /\ 0 \notin 1..Len(asked)
  BY TypesOK DEF OperatorInv, Types
<1>7. CauseInv'
  <2>1. \A n \in 1..Len(asked) : n \in 1..Len(asked') /\ asked'[n] = asked[n]
    BY <1>1
  <2>. QED  BY <1>2, <2>1, CausesGrow
<1>8. ASSUME NEW d \in Sessions  PROVE SessionInv(d)'
  <2>1. OthersAsk(asked, asked', d)
    BY <1>1, <1>6, OthersAskFacts
  <2>. QED  BY <1>1, <1>2, <1>6, <2>1, PublishOther
<1>. QED  BY <1>5, <1>7, <1>8 DEF OperatorInv

------------------------------------------------------------------------------
(* An Input frame.                                                          *)

InputRecord(c, patches) ==
  [by |-> c, who |-> session[c].who, patches |-> patches, declared |-> declared]

LEMMA InputRecordFacts ==
  ASSUME OperatorInv, NEW c \in Sessions, NEW patches \in PatchLists, Input(c, patches)
  PROVE  /\ InputRecord(c, patches) \in AskedRecord
         /\ InputRecord(c, patches).by = c
         /\ asked' = Append(asked, InputRecord(c, patches))
         /\ asked \in Seq(AskedRecord) /\ asked' \in Seq(AskedRecord)
         /\ Len(asked') = Len(asked) + 1 /\ Len(asked') \in 1..MaxAsked
         /\ Len(asked) \in Nat
<1>1. session[c].status \in {"running", "silent"} /\ Len(asked) < MaxAsked
      /\ asked' = Append(asked, InputRecord(c, patches))
  BY DEF Input, Reads, InputRecord
<1>2. session[c].who \in Identities
  BY <1>1, SessionTypes DEF SessionInv, LifeInv
<1>3. declared \in {NoSpecs, Specs} /\ asked \in Seq(AskedRecord)
  BY TypesOK DEF OperatorInv, Types
<1>4. InputRecord(c, patches) \in AskedRecord /\ InputRecord(c, patches).by = c
  BY <1>2, <1>3 DEF InputRecord, AskedRecord
<1>5. /\ Len(asked) \in Nat /\ Len(Append(asked, InputRecord(c, patches))) = Len(asked) + 1
      /\ Append(asked, InputRecord(c, patches)) \in Seq(AskedRecord)
  BY <1>3, <1>4
<1>6. Len(asked) + 1 \in 1..MaxAsked
  BY <1>1, <1>5, BoundsAssumption
<1>. QED  BY <1>1, <1>3, <1>4, <1>5, <1>6

LEMMA InputAcceptedInv ==
  ASSUME OperatorInv, NEW c \in Sessions, NEW patches \in PatchLists, Input(c, patches),
         Verdict(session[c].who, declared, patches) = Accepted,
         Publish(AsDict(patches), Len(asked')),
         session' = [session EXCEPT ![c].status = AfterFrame(@)]
  PROVE  OperatorInv'
<1>. DEFINE dict == AsDict(patches)
            N == Len(asked)
<1>1. PICK a \in AskedRecord : a = InputRecord(c, patches)
  BY InputRecordFacts
<1>2. /\ a.by = c /\ asked' = Append(asked, a)
      /\ asked \in Seq(AskedRecord) /\ asked' \in Seq(AskedRecord)
      /\ Len(asked') = N + 1 /\ Len(asked') \in 1..MaxAsked /\ N \in Nat
      /\ a.who = session[c].who /\ a.declared = declared /\ a.patches = patches
  BY <1>1, InputRecordFacts DEF InputRecord
<1>3. /\ session[c].status \in {"running", "silent"} /\ session[c].reply = <<>>
      /\ UNCHANGED <<declared, told>>
  BY DEF Input, Reads
<1>4. patches # <<>>
  BY VerdictFacts
<1>5. dict \in Patches
  BY <1>4, AsDictFacts
<1>6. N + 1 \in 0..MaxAsked /\ N + 1 \in Nat /\ N + 1 \notin 1..N /\ N + 1 # 0
  BY <1>2
<1>. HIDE DEF dict
<1>7. Publish(dict, N + 1)
  BY <1>2 DEF dict
<1>8. PICK e, f : Publishes(dict, N + 1, e, f)
  BY <1>5, <1>6, <1>7, PublishFacts DEF OperatorInv
<1>9. /\ scene' \in SceneRecord(Sessions) /\ subs' \in [Sessions -> Pipe(Frame)]
      /\ causes' \in Seq(0..MaxAsked) /\ Len(causes') = Len(scene'.log)
  BY <1>5, <1>6, <1>7, PublishFacts DEF OperatorInv
<1>. DEFINE status == AfterFrame(session[c].status)
            r == [session[c] EXCEPT !.status = status]
<1>10. PICK st \in Statuses : st = status
  BY <1>3 DEF AfterFrame, Statuses
<1>11. PICK s \in SessionRecord : s = session[c]
  BY SessionTypes
<1>12. session' = [session EXCEPT ![c] = r] /\ r = [s EXCEPT !.status = st]
  BY <1>10, <1>11
<1>. HIDE DEF status, r
<1>13. /\ r \in SessionRecord /\ r.status = st /\ r.out = s.out
       /\ r.who = s.who /\ r.reply = s.reply
  BY <1>12 DEF SessionRecord
<1>14. /\ session' \in [Sessions -> SessionRecord] /\ session'[c] = r
       /\ \A d \in Sessions \ {c} : session'[d] = session[d]
  BY <1>12, <1>13, Assigned
<1>15. Types'
  BY <1>2, <1>3, <1>9, <1>14, TypesOK DEF OperatorInv, Types
<1>16. TypeOK'
  BY <1>15 DEF TypeOK, Types, SessionRecord, AskedRecord, ToldRecord, Frame
<1>17. Keeps(asked, asked') /\ asked'[N + 1] = a
  BY <1>2, KeepsFacts
<1>18. CauseInv'
  <2>1. Committed(e, a)
    <3>1. /\ e.wrote = DOMAIN dict
          /\ \A p \in DOMAIN dict : e.state[p] = dict[p]
      BY <1>8 DEF Publishes
    <3>. QED  BY <1>2, <3>1 DEF Committed, dict
  <2>2. N + 1 \in 1..Len(asked')
    BY <1>2
  <2>. QED  BY <1>2, <1>6, <1>8, <1>17, <2>1, <2>2, CausesGrow DEF Keeps
<1>19. ASSUME NEW d \in Sessions \ {c}  PROVE SessionInv(d)'
  <2>1. OthersAsk(asked, asked', d)
    BY <1>2, OthersAskFacts
  <2>. QED  BY <1>3, <1>6, <1>8, <1>14, <2>1, PublishOther
<1>20. SessionInv(c)'
  <2>1. /\ session'[c].status = AfterFrame(session[c].status)
        /\ session'[c].who = session[c].who /\ session'[c].out = session[c].out
        /\ session'[c].reply = <<>> /\ told'[c] = told[c]
    BY <1>3, <1>10, <1>11, <1>13, <1>14 DEF status
  <2>. QED  BY <1>2, <1>3, <1>8, <2>1, PublishOwn
<1>. QED  BY <1>16, <1>18, <1>19, <1>20 DEF OperatorInv

LEMMA InputRefusedInv ==
  ASSUME OperatorInv, NEW c \in Sessions, NEW patches \in PatchLists, Input(c, patches),
         NEW reply \in Seq(ReplyFrame), Len(reply) = 1, Head(reply).asked = Len(asked'),
         session' = [session EXCEPT ![c].reply = reply],
         UNCHANGED <<scene, subs, causes>>
  PROVE  OperatorInv'
<1>. DEFINE N == Len(asked)
<1>1. PICK a \in AskedRecord : a = InputRecord(c, patches)
  BY InputRecordFacts
<1>2. /\ a.by = c /\ asked' = Append(asked, a)
      /\ asked \in Seq(AskedRecord) /\ asked' \in Seq(AskedRecord)
      /\ Len(asked') = N + 1 /\ N \in Nat
  BY <1>1, InputRecordFacts DEF InputRecord
<1>3. Reads(c) /\ UNCHANGED <<declared, told>>
  BY DEF Input
<1>. DEFINE r == [session[c] EXCEPT !.reply = reply]
<1>4. /\ r \in SessionRecord /\ r.reply = reply /\ r.status = session[c].status
      /\ r.who = session[c].who /\ r.out = session[c].out
  BY SessionTypes DEF SessionRecord
<1>5. session' = [session EXCEPT ![c] = r]
  OBVIOUS
<1>. HIDE DEF r
<1>6. /\ session' \in [Sessions -> SessionRecord] /\ session'[c] = r
      /\ \A d \in Sessions \ {c} : session'[d] = session[d]
  BY <1>4, <1>5, Assigned
<1>7. Types'
  BY <1>2, <1>3, <1>6, TypesOK DEF OperatorInv, Types
<1>8. Alone(c)
  BY <1>2, <1>3, <1>6, AloneFacts
<1>9. Keeps(asked, asked') /\ asked'[N + 1] = a
  BY <1>2, KeepsFacts
<1>10. SessionInv(c)
  BY SessionTypes
<1>. HIDE DEF N
<1>11. \A n : n = N + 1 => Answering(c, n)'
  <2>1. Entries(N + 1) = {}
    <3>1. \A k \in 1..Len(causes) : causes[k] # N + 1
      BY <1>2, EntryFacts DEF N
    <3>. QED  BY <3>1 DEF Entries
  <2>2. \A i \in 1..Len(told[c]) : told[c][i].asked # N + 1
    BY <1>2, <1>10 DEF SessionInv, ToldInv, Truthful, N
  <2>3. N + 1 \in 1..Len(asked') /\ asked'[N + 1].by = c
        /\ \A m \in (N + 1) + 1..Len(asked') : asked'[m].by # c
    BY <1>2, <1>9
  <2>4. \A n : Entries(n)' = Entries(n)
    BY DEF Entries
  <2>. QED  BY <1>3, <2>1, <2>2, <2>3, <2>4 DEF Answering
<1>12. SessionInv(c)'
  <2>1. \A m \in 1..Len(asked') : m \in 1..Len(asked) \/ m = N + 1
    BY <1>2 DEF N
  <2>2. N + 1 \in Nat /\ Head(reply).asked = N + 1
    BY <1>2
  <2>3. /\ Len(session'[c].reply) = 1 /\ Head(session'[c].reply).asked = N + 1
        /\ session'[c].status = session[c].status /\ session'[c].who = session[c].who
        /\ session'[c].out = session[c].out
    BY <1>4, <1>6, <2>2
  <2>4. told'[c] = told[c] /\ subs'[c] = subs[c] /\ scene'.subs = scene.subs
    BY <1>3
  <2>5. PICK n \in Nat : n = N + 1
    BY <2>2
  <2>6. Answering(c, n)'
    BY <1>11, <2>5
  <2>. QED  BY <1>3, <1>9, <2>1, <2>3, <2>4, <2>5, <2>6, ReplyingInv
<1>. QED  BY <1>7, <1>8, <1>12, AloneInv

LEMMA InputRaisesInv ==
  ASSUME OperatorInv, NEW c \in Sessions, NEW patches \in PatchLists, Input(c, patches),
         session' = [session EXCEPT ![c].status = AfterReader(@)],
         UNCHANGED <<scene, subs, causes>>
  PROVE  OperatorInv'
<1>1. PICK a \in AskedRecord : a = InputRecord(c, patches)
  BY InputRecordFacts
<1>2. /\ a.by = c /\ asked' = Append(asked, a)
      /\ asked \in Seq(AskedRecord) /\ asked' \in Seq(AskedRecord)
  BY <1>1, InputRecordFacts
<1>3. /\ session[c].status \in {"running", "silent"} /\ session[c].reply = <<>>
      /\ UNCHANGED <<declared, told>>
  BY DEF Input, Reads
<1>. DEFINE r == [session[c] EXCEPT !.status = AfterReader(@)]
<1>4. /\ r \in SessionRecord /\ r.status = AfterReader(session[c].status)
      /\ r.out = session[c].out /\ r.who = session[c].who /\ r.reply = session[c].reply
  BY SessionTypes DEF SessionRecord, AfterReader, Statuses
<1>5. session' = [session EXCEPT ![c] = r]
  OBVIOUS
<1>. HIDE DEF r
<1>6. /\ session' \in [Sessions -> SessionRecord] /\ session'[c] = r
      /\ \A d \in Sessions \ {c} : session'[d] = session[d]
  BY <1>4, <1>5, Assigned
<1>7. Types'
  BY <1>2, <1>3, <1>6, TypesOK DEF OperatorInv, Types
<1>8. Alone(c)
  BY <1>2, <1>3, <1>6, AloneFacts
<1>9. Keeps(asked, asked')
  BY <1>2, KeepsFacts
<1>10. SessionInv(c)'
  BY <1>3, <1>4, <1>6, <1>9, QuietInv DEF AfterReader
<1>. QED  BY <1>7, <1>8, <1>10, AloneInv

LEMMA InputInv ==
  ASSUME OperatorInv, NEW c \in Sessions, NEW patches \in PatchLists, Input(c, patches)
  PROVE  OperatorInv'
<1>. DEFINE v == Verdict(session[c].who, declared, patches)
<1>1. \/ /\ v = Accepted
         /\ Publish(AsDict(patches), Len(asked'))
         /\ session' = [session EXCEPT ![c].status = AfterFrame(@)]
      \/ /\ v.code \in Refusals
         /\ session' = [session EXCEPT
               ![c].reply = ErrorFrame(v.code, v.path, TRUE, Len(asked'), FALSE)]
         /\ UNCHANGED <<scene, subs, causes>>
      \/ /\ session' = [session EXCEPT ![c].status = AfterReader(@)]
         /\ UNCHANGED <<scene, subs, causes>>
  BY DEF Input
<1>2. CASE /\ v = Accepted
           /\ Publish(AsDict(patches), Len(asked'))
           /\ session' = [session EXCEPT ![c].status = AfterFrame(@)]
  BY <1>2, InputAcceptedInv
<1>3. CASE /\ v.code \in Refusals
           /\ session' = [session EXCEPT
                 ![c].reply = ErrorFrame(v.code, v.path, TRUE, Len(asked'), FALSE)]
           /\ UNCHANGED <<scene, subs, causes>>
  <2>. DEFINE reply == ErrorFrame(v.code, v.path, TRUE, Len(asked'), FALSE)
  <2>1. v.path \in Paths \cup {NoPath}
    BY VerdictFacts
  <2>2. Len(asked') \in 0..MaxAsked
    BY InputRecordFacts
  <2>. HIDE DEF v
  <2>3. reply \in Seq(ReplyFrame) /\ Len(reply) = 1 /\ Head(reply).asked = Len(asked')
    <3>1. v.code \in Refusals \cup {"VERSION_MISMATCH", "INTERNAL"}
      BY <1>3
    <3>2. TRUE \in BOOLEAN /\ FALSE \in BOOLEAN
      OBVIOUS
    <3>. QED  BY <2>1, <2>2, <3>1, <3>2, ErrorFrameType, Zenon
  <2>4. session' = [session EXCEPT ![c].reply = reply]
    BY <1>3
  <2>. HIDE DEF reply
  <2>. QED  BY <1>3, <2>3, <2>4, InputRefusedInv
<1>4. CASE /\ session' = [session EXCEPT ![c].status = AfterReader(@)]
           /\ UNCHANGED <<scene, subs, causes>>
  BY <1>4, InputRaisesInv
<1>. QED  BY <1>1, <1>2, <1>3, <1>4


------------------------------------------------------------------------------
(* The theorems.                                                            *)

LEMMA NextInv == ASSUME OperatorInv, [Next]_vars PROVE OperatorInv'
<1>1. CASE \E specs \in {NoSpecs, Specs} : DeclareInputs(specs)
  BY <1>1, DeclareInputsInv
<1>2. CASE \E patches \in AppPatches : Emit(patches)
  BY <1>2, EmitInv
<1>3. ASSUME NEW c \in Sessions,
             \/ \E identity \in Identities : Connect(c, identity)
             \/ WriterGet(c) \/ Receive(c) \/ SendFails(c) \/ PingOut(c) \/ Finish(c)
             \/ \E patches \in PatchLists : Input(c, patches)
             \/ Resubscribe(c) \/ Misframed(c) \/ Replied(c) \/ ReaderEnds(c)
      PROVE  OperatorInv'
  <2>1. CASE \E identity \in Identities : Connect(c, identity)
    BY <2>1, ConnectInv
  <2>2. CASE WriterGet(c)
    BY <2>2, WriterGetInv
  <2>3. CASE Receive(c)
    BY <2>3, ReceiveInv
  <2>4. CASE SendFails(c)
    BY <2>4, SendFailsInv
  <2>5. CASE PingOut(c)
    BY <2>5, PingOutInv
  <2>6. CASE Finish(c)
    BY <2>6, FinishInv
  <2>7. CASE \E patches \in PatchLists : Input(c, patches)
    BY <2>7, InputInv
  <2>8. CASE Resubscribe(c)
    BY <2>8, ResubscribeInv
  <2>9. CASE Misframed(c)
    BY <2>9, MisframedInv
  <2>10. CASE Replied(c)
    BY <2>10, RepliedInv
  <2>11. CASE ReaderEnds(c)
    BY <2>11, ReaderEndsInv
  <2>. QED  BY <1>3, <2>1, <2>2, <2>3, <2>4, <2>5, <2>6, <2>7, <2>8, <2>9, <2>10, <2>11
<1>4. CASE UNCHANGED vars
  <2>1. UNCHANGED <<scene, declared, subs, session, asked, causes, told>>
    BY <1>4 DEF vars
  <2>2. Types'
    BY <2>1, TypesOK DEF OperatorInv, Types
  <2>3. TypeOK'
    BY <2>2 DEF TypeOK, Types, SessionRecord, AskedRecord, ToldRecord, Frame
  <2>4. asked \in Seq(AskedRecord)
    BY TypesOK DEF OperatorInv, Types
  <2>5. CauseInv'
    BY <2>1 DEF OperatorInv, CauseInv
  <2>6. ASSUME NEW d \in Sessions  PROVE SessionInv(d)'
    <3>1. OthersAsk(asked, asked', d)
      BY <2>1, <2>4, OthersAskFacts
    <3>. QED  BY <2>1, <3>1, Undisturbed DEF OperatorInv
  <2>. QED  BY <2>3, <2>5, <2>6 DEF OperatorInv
<1>. QED  BY <1>1, <1>2, <1>3, <1>4 DEF Next

(* The invariant of the readers, the writers and the scene they share.      *)
THEOREM OperatorInvariance == Spec => []OperatorInv
<1>1. Init => OperatorInv
  BY InitInv
<1>2. OperatorInv /\ [Next]_vars => OperatorInv'
  BY NextInv
<1>. QED  BY <1>1, <1>2, PTL DEF Spec

(* Every variable holds what the code's annotations say it holds.           *)
THEOREM OperatorTypes == Spec => []TypeOK
<1>1. OperatorInv => TypeOK
  BY DEF OperatorInv
<1>. QED  BY <1>1, OperatorInvariance, PTL

LEMMA EntriesOnce ==
  ASSUME OperatorInv, NEW n \in 1..Len(asked)
  PROVE  Cardinality(Entries(n)) <= 1
<1>1. n \in Nat \ {0}
  BY EntryFacts
<1>2. \A k, l \in Entries(n) : k = l
  <2>. SUFFICES ASSUME NEW k \in Entries(n), NEW l \in Entries(n), k # l  PROVE FALSE
    OBVIOUS
  <2>1. k \in Nat /\ l \in Nat
    BY EntryFacts
  <2>2. CASE k < l
    BY <1>1, <2>2, EntryFacts
  <2>3. CASE l < k
    BY <1>1, <2>3, EntryFacts
  <2>. QED  BY <2>1, <2>2, <2>3
<1>3. CASE Entries(n) = {}
  BY <1>3, FS_EmptySet
<1>4. CASE Entries(n) # {}
  <2>1. PICK k \in Entries(n) : TRUE
    BY <1>4
  <2>2. Entries(n) = {k}
    BY <1>2, <2>1
  <2>3. Cardinality({k}) = 1
    BY FS_Singleton
  <2>. QED  BY <2>2, <2>3
<1>. QED  BY <1>3, <1>4

LEMMA AskedFacts ==
  ASSUME OperatorInv, NEW n \in 1..Len(asked)
  PROVE  /\ asked[n] \in AskedRecord
         /\ asked[n].by \in Sessions /\ asked[n].who \in Identities
         /\ asked[n].patches \in PatchLists /\ asked[n].declared \in {NoSpecs, Specs}
<1>1. asked \in Seq(AskedRecord)
  BY TypesOK DEF OperatorInv, Types
<1>2. asked[n] \in AskedRecord
  BY <1>1
<1>. QED  BY <1>2 DEF AskedRecord

(* What stands in the log of an accepted frame.                             *)
LEMMA CommittedFacts ==
  ASSUME OperatorInv, NEW n \in 1..Len(asked), NEW k \in Entries(n)
  PROVE  /\ k \in 1..Len(causes) /\ causes[k] = n
         /\ Committed(scene.log[k], asked[n])
         /\ asked[n].patches # <<>>
         /\ scene.log[k].wrote = DOMAIN AsDict(asked[n].patches)
         /\ \A i \in 1..Len(asked[n].patches) :
              PatchVerdict(asked[n].who, asked[n].declared, asked[n].patches[i]) = "OK"
<1>1. k \in 1..Len(causes) /\ causes[k] = n /\ n # 0
  BY EntryFacts
<1>2. Committed(scene.log[k], asked[n])
  BY <1>1 DEF OperatorInv, CauseInv
<1>3. asked[n].patches \in PatchLists
  BY AskedFacts
<1>. QED  BY <1>1, <1>2, <1>3, VerdictFacts DEF Committed

(* The frame behind an entry, and the entry.                                *)
Applies(entry, patches) ==
  /\ \A i \in 1..Len(patches) : patches[i].path \in entry.wrote
  /\ \A p \in entry.wrote :
       \E i \in 1..Len(patches) :
         /\ patches[i] = [path |-> p, value |-> entry.state[p]]
         /\ \A j \in i + 1..Len(patches) : patches[j].path # p

(* apply_input is atomic, for any number of operators, any frames and any   *)
(* interleaving of their readers and writers.                               *)
THEOREM AllOrNothingHolds == Spec => []AllOrNothing
<1>1. OperatorInv => AllOrNothing
  <2>. SUFFICES ASSUME OperatorInv, NEW n \in 1..Len(asked)
                PROVE  /\ Cardinality(Entries(n)) <= 1
                       /\ Refused(n) => Entries(n) = {}
                       /\ \A k \in Entries(n) : Applies(scene.log[k], asked[n].patches)
    BY DEF AllOrNothing, Applies
  <2>1. Cardinality(Entries(n)) <= 1
    BY EntriesOnce
  <2>2. Refused(n) => Entries(n) = {}
    <3>. DEFINE d == asked[n].by
    <3>1. d \in Sessions /\ n # 0
      BY AskedFacts
    <3>2. SessionInv(d)
      BY <3>1 DEF OperatorInv
    <3>. HIDE DEF d
    <3>3. CASE \E i \in 1..Len(told[d]) : told[d][i].asked = n /\ told[d][i].type = "error"
      BY <3>2, <3>3 DEF SessionInv, ToldInv, Truthful
    <3>4. CASE session[d].reply # <<>> /\ Head(session[d].reply).asked = n
      BY <3>1, <3>2, <3>4 DEF SessionInv, ReplyInv, Answering
    <3>. QED  BY <3>3, <3>4 DEF Refused, Answers, d
  <2>3. ASSUME NEW k \in Entries(n)
        PROVE  Applies(scene.log[k], asked[n].patches)
    <3>1. PICK patches \in PatchLists : patches = asked[n].patches
      BY AskedFacts
    <3>2. /\ patches # <<>> /\ scene.log[k].wrote = DOMAIN AsDict(patches)
          /\ \A p \in DOMAIN AsDict(patches) : scene.log[k].state[p] = AsDict(patches)[p]
      BY <3>1, CommittedFacts DEF Committed
    <3>3. \A i \in 1..Len(patches) : patches[i].path \in DOMAIN AsDict(patches)
      BY <3>2, AsDictFacts
    <3>4. \A p \in DOMAIN AsDict(patches) : \E i \in 1..Len(patches) :
            /\ patches[i].path = p /\ patches[i].value = AsDict(patches)[p]
            /\ \A j \in i + 1..Len(patches) : patches[j].path # p
      BY <3>2, AsDictFacts
    <3>5. \A i \in 1..Len(patches) :
            patches[i] = [path |-> patches[i].path, value |-> patches[i].value]
      <4>1. \A i \in 1..Len(patches) : patches[i] \in Patch
        BY PatchListFacts
      <4>2. \A x \in Patch : x = [path |-> x.path, value |-> x.value]
        BY DEF Patch
      <4>. QED  BY <4>1, <4>2
    <3>6. PICK entry : entry = scene.log[k]
      OBVIOUS
    <3>7. ASSUME NEW p \in entry.wrote
          PROVE  \E i \in 1..Len(patches) :
                   /\ patches[i] = [path |-> p, value |-> entry.state[p]]
                   /\ \A j \in i + 1..Len(patches) : patches[j].path # p
      <4>1. p \in DOMAIN AsDict(patches) /\ entry.state[p] = AsDict(patches)[p]
        BY <3>2, <3>6
      <4>2. PICK i \in 1..Len(patches) :
              /\ patches[i].path = p /\ patches[i].value = AsDict(patches)[p]
              /\ \A j \in i + 1..Len(patches) : patches[j].path # p
        BY <3>4, <4>1
      <4>3. patches[i] = [path |-> p, value |-> entry.state[p]]
        BY <3>5, <4>1, <4>2
      <4>. QED  BY <4>2, <4>3
    <3>8. \A i \in 1..Len(patches) : patches[i].path \in entry.wrote
      BY <3>2, <3>3, <3>6
    <3>9. Applies(entry, patches)
      BY <3>7, <3>8 DEF Applies
    <3>. QED  BY <3>1, <3>6, <3>9
  <2>. QED  BY <2>1, <2>2, <2>3
<1>. QED  BY <1>1, OperatorInvariance, PTL

(* What the frame a may leave in an entry.                                  *)
Permitted(a, entry) ==
  \A p \in entry.wrote :
    /\ p \in Territory(a.who)
    /\ a.who.role = "test" \/ a.declared = NoSpecs \/ p \in DOMAIN a.declared
    /\ p \in DOMAIN a.declared => Meets(a.declared[p], entry.state[p])

(* No Input frame reaches past its sender's leaves, past what the scene     *)
(* declares or past the bounds declared, whatever the identities.           *)
THEOREM ConfinedHolds == Spec => []Confined
<1>1. OperatorInv => Confined
  <2>. SUFFICES ASSUME OperatorInv, NEW k \in 1..Len(causes), causes[k] # 0
                PROVE  Permitted(asked[causes[k]], scene.log[k])
    BY DEF Confined, Permitted
  <2>1. PICK n \in 1..Len(asked) : n = causes[k] /\ k \in Entries(n)
    BY EntryFacts
  <2>2. PICK a : a = asked[n]
    OBVIOUS
  <2>3. /\ a.who \in Identities /\ a.patches \in PatchLists /\ a.declared \in {NoSpecs, Specs}
    BY <2>2, AskedFacts
  <2>4. /\ a.patches # <<>> /\ scene.log[k].wrote = DOMAIN AsDict(a.patches)
        /\ \A p \in DOMAIN AsDict(a.patches) : scene.log[k].state[p] = AsDict(a.patches)[p]
        /\ \A i \in 1..Len(a.patches) : PatchVerdict(a.who, a.declared, a.patches[i]) = "OK"
    BY <2>1, <2>2, CommittedFacts DEF Committed
  <2>5. ASSUME NEW p \in DOMAIN AsDict(a.patches)
        PROVE  /\ p \in Territory(a.who)
               /\ a.who.role = "test" \/ a.declared = NoSpecs \/ p \in DOMAIN a.declared
               /\ p \in DOMAIN a.declared => Meets(a.declared[p], AsDict(a.patches)[p])
    <3>1. PICK i \in 1..Len(a.patches) :
            a.patches[i].path = p /\ AsDict(a.patches)[p] = a.patches[i].value
      <4>1. PICK patches \in PatchLists : patches = a.patches /\ patches # <<>>
        BY <2>3, <2>4
      <4>2. \A q \in DOMAIN AsDict(patches) : \E i \in 1..Len(patches) :
              /\ patches[i].path = q /\ AsDict(patches)[q] = patches[i].value
              /\ \A j \in i + 1..Len(patches) : patches[j].path # q
        <5>1. patches # <<>>
          BY <4>1
        <5>. QED  BY <5>1, AsDictFacts
      <4>. QED  BY <4>1, <4>2
    <3>2. p \in Paths
      BY <2>3, <3>1, PatchListFacts
    <3>3. /\ CanWrite(a.who, p)
          /\ Accepts(a.declared, a.who.role, p)
          /\ p \in DOMAIN a.declared => Meets(a.declared[p], AsDict(a.patches)[p])
      BY <2>4, <3>1, PatchVerdictOK
    <3>4. p \in Territory(a.who)
      BY <2>3, <3>2, <3>3, WritesItsOwn
    <3>5. a.who.role = "test" \/ a.declared = NoSpecs \/ p \in DOMAIN a.declared
      BY <2>3, <3>2, <3>3, AcceptsDeclared
    <3>. QED  BY <3>3, <3>4, <3>5
  <2>. QED  BY <2>1, <2>2, <2>4, <2>5 DEF Permitted
<1>. QED  BY <1>1, OperatorInvariance, PTL

(* Nobody who keeps up is left without an answer, or gets two.              *)
THEOREM AnsweredOnceHolds == Spec => []AnsweredOnce
<1>1. OperatorInv => AnsweredOnce
  <2>. SUFFICES ASSUME OperatorInv, NEW c \in Sessions,
                       session[c].status = "running", session[c].out = <<>>,
                       session[c].reply = <<>>, subs[c].queue = <<>>, ~subs[c].stale,
                       NEW n \in 1..Len(asked), asked[n].by = c
                PROVE  Cardinality(Answers(n)) = 1
    BY DEF AnsweredOnce
  <2>1. KeptInv(c) /\ ToldInv(c)
    BY DEF OperatorInv, SessionInv
  <2>2. Attended(c, n)
    BY <2>1 DEF KeptInv
  <2>3. Len(session[c].out) = 0 /\ Len(subs[c].queue) = 0
    OBVIOUS
  <2>4. PICK i \in 1..Len(told[c]) : told[c][i].asked = n
    BY <2>2, <2>3 DEF Attended
  <2>5. \A j \in 1..Len(told[c]) : told[c][j].asked = n => j = i
    BY <2>1, <2>4 DEF ToldInv
  <2>6. Answers(n) = {i}
    BY <2>4, <2>5 DEF Answers
  <2>. QED  BY <2>6, FS_Singleton
<1>. QED  BY <1>1, OperatorInvariance, PTL

(* Only an error answers out of turn, and only before an echo.              *)
THEOREM OnlyErrorsOvertakeHolds == Spec => []OnlyErrorsOvertake
<1>1. OperatorInv => OnlyErrorsOvertake
  BY DEF OperatorInv, SessionInv, ToldInv, OnlyErrorsOvertake
<1>. QED  BY <1>1, OperatorInvariance, PTL

==============================================================================
