-------------------------------- MODULE Mirror --------------------------------
(****************************************************************************)
(* What the stream of a scene promises, without queues, rings, numbers or   *)
(* connections: every reader holds a copy of the store and moves it forward *)
(* through the versions the store has had.                                  *)
(*                                                                          *)
(* A version is announced (an emission) or silent (a set or a reset).  A    *)
(* reader jumps to a version and has all of it, or follows: it takes the    *)
(* next announced version, no announced one between left out, and is then   *)
(* in doubt about what silent versions changed in between.                  *)
(****************************************************************************)
EXTENDS Naturals, Sequences

CONSTANTS Readers, Paths, Values, NoValue

VARIABLES versions,     \* sequence of [announced, wrote, state]
          copies        \* [Readers -> [state, at, doubt]]

vars == <<versions, copies>>

States == [Paths -> Values \cup {NoValue}]

Empty == [p \in Paths |-> NoValue]

Init ==
  /\ versions = <<[announced |-> FALSE, wrote |-> {}, state |-> Empty]>>
  /\ copies = [r \in Readers |-> [state |-> Empty, at |-> 0, doubt |-> {}]]

Version == [announced : BOOLEAN, wrote : SUBSET Paths, state : States]

(* A change of the store, which touches no leaf but those it writes.        *)
Change ==
  /\ Len(versions') = Len(versions) + 1
  /\ LET old == versions[Len(versions)]
         new == versions'[Len(versions')]
     IN  /\ new \in Version
         /\ \A p \in Paths \ new.wrote : new.state[p] = old.state[p]
         /\ versions' = Append(versions, new)
  /\ UNCHANGED copies

Jump(r) ==
  \E k \in copies[r].at..Len(versions) :
    /\ k > 0
    /\ copies' = [copies EXCEPT ![r] = [state |-> versions[k].state, at |-> k, doubt |-> {}]]
    /\ UNCHANGED versions

Between(i, k) == i + 1..k - 1

Follow(r) ==
  \E k \in copies[r].at + 1..Len(versions) :
    /\ copies[r].at > 0
    /\ versions[k].announced
    /\ \A j \in Between(copies[r].at, k) : ~versions[j].announced
    /\ copies' = [copies EXCEPT ![r] =
         [state |-> [p \in Paths |-> IF p \in versions[k].wrote THEN versions[k].state[p]
                                                                ELSE @.state[p]],
          at    |-> k,
          doubt |-> (@.doubt \cup UNION {versions[j].wrote : j \in Between(@.at, k)})
                       \ versions[k].wrote]]
    /\ UNCHANGED versions

Next == Change \/ \E r \in Readers : Jump(r) \/ Follow(r)

Spec == Init /\ [][Next]_vars

==============================================================================
