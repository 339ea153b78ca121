--------------------------------- MODULE Match ---------------------------------
(****************************************************************************)
(* conformance/match.py and placeholders.py: a template of a scenario is    *)
(* filled in, then compared with a frame.  Both are JSON values.            *)
(****************************************************************************)
EXTENDS Codec

CONSTANT Hashes         \* the strings that look like a sha256; HashInlineBundle makes others

RECURSIVE Substitute(_, _), Matches(_, _), Places(_)

(* table   the placeholders that are known, tokens and bundle hashes, with  *)
(*         the strings they stand for; any other stands for itself          *)
Substitute(j, table) ==
  CASE j.is = "str"    -> Get(table, j, j)
    [] j.is = "object" -> Obj([k \in DOMAIN j.fields |-> Substitute(j.fields[k], table)])
    [] j.is = "list"   -> List([i \in DOMAIN j.items |-> Substitute(j.items[i], table)])
    [] OTHER           -> j

SentinelAny == Str("$ANY")
SentinelAnyHash == Str("$ANY_HASH")

IsHash(j) == j.is = "hash" \/ (j.is = "str" /\ j.s \in Hashes)

(* Numbers are compared as floats.                                          *)
NumberOf(j) == IF j.is = "int" THEN Real(j.n, TRUE) ELSE j

EqualScalar(want, got) ==
  IF Number(want) /\ Number(got) THEN NumberOf(want) = NumberOf(got) ELSE want = got

ZipMatches(want, got) ==        \* a mistake to be caught: as far as the shorter list goes
  CASE want = SentinelAny         -> TRUE
    [] want = SentinelAnyHash     -> IsHash(got)
    [] want.is = "object" -> /\ got.is = "object"
                             /\ DOMAIN want.fields \subseteq DOMAIN got.fields
                             /\ \A k \in DOMAIN want.fields : Matches(want.fields[k], got.fields[k])
    [] want.is = "list"   -> /\ got.is = "list"
                             /\ \A i \in DOMAIN want.items \cap DOMAIN got.items :
                                  Matches(want.items[i], got.items[i])
    [] OTHER              -> EqualScalar(want, got)

(* What got has beyond a mapping's keys is tolerated, beyond a list's items *)
(* it is not.                                                               *)
Matches(want, got) ==
  CASE want = SentinelAny         -> TRUE
    [] want = SentinelAnyHash     -> IsHash(got)
    [] want.is = "object" -> /\ got.is = "object"
                             /\ DOMAIN want.fields \subseteq DOMAIN got.fields
                             /\ \A k \in DOMAIN want.fields : Matches(want.fields[k], got.fields[k])
    [] want.is = "list"   -> /\ got.is = "list"
                             /\ Len(got.items) = Len(want.items)
                             /\ \A i \in DOMAIN want.items : Matches(want.items[i], got.items[i])
    [] OTHER              -> EqualScalar(want, got)

------------------------------------------------------------------------------
(* The reference: a value is the set of its places, each with what is at    *)
(* it, and a template asks of each of its places that the value has it.     *)

Inside(key, places) == {[at |-> <<key>> \o p.at, here |-> p.here] : p \in places}

Place(here) == [at |-> <<>>, here |-> here]

Places(j) ==
  CASE j.is = "object" ->
         {Place(Obj(<<>>))} \cup UNION {Inside([key |-> k], Places(j.fields[k])) : k \in DOMAIN j.fields}
    [] j.is = "list" ->
         {Place([is |-> "list", length |-> Len(j.items)])}
           \cup UNION {Inside([item |-> i], Places(j.items[i])) : i \in DOMAIN j.items}
    [] j.is = "int" -> {Place(Real(j.n, TRUE))}
    [] OTHER -> {Place(j)}

Fits(want, got) ==
  \A w \in Places(want) : \E g \in Places(got) :
    /\ g.at = w.at
    /\ \/ w.here \in {SentinelAny, g.here}
       \/ w.here = SentinelAnyHash /\ IsHash(g.here)

==============================================================================
