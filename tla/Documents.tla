-------------------------------- MODULE Documents --------------------------------
(****************************************************************************)
(* _flatten of server/adapters/http_poll.py, on the documents of Adapters.  *)
(* A key is the sequence of its segments, since one with a dot in it is not *)
(* told from a path.                                                        *)
(*                                                                          *)
(* _flatten calls itself.  What is here is one call of it, with the calls   *)
(* that it makes and what it does with what they return: MCAdapters ties    *)
(* the knot for TLC, DocumentProofs assumes it tied.                        *)
(****************************************************************************)
EXTENDS Codec

FX == INSTANCE FiniteSetsExt

Dict(items) == [is |-> "dict", items |-> items]

Single(key, value) == [p \in {key} |-> value]

(* A dict updated with each of `parts` in turn: what comes later wins.      *)
Updated(parts) ==
  LET Having(p) == {i \in DOMAIN parts : p \in DOMAIN parts[i]}
  IN  [p \in UNION {DOMAIN parts[i] : i \in DOMAIN parts} |-> parts[FX!Max(Having(p))][p]]

Place(at) == IF at = <<>> THEN <<"value">> ELSE at

KeyAlone(prefix, key) == key    \* a mistake to be caught: the prefix is lost

KeyOf(prefix, key) == prefix \o key

(* The calls that a call makes; a value that is no dict goes to its key as  *)
(* in a call for it.                                                        *)
Calls(value, prefix) ==
  IF value.is # "dict" THEN <<>>
  ELSE [i \in DOMAIN value.items |->
          [value |-> value.items[i].value, prefix |-> KeyOf(prefix, value.items[i].key)]]

(* What it returns, when its calls have returned `found`.                   *)
FlattenWith(found, value, prefix) ==
  IF value.is # "dict" THEN Single(Place(prefix), value) ELSE Updated(found)

(* The reference: the leaves of a document, with what `leaves` finds below. *)
LeavesWith(leaves(_, _), value, at) ==
  IF value.is # "dict" THEN {[at |-> Place(at), value |-> value]}
  ELSE UNION {leaves(value.items[i].value, at \o value.items[i].key) : i \in DOMAIN value.items}

================================================================================
