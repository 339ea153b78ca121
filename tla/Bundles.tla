-------------------------------- MODULE Bundles --------------------------------
(****************************************************************************)
(* What is read out of an inline LSML bundle: its content hash, by          *)
(* lsml/hash.py for a scenario of conformance/scenario.py, and the operator *)
(* inputs it declares, by parse_inline_specs of server/input.py.            *)
(*                                                                          *)
(* A bundle is a JSON value of the codec, with the decimals of Numerals.    *)
(****************************************************************************)
EXTENDS Numerals

CONSTANT NoLimit        \* an absent maxLength, min or max

RECURSIVE Canonical(_), Contents(_)

------------------------------------------------------------------------------
(* Canonical JSON.                                                          *)

(* Keys are sorted: an object is a function here and has no order.          *)
Canonical(j) ==
  CASE j.is \in {"int", "float", "decimal"} -> FormatNumber(j)
    [] j.is = "list"   -> List([i \in DOMAIN j.items |-> Canonical(j.items[i])])
    [] j.is = "object" -> Obj([k \in DOMAIN j.fields |-> Canonical(j.fields[k])])
    [] OTHER           -> j

ReplaceSceneVersion(bundle) ==
  IF "scene_version" \in DOMAIN bundle.fields
    THEN [bundle EXCEPT !.fields["scene_version"] = Null]
    ELSE bundle

(* SHA-256 takes no two texts to one value.                                 *)
HashInlineBundle(bundle) == [is |-> "hash", of |-> Canonical(ReplaceSceneVersion(bundle))]

FieldsOf(j) == IF j.is = "object" THEN j.fields ELSE <<>>
ItemsOf(j) == IF j.is = "list" THEN j.items ELSE <<>>

(* The objects of a list that have what they are known by.                  *)
Known(j, key) ==
  SelectSeq(ItemsOf(j), LAMBDA o : o.is = "object" /\ Get(FieldsOf(o), key, Str("")) # Str(""))

(* The bundles a scenario declares.  An empty one has no hash.              *)
ParseBundles(raw) ==
  LET known == Known(raw, "id")
      inline(i) == Obj(FieldsOf(Get(known[i].fields, "inline", Null)))
  IN  [i \in DOMAIN known |->
         [id |-> TextOf(known[i].fields["id"]).s, inline |-> inline(i),
          hash |-> IF Falsy(inline(i)) THEN Str("") ELSE HashInlineBundle(inline(i))]]

------------------------------------------------------------------------------
(* Operator inputs.                                                         *)

(* Twice the size of a number, which is then whole.                         *)
Halves(j) == IF j.is = "float" /\ ~j.whole THEN 2 * j.n + 1 ELSE 2 * j.n

(* A value as InputRules has it.                                            *)
Typed(j) ==
  CASE j.is = "str"  -> [kind |-> "string", n |-> Len(j.s), s |-> j.s]
    [] Number(j)   -> [kind |-> "number", n |-> Halves(j)]
    [] j.is = "bool" -> [kind |-> "boolean", n |-> 0]
    [] OTHER         -> [kind |-> "other", n |-> 0]

Texts(items) == {Typed(TextOf(items[i])) : i \in DOMAIN items}

FlatSpec(o) ==      \* a mistake to be caught: the constraints beside the path
  LET Limit(key, Read(_)) == IF Number(Get(o, key, Null)) THEN Read(o[key]) ELSE NoLimit
  IN  [type      |-> TextOf(Get(o, "type", Str(""))).s,
       maxLength |-> Limit("maxLength", LAMBDA j : j.n),
       min       |-> Limit("min", Halves),
       max       |-> Limit("max", Halves),
       values    |-> Texts(ItemsOf(Get(o, "values", Null)))]

(* Limits are read from the nested constraints only, the domain of an enum  *)
(* from either place.                                                       *)
SpecOf(o) ==
  LET nested == FieldsOf(Get(o, "constraints", Null))
      Limit(key, Read(_)) == IF Number(Get(nested, key, Null)) THEN Read(nested[key]) ELSE NoLimit
      Values(fields) == Texts(ItemsOf(Get(fields, "values", Null)))
  IN  [type      |-> TextOf(Get(o, "type", Str(""))).s,
       maxLength |-> Limit("maxLength", LAMBDA j : j.n),
       min       |-> Limit("min", Halves),
       max       |-> Limit("max", Halves),
       values    |-> IF Values(nested) # {} THEN Values(nested) ELSE Values(o)]

(* The inputs by path, of which the last declaration counts.                *)
ParseInlineSpecs(operatorInputs) ==
  LET items == Known(operatorInputs, "path")
      PathOf(i) == TextOf(items[i].fields["path"]).s
  IN  [p \in {PathOf(i) : i \in DOMAIN items} |->
         SpecOf(items[CHOOSE i \in DOMAIN items :
                        PathOf(i) = p /\ \A j \in DOMAIN items : PathOf(j) = p => j <= i].fields)]

------------------------------------------------------------------------------
(* The reference: what a document says.                                     *)

Contents(j) ==
  CASE j.is \in {"int", "float", "decimal"} -> DecimalSays(Float(j))
    [] j.is = "numeral" -> NumeralSays(j)
    [] j.is = "list"   -> List([i \in DOMAIN j.items |-> Contents(j.items[i])])
    [] j.is = "object" -> Obj([k \in DOMAIN j.fields |-> Contents(j.fields[k])])
    [] OTHER           -> j

==============================================================================
