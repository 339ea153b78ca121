------------------------------ MODULE InputRules ------------------------------
(****************************************************************************)
(* Who may write which leaf, and what: server/role.py, server/input.py,     *)
(* Identity of server/auth.py and the validation of Scene.apply_input.      *)
(*                                                                          *)
(* A path is the sequence of its segments (the string split at its dots),   *)
(* so that `startswith(prefix + ".")` is a proper prefix.  A value is       *)
(*   kind  "string", "number", "nan", "huge" (an int float() cannot hold),  *)
(*         "boolean" or "other"                                             *)
(*   n     the length of a string, the size of a number; else of no meaning *)
(* and a patch list, as decoded, is a sequence of [path, value].            *)
(****************************************************************************)
EXTENDS Integers, Sequences

CONSTANTS NoLimit,      \* an absent max_length, min_value or max_value
          NoPath        \* an error frame without path

Numeric == {"number", "nan", "huge"}

------------------------------------------------------------------------------
(* Paths and write patterns.                                                *)

HasPrefix(path, prefix) ==
  Len(prefix) <= Len(path) /\ SubSeq(path, 1, Len(prefix)) = prefix

Under(path, namespace) == HasPrefix(path, <<namespace>>)

(* ".*" stands for the subtree with its root; any other pattern, with a     *)
(* star or without, is compared as it is.                                   *)
PatternMatches(pattern, path) ==
  IF Len(pattern) > 1 /\ pattern[Len(pattern)] = "*"
    THEN HasPrefix(path, SubSeq(pattern, 1, Len(pattern) - 1))
    ELSE HasPrefix(path, pattern)

UnscopedCanWrite(role, path, patterns) ==     \* a mistake to be caught: no claim
  \/ role \in {"operator", "service"} /\ Under(path, "__inputs")
  \/ role = "test" /\ Under(path, "__test")

RoleCanWrite(role, path, patterns) ==
  \/ role = "operator" /\ Under(path, "__inputs")
  \/ /\ role = "service"
     /\ Under(path, "__inputs")
     /\ patterns = {} \/ \E p \in patterns : PatternMatches(p, path)
  \/ role = "test" /\ Under(path, "__test")

(* Authenticators may answer with no role; the handshake refuses that.      *)
CanWrite(identity, path) == RoleCanWrite(identity.role, path, identity.paths)

------------------------------------------------------------------------------
(* Declared inputs: a function from paths to specs.                         *)

Accepts(declared, role, path) ==
  \/ /\ Under(path, "__inputs")
     /\ DOMAIN declared # {} => path \in DOMAIN declared
  \/ Under(path, "__test") /\ role = "test"

(* The types color, date, time, path-ref and image-ref are as unchecked as  *)
(* the empty one; a NaN is neither below nor above anything.                *)
Within(spec, v) ==
  v.kind = "number" =>
    /\ spec.min = NoLimit \/ spec.min <= v.n
    /\ spec.max = NoLimit \/ v.n <= spec.max

Meets(spec, v) ==
  CASE spec.type = "string"  -> /\ v.kind = "string"
                                /\ spec.maxLength = NoLimit \/ v.n <= spec.maxLength
    [] spec.type = "number"  -> v.kind \in Numeric /\ Within(spec, v)
    [] spec.type = "boolean" -> v.kind = "boolean"
    [] spec.type = "enum"    -> v \in spec.values
    [] OTHER                 -> TRUE

(* float() of such a number raises, out of check_constraint and its callers.*)
Raises(spec, v) == spec.type = "number" /\ v.kind = "huge"

------------------------------------------------------------------------------
(* Scene.apply_input up to the emission: the verdict on the first patch     *)
(* that is not in order, if there is one.                                   *)

Accepted == [code |-> "OK", path |-> NoPath]

PatchVerdict(identity, declared, patch) ==
  LET path  == patch.path
      value == patch.value
      spec  == declared[path]
  IN  IF ~CanWrite(identity, path) THEN "WRITE_FORBIDDEN"
      ELSE IF ~Accepts(declared, identity.role, path) THEN "UNKNOWN_PATH"
      ELSE IF path \notin DOMAIN declared THEN "OK"
      ELSE IF Raises(spec, value) THEN "RAISES"
      ELSE IF Meets(spec, value) THEN "OK" ELSE "INVALID_VALUE"

Verdict(identity, declared, patches) ==
  LET code(i) == PatchVerdict(identity, declared, patches[i])
      Wrong   == {i \in 1..Len(patches) : code(i) # "OK"}
      first   == CHOOSE i \in Wrong : \A j \in Wrong : i <= j
  IN  CASE patches = <<>> -> [code |-> "INVALID_VALUE", path |-> NoPath]
        [] patches # <<>> /\ Wrong = {} -> Accepted
        [] OTHER -> [code |-> code(first), path |-> patches[first].path]

FirstWins(patches) ==       \* a mistake to be caught: the first value is kept
  [p \in {patches[i].path : i \in 1..Len(patches)} |->
     patches[CHOOSE i \in 1..Len(patches) :
               /\ patches[i].path = p
               /\ \A j \in 1..i - 1 : patches[j].path # p].value]

(* A path given twice keeps its last value.                                 *)
AsDict(patches) ==
  [p \in {patches[i].path : i \in 1..Len(patches)} |->
     LET last == CHOOSE i \in 1..Len(patches) :
                   /\ patches[i].path = p
                   /\ \A j \in i + 1..Len(patches) : patches[j].path # p
     IN  patches[last].value]

==============================================================================
