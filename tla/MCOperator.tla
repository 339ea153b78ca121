------------------------------ MODULE MCOperator ------------------------------
(* Operator on a small instance. *)
EXTENDS Operator, TLC

A == <<"__inputs", "a">>
AX == <<"__inputs", "a", "x">>
B == <<"__inputs", "b">>
T == <<"__test", "t">>
P == <<"show", "title">>

MCPaths == {A, AX, B, T, P}

Value(kind, n) == [kind |-> kind, n |-> n]

MCValues == {Value("number", 1), Value("number", 9), Value("nan", 0), Value("huge", 0),
             Value("string", 1), Value("boolean", 1)}

(* paths is the claim as the code compares it, roots the subtrees it means. *)
Who(role, paths, roots) == [role |-> role, paths |-> paths, roots |-> roots]

MCIdentities ==
  {Who("viewer", {}, {}), Who("operator", {}, {}), Who("test", {}, {}),
   Who("service", {<<"__inputs", "a", "*">>, <<"show">>}, {A, <<"show">>})}

Spec3(type, min, max, maxLength, values) ==
  [type |-> type, min |-> min, max |-> max, maxLength |-> maxLength, values |-> values]

MCSpecs == [p \in {A, B, T} |->
  CASE p = A -> Spec3("number", 0, 5, NoLimit, {})
    [] p = B -> Spec3("enum", NoLimit, NoLimit, NoLimit, {Value("string", 1)})
    [] p = T -> Spec3("boolean", NoLimit, NoLimit, NoLimit, {})]

Patch(p, v) == [path |-> p, value |-> v]

(* Nothing; one leaf, taken from some and refused from others; a good leaf  *)
(* with a bad one, in either order; one leaf twice.                         *)
MCPatchLists ==
  {<<>>,
   <<Patch(A, Value("number", 1))>>, <<Patch(A, Value("number", 9))>>,
   <<Patch(A, Value("huge", 0))>>, <<Patch(AX, Value("string", 1))>>,
   <<Patch(T, Value("boolean", 1))>>,
   <<Patch(A, Value("number", 1)), Patch(P, Value("string", 1))>>,
   <<Patch(B, Value("number", 1)), Patch(A, Value("nan", 0))>>,
   <<Patch(A, Value("number", 9)), Patch(A, Value("number", 1))>>}

MCAppPatches == {[p \in {P} |-> Value("string", 1)]}
==============================================================================
