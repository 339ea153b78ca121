------------------------------ MODULE MCAdapters ------------------------------
(* Adapters on documents that are flat, nested, spelled in two ways, no     *)
(* objects.                                                                 *)
EXTENDS Adapters

RECURSIVE Flatten(_, _), LeavesOf(_, _)

Flatten(value, prefix) ==
  LET calls == Calls(value, prefix)
  IN  FlattenWith([i \in DOMAIN calls |-> Flatten(calls[i].value, calls[i].prefix)], value, prefix)

LeavesOf(value, prefix) == LeavesWith(LAMBDA v, at : LeavesOf(v, at), value, prefix)

Item(key, value) == [key |-> key, value |-> value]

Inner == Dict(<<Item(<<"c">>, Num(1))>>)

Nested == Dict(<<Item(<<"a">>, Dict(<<Item(<<"b">>, Inner)>>))>>)

(* a.b.c is there twice.                                                    *)
Twice == Dict(<<Item(<<"a", "b">>, Inner),
                Item(<<"a">>, Dict(<<Item(<<"b", "c">>, Num(2)), Item(<<"b">>, Dict(<<>>))>>))>>)

MCDocuments == {Nested, Twice, Num(2)}

(* TLC evaluates a constant definition once, but not what a cfg has in its  *)
(* place for a CONSTANT: hence the names in between.                        *)
FlattenedDocuments == [doc \in MCDocuments |-> Flatten(doc, <<>>)]
MCFlattened == FlattenedDocuments

LeavesOfDocuments == [doc \in MCDocuments |-> LeavesOf(doc, <<>>)]
MCLeaves == LeavesOfDocuments

MCPaths == {<<"a">>, <<"a", "b">>, <<"a", "b", "c">>, <<"value">>}

MCCustom == (Nested :> (<<"a">> :> Num(1))) @@ (Num(2) :> <<>>)

MCNoValue == [is |-> "missing"]
==============================================================================
