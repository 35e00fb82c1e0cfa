------------------------------ MODULE JsonTree ------------------------------
(***************************************************************************)
(* JSON documents as trees: what a node means to send, before the text.    *)
(* A tree is a record with one field, named after its kind:                *)
(*   [string |-> tokens], [number |-> token], [literal |-> token],         *)
(*   [array |-> trees], [object |-> pairs of a key and a tree], and        *)
(*   [raw |-> tokens] for a body that is not JSON.                         *)
(***************************************************************************)
EXTENDS Integers, Sequences

LOCAL SE == INSTANCE SequencesExt

Is(tree, kind) == kind \in DOMAIN tree

Joined(parts, separator) ==
    SE!FlattenSeq([i \in 1..Len(parts) |->
                     IF i = 1 THEN parts[i] ELSE separator \o parts[i]])

\* The text of a tree, with gap as the white space inside brackets and after
\* colons and commas.
RECURSIVE Render(_, _)
Render(tree, gap) ==
    LET QuotedText(s) == <<"'">> \o s \o <<"'">>
        Pair(m) == QuotedText(<<m[1]>>) \o <<":">> \o gap \o Render(m[2], gap)
        Between(open, parts, close) ==
            <<open>> \o gap \o Joined(parts, <<",">> \o gap) \o gap \o <<close>>
    IN  CASE Is(tree, "raw")     -> tree.raw
          [] Is(tree, "string")  -> QuotedText(tree.string)
          [] Is(tree, "number")  -> <<tree.number>>
          [] Is(tree, "literal") -> <<tree.literal>>
          [] Is(tree, "array")   ->
               Between("[", [i \in DOMAIN tree.array |-> Render(tree.array[i], gap)], "]")
          [] Is(tree, "object")  ->
               Between("{", [i \in DOMAIN tree.object |-> Pair(tree.object[i])], "}")

\* The member of an object with a key.
Has(tree, key) == Is(tree, "object") /\ \E i \in DOMAIN tree.object : tree.object[i][1] = key
Member(tree, key) ==
    LET at == {i \in DOMAIN tree.object : tree.object[i][1] = key}
    IN  tree.object[CHOOSE i \in at : \A j \in at : i <= j][2]

\* Is there an object without members anywhere in the tree?
RECURSIVE HoldsEmptyObject(_)
HoldsEmptyObject(tree) ==
    \/ Is(tree, "object") /\ \/ tree.object = <<>>
                             \/ \E i \in DOMAIN tree.object : HoldsEmptyObject(tree.object[i][2])
    \/ Is(tree, "array") /\ \E i \in DOMAIN tree.array : HoldsEmptyObject(tree.array[i])

\* A tree without some member, and with one put first.
Without(tree, key) == [object |-> SelectSeq(tree.object, LAMBDA m : m[1] # key)]
WithFirst(tree, key, member) == [object |-> <<<<key, member>>>> \o tree.object]
=============================================================================
