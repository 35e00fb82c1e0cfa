----------------------------- MODULE MCRpcCall -----------------------------
(***************************************************************************)
(* RpcCall checked for every call of the API against the answers a node    *)
(* may give: complete results in either member order, compact or spaced,   *)
(* with members the client does not know; results that lack a member or    *)
(* hold null in its place; the node's errors in their forms; and bodies    *)
(* that are no response.  What a tree means is defined here, on trees, and *)
(* compared with what the client read out of the text.                     *)
(***************************************************************************)
EXTENDS RpcCall

MCNumberOf == [n \in {"7", "200", "-5", "0"} |->
                 CASE n = "7" -> 7 [] n = "200" -> 200 [] n = "-5" -> -5 [] n = "0" -> 0]

(***************************************************************************)
(* The meaning of a tree.                                                  *)
(***************************************************************************)
Signed   == -(2^(IntBits - 1)) .. (2^(IntBits - 1) - 1)
Unsigned == 0 .. (2^IntBits - 1)

RECURSIVE Fits(_, _), Means(_, _)

\* Does the tree hold all a structure (or a scalar) needs?  An array member
\* may also be something else: it then means no elements.
Fits(tree, of) ==
    CASE of = "string" -> Is(tree, "string")
      [] of = "int32"  -> Is(tree, "number") /\ NumberOf[tree.number] \in Signed
      [] of = "uint32" -> Is(tree, "number") /\ NumberOf[tree.number] \in Unsigned
      [] of = "bool"   -> Is(tree, "literal") /\ tree.literal \in {"true", "false"}
      [] of = "value"  -> TRUE
      [] OTHER -> \A k \in DOMAIN Structs[of] :
                    /\ Has(tree, k)
                    /\ LET kind == Structs[of][k] IN
                       IF kind.shape = "one" THEN Fits(Member(tree, k), kind.of)
                       ELSE Is(Member(tree, k), "array") =>
                              LET items == Member(tree, k).array
                              IN  \A i \in DOMAIN items : Fits(items[i], kind.of)

\* The part of a string before its first quote.  AsString stops at an escaped
\* quote and undoes no escape: the text a string means is what comes before.
Unescaped(s) ==
    LET quotes == {i \in DOMAIN s : s[i] = Quote}
    IN  SubSeq(s, 1, IF quotes = {} THEN Len(s)
                     ELSE (CHOOSE i \in quotes : \A j \in quotes : i <= j) - 1)

Means(tree, of) ==
    CASE of = "string" -> Unescaped(tree.string)
      [] of \in {"int32", "uint32"} -> NumberOf[tree.number]
      [] of = "bool" -> tree.literal = "true"
      [] OTHER -> [k \in DOMAIN Structs[of] |->
                     LET kind == Structs[of][k]
                         member == Member(tree, k)
                     IN  IF kind.shape = "one" THEN Means(member, kind.of)
                         ELSE IF Is(member, "array")
                         THEN [i \in DOMAIN member.array |-> Means(member.array[i], kind.of)]
                         ELSE <<>>]

IsError(tree)  == Has(tree, "error")
IsResult(tree) == ~IsError(tree) /\ Has(tree, "result")

\* The array of a vector or page result, and whether a result is complete.
Elements(c, result) ==
    IF c.result.shape = "page" THEN Member(result, "result") ELSE result
FitsCall(c, tree) ==
    /\ IsResult(tree)
    /\ LET result == Member(tree, "result") IN
       IF c.result.shape = "one" THEN Fits(result, c.result.of)
       ELSE /\ c.result.shape = "page" => Fits(result, "Paginated")
            /\ Is(Elements(c, result), "array")
            /\ \A i \in DOMAIN Elements(c, result).array : Fits(Elements(c, result).array[i], c.result.of)
MeansTo(c, tree) ==
    LET result == Member(tree, "result") IN
    IF c.result.shape = "one" THEN Means(result, c.result.of)
    ELSE [i \in DOMAIN Elements(c, result).array |-> Means(Elements(c, result).array[i], c.result.of)]

(***************************************************************************)
(* The answers.                                                            *)
(***************************************************************************)
RECURSIVE Listed(_)
Listed(S) == IF S = {} THEN <<>> ELSE LET x == CHOOSE x \in S : TRUE IN <<x>> \o Listed(S \ {x})

S(x) == [string |-> <<x>>]
N(x) == [number |-> x]
Null == [literal |-> "null"]
O(members) == [object |-> members]
A(items)   == [array |-> items]

\* A complete tree with n elements in every array.  The text of a string
\* member is the name of a key, so that a scan that takes one for the other
\* shows.
RECURSIVE Sample(_, _, _)
Sample(of, key, n) ==
    CASE of = "string" -> S(IF key = "name" THEN "error" ELSE "name")
      [] of = "int32"  -> N("7")
      [] of = "uint32" -> N("200")
      [] of = "bool"   -> [literal |-> "true"]
      [] of = "value"  -> Null
      [] OTHER ->
           LET keys == Listed(DOMAIN Structs[of])
               inner == IF n > 1 THEN 1 ELSE n
           IN  O([i \in DOMAIN keys |->
                    <<keys[i],
                      LET kind == Structs[of][keys[i]] IN
                      IF kind.shape = "one" THEN Sample(kind.of, keys[i], inner)
                      ELSE A([j \in 1..n |-> Sample(kind.of, keys[i], inner)])>>])

\* Members no structure has: values a scan must step over.
Unknown == {O(<<>>),
            O(<<<<"name", A(<<S("x"), O(<<<<"error", N("7")>>>>)>>)>>>>),
            A(<<[literal |-> "true"], N("0"), S("]"), A(<<>>)>>),
            [string |-> <<"x", Backslash, Quote, "}", ",">>],
            Null}

Reversed(tree) ==
    LET m == tree.object IN O([i \in DOMAIN m |-> m[Len(m) + 1 - i]])
Replaced(tree, key, member) ==
    O([i \in DOMAIN tree.object |->
         IF tree.object[i][1] = key THEN <<key, member>> ELSE tree.object[i]])
Keys(tree) == {tree.object[i][1] : i \in DOMAIN tree.object}

Incomplete(tree) == {Without(tree, k) : k \in Keys(tree)}
                    \cup {Replaced(tree, k, Null) : k \in Keys(tree)}
Extended(tree) == {WithFirst(tree, "unknown", u) : u \in Unknown}

Lists(of) ==
    LET good == Sample(of, "", 1)
        key  == CHOOSE k \in Keys(good) : TRUE
    IN  {A([i \in 1..n |-> good]) : n \in 0..2}
        \cup {A(<<good, odd, good>>) : odd \in {Without(good, key)} \cup Extended(good)}

\* The results that are complete, and the others.
Complete(c) ==
    LET of == c.result.of IN
    CASE c.result.shape = "many" -> {A(<<Sample(of, "", 1), Sample(of, "", 1)>>)}
      [] c.result.shape = "page" ->
           {WithFirst(Sample("Paginated", "", 1), "result", A(<<Sample(of, "", 1)>>))}
      [] c.result.shape = "one" /\ of \in Scalars -> {Sample(of, "", 1)}
      [] OTHER -> {Sample(of, "", n) : n \in 0..2} \cup {Reversed(Sample(of, "", 1))}

Results(c) ==
    LET of == c.result.of
        one == Sample(of, "", 1)
        page == Sample("Paginated", "", 1)
    IN  Unknown \cup Complete(c) \cup
        CASE c.result.shape = "many" -> Lists(of)
          [] c.result.shape = "page" ->
               {WithFirst(page, "result", l) : l \in Lists(of)}
               \cup Incomplete(WithFirst(Without(page, "result"), "result", A(<<one>>)))
          [] c.result.shape = "one" /\ of \in Scalars -> {S("name")}
          [] OTHER -> Incomplete(one) \cup Extended(one)

Told == {S("m"), Null,
         O(<<<<"message", S("m")>>>>),
         O(<<<<"code", N("-5")>>, <<"message", S("m")>>>>),
         O(<<<<"code", N("0")>>, <<"message", S("m")>>>>)}

Responses(c) ==
    LET good == CHOOSE r \in Complete(c) : TRUE IN
    {O(<<<<"jsonrpc", S("2.0")>>, <<"result", r>>, <<"id", S("1")>>>>) : r \in Results(c)}
    \cup {O(<<<<"unknown", u>>, <<"result", good>>>>) : u \in Unknown}
    \cup {O(<<<<"jsonrpc", S("2.0")>>, <<"error", e>>>>) : e \in Told}
    \cup {O(<<<<"unknown", u>>, <<"error", e>>, <<"result", good>>>>) : u \in Unknown, e \in Told}
    \cup {O(<<>>), O(<<<<"id", S("1")>>>>), Null, [raw |-> <<"<html>">>], [raw |-> <<>>]}

Spaced(c) ==
    {O(<<<<"jsonrpc", S("2.0")>>, <<"result", r>>, <<"id", S("1")>>>>) : r \in Complete(c)}

AnswersTo(c) == {[tree |-> t, gap |-> <<>>] : t \in Responses(c)}
                \cup {[tree |-> t, gap |-> <<" ">>] : t \in Spaced(c)}

MCAnswers == [m \in {c.method : c \in Calls} |-> AnswersTo(CHOOSE c \in Calls : c.method = m)]

(***************************************************************************)
(* Properties.                                                             *)
(***************************************************************************)
Returning == phase = "answered" /\ phase' = "idle"

\* A call that returns without an error has returned what the node's result
\* means: all of its members and all of its elements, each in its place,
\* whatever the order of the members, the white space and the members the
\* client does not know.  (Parse...Response and the Deserialize functions,
\* reading views that run to the end of the document.)
ResultIsTrue ==
    [][Returning /\ shared /\ error'.code = 0 =>
         /\ arrived
         /\ FitsCall(call, answer.tree)
         /\ output' = [from |-> "parsed", value |-> MeansTo(call, answer.tree)]]_vars

\* A complete result that came in compact text without an empty object is
\* read without an error.
CompleteResultsAreRead ==
    [][Returning /\ shared /\ error.code = 0 /\ FitsCall(call, answer.tree)
         /\ answer.gap = <<>> /\ ~HoldsEmptyObject(answer.tree)
       => error'.code = 0]_vars

\* An error of the node is never taken for a result, not even one without a
\* code or beside a result, and one that states its code is reported with
\* that code and message.  (CheckResponse returns the whole response as the
\* result when the code it read is 0.)
NodeErrorsAreReported ==
    [][Returning /\ shared /\ arrived /\ IsError(answer.tree) =>
         /\ error'.code # 0
         /\ LET e == Member(answer.tree, "error") IN
            error.code = 0 /\ Has(e, "code") /\ NumberOf[Member(e, "code").number] # 0
              /\ ~HoldsEmptyObject(answer.tree)
            => error' = [code |-> NumberOf[Member(e, "code").number],
                         message |-> Member(e, "message").string]]_vars

\* Once the shared error is set, no later call clears it or returns data:
\* only a new PhantasmaError does.
ErrorsStick ==
    [][error.code # 0 => \/ error' = NoError /\ phase = "idle" /\ UNCHANGED output
                         \/ error'.code # 0 /\ output'.from = "default"
                         \/ error' = error /\ UNCHANGED output]_vars

\* The request a node receives is JSON that names the method and lists the
\* parameters in order, read with the same scanner.
RequestIsReadable ==
    phase = "asked" =>
        LET params == LookupValue(request, 1, "params").at
            size   == ArraySize(request, params)
            Item(i) == IndexArray(request, params, i - 1)
        IN  /\ AsString(request, LookupValue(request, 1, "method").at) = Read(<<call.method>>, FALSE)
            /\ size = Read(Len(call.params), FALSE)
            /\ \A i \in DOMAIN call.params :
                 IF call.params[i] = Text
                 THEN AsString(request, Item(i).at) = Read(<<Arg(call, i)>>, Item(i).bad)
                 ELSE AsInt32(request, Item(i).at) = Read(NumberOf[Arg(call, i)], Item(i).bad)
            /\ \A i \in DOMAIN call.params : ~Item(i).bad
=============================================================================
