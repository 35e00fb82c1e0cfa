------------------------------ MODULE RpcCall ------------------------------
(***************************************************************************)
(* A PhantasmaAPI client at work (phantasma/PhantasmaAPI.h): each call     *)
(* builds a JSON request, posts it, checks the response for the node's own *)
(* error and reads the result out of the text with JsonScanner.  Calls     *)
(* share the PhantasmaError of their caller: a call that finds it already  *)
(* set still posts its request and then ignores the response.              *)
(*                                                                         *)
(* The node is the environment.  Its answers are the constant Answers: a   *)
(* document tree (JsonTree) and the white space it is rendered with.       *)
(***************************************************************************)
EXTENDS JsonScanner, JsonTree, RpcSchema

CONSTANT Answers   \* for each method, the responses a node may send to it

VARIABLES
    error,     \* the caller's PhantasmaError: its code and message
    phase,     \* "idle", "asked" (inside HttpPost) or "answered"
    call,      \* the call under way, or the last one
    shared,    \* does that call get the caller's error, or a null pointer?
    request,   \* the text it posted
    answer,    \* what the node sent back
    arrived,   \* did the transfer end with CURLE_OK?
    output     \* what the last call returned

vars == <<error, phase, call, shared, request, answer, arrived, output>>

\* PhantasmaError::code
InvalidJSON == -1
HttpError == -2
InvalidRpcResponse == -3
RpcMessage == -4

NoError == [code |-> 0, message |-> <<>>]
Empty   == [tree |-> [raw |-> <<>>], gap |-> <<>>]

(***************************************************************************)
(* The request.                                                            *)
(***************************************************************************)
Quoted(x) == <<Quote, x, Quote>>

\* JSONBuilder: its text and its flag.
BeginObject == [s |-> <<"{">>, empty |-> TRUE]
AddKey(b, key) ==
    [s |-> b.s \o (IF b.empty THEN <<>> ELSE <<",", " ">>) \o Quoted(key) \o <<":", " ">>,
     empty |-> FALSE]
AddString(b, key, value) ==
    LET k == AddKey(b, key) IN [k EXCEPT !.s = @ \o Quoted(value)]
\* Mutant: no comma after a parameter.
AddValuesNoComma(kinds, args) ==
    Joined([i \in DOMAIN args |-> IF kinds[i] = Text THEN Quoted(args[i]) ELSE <<args[i]>>], <<>>)
AddValues(kinds, args) ==
    Joined([i \in DOMAIN args |-> IF kinds[i] = Text THEN Quoted(args[i]) ELSE <<args[i]>>],
           <<",", " ">>)
AddArray(b, key, kinds, args) ==
    LET k == AddKey(b, key) IN [k EXCEPT !.s = @ \o <<"[">> \o AddValues(kinds, args) \o <<"]">>]
EndObject(b) == Append(b.s, "}")

MakeRequest(c, args) ==
    LET version == AddString(BeginObject, "jsonrpc", "2.0")
        method  == AddString(version, "method", c.method)
        id      == AddString(method, "id", "1")
    IN  EndObject(AddArray(id, "params", c.params, args))

(***************************************************************************)
(* The response.                                                           *)
(***************************************************************************)
Document(v) == IF v = <<>> THEN NoValue ELSE 1

\* Reading one value of a kind at a view; a structure reads every field, an
\* array field every element, and an array field that holds something else
\* reads as empty.
AlsoBad(r, bad) == Read(r.value, r.bad \/ bad)
Gathered(items) == Read([k \in DOMAIN items |-> items[k].value],
                        \E k \in DOMAIN items : items[k].bad)

RECURSIVE Deserialize(_, _, _)
DeserializeAt(v, e, of) == AlsoBad(Deserialize(v, e.at, of), e.bad)
Items(v, p, of, size) ==
    AlsoBad(Gathered([i \in 1..size.value |-> DeserializeAt(v, IndexArray(v, p, i - 1), of)]),
            size.bad)
DeserializeField(v, field, kind) ==
    IF kind.shape = "one" THEN DeserializeAt(v, field, kind.of)
    ELSE IF IsArray(v, field.at).value
    THEN AlsoBad(Items(v, field.at, kind.of, ArraySize(v, field.at)), field.bad)
    ELSE Read(<<>>, field.bad \/ field.at = NoValue)

Deserialize(v, p, of) ==
    CASE of = "string" -> AsString(v, p)
      [] of = "int32"  -> AsInt32(v, p)
      [] of = "uint32" -> AsUInt32(v, p)
      [] of = "bool"   -> AsBool(v, p)
      [] of = "value"  -> Read(p, FALSE)
      [] OTHER -> Gathered([k \in DOMAIN Structs[of] |->
                              DeserializeField(v, LookupValue(v, p, k), Structs[of][k])])

\* The error of the node at a view: an object states its code, 0 if it lacks
\* one, and its message; anything else is taken for the message.
ToldBy(v, p) ==
    IF IsObject(v, p).value
    THEN [code    |-> AsInt32(v, LookupValue(v, p, "code").at).value,
          message |-> AsString(v, LookupValue(v, p, "message").at).value]
    ELSE [code |-> RpcMessage, message |-> AsString(v, p).value]

Checked(p, e) == [at |-> p, error |-> e]
Malformed(p, e) == Checked(p, [e EXCEPT !.code = InvalidRpcResponse])

\* Mutant: a response with a result is not looked at for an error.
CheckMembersResultFirst(v, p, e, err, result) ==
    IF result.at # NoValue THEN Checked(result.at, e) ELSE Malformed(p, e)

\* The members "error" and "result" of a response at view p.
CheckMembers(v, p, e, err, result) ==
    IF err.at # NoValue THEN Checked(p, ToldBy(v, err.at))
    ELSE IF result.at = NoValue \/ err.bad \/ result.bad THEN Malformed(p, e)
    ELSE Checked(result.at, e)

CheckResponse(v, p, e) ==
    IF IsObject(v, p).value
    THEN CheckMembers(v, p, e, LookupValue(v, p, "error"), LookupValue(v, p, "result"))
    ELSE Malformed(p, e)

Returns(from, value, e) == [output |-> [from |-> from, value |-> value], error |-> e]
Default(e) == Returns("default", <<>>, e)
ParsedUnchecked(r, e) == Returns("parsed", r.value, e)   \* mutant: jsonErr dropped
Parsed(r, e) ==
    Returns("parsed", r.value, IF e.code = 0 /\ r.bad THEN [e EXCEPT !.code = InvalidJSON] ELSE e)

NotAnArray(e) == Default([e EXCEPT !.code = InvalidJSON])

\* A vector result stops after the first element that finds jsonErr set; a
\* page of auctions is read to its end.
UpToFirst(items, wrong) ==
    IF wrong = {} THEN items
    ELSE SubSeq(items, 1, CHOOSE i \in wrong : \A j \in wrong : i <= j)
Vector(v, p, of, size) ==
    LET items == [i \in 1..size.value |-> DeserializeAt(v, IndexArray(v, p, i - 1), of)]
    IN  AlsoBad(Gathered(UpToFirst(items, {i \in 1..size.value : size.bad \/ items[i].bad})),
                size.bad)
ParseVector(v, p, of, e) ==
    IF IsArray(v, p).value THEN Parsed(Vector(v, p, of, ArraySize(v, p)), e) ELSE NotAnArray(e)
ParsePage(v, page, of, e) ==
    IF IsArray(v, page.value.result).value
    THEN Parsed(AlsoBad(Items(v, page.value.result, of, ArraySize(v, page.value.result)),
                        page.bad), e)
    ELSE NotAnArray(e)

ParseResult(c, v, checked) ==
    CASE checked.error.code # 0 -> Default(checked.error)
      [] checked.error.code = 0 /\ c.result.shape = "one" ->
           Parsed(Deserialize(v, checked.at, c.result.of), checked.error)
      [] checked.error.code = 0 /\ c.result.shape = "many" ->
           ParseVector(v, checked.at, c.result.of, checked.error)
      [] checked.error.code = 0 /\ c.result.shape = "page" ->
           ParsePage(v, Deserialize(v, checked.at, "Paginated"), c.result.of, checked.error)
ParseResponse(c, v, e) == ParseResult(c, v, CheckResponse(v, Document(v), e))

(***************************************************************************)
(* The client.                                                             *)
(***************************************************************************)
Arg(c, i) == IF c.params[i] = Text THEN <<"a", "b", "c", "d">>[i] ELSE "7"
Args(c)   == [i \in DOMAIN c.params |-> Arg(c, i)]

Init ==
    /\ error = NoError
    /\ phase = "idle"
    /\ call \in Calls
    /\ shared = TRUE
    /\ request = <<>>
    /\ answer = Empty
    /\ arrived = FALSE
    /\ output = [from |-> "default", value |-> <<>>]

\* A caller that keeps no error passes a null pointer.
Ask(c, withError) ==
    /\ phase = "idle"
    /\ withError \/ error = NoError
    /\ phase' = "asked"
    /\ call' = c
    /\ shared' = withError
    /\ request' = MakeRequest(c, Args(c))
    /\ output' = [from |-> "default", value |-> <<>>]
    /\ UNCHANGED <<error, answer, arrived>>

\* Mutant: a transfer that succeeds clears the error.
HttpPostClears(a, ok) ==
    /\ phase = "asked"
    /\ phase' = "answered"
    /\ answer' = a
    /\ arrived' = ok
    /\ error' = IF ok THEN NoError ELSE [code |-> HttpError, message |-> <<"curl">>]
    /\ UNCHANGED <<call, shared, request, output>>

\* HttpPost: the transfer ends and the error of a failed one is stored, over
\* whatever was there.
HttpPost(a, ok) ==
    /\ phase = "asked"
    /\ phase' = "answered"
    /\ answer' = a
    /\ arrived' = ok
    /\ error' = IF ~ok /\ shared THEN [code |-> HttpError, message |-> <<"curl">>] ELSE error
    /\ UNCHANGED <<call, shared, request, output>>

\* The rest of the call: the response is parsed unless the error is set.
Finish(r) ==
    /\ output' = r.output
    /\ error' = IF shared THEN r.error ELSE error
Return ==
    /\ phase = "answered"
    /\ phase' = "idle"
    /\ IF shared /\ error.code # 0 THEN UNCHANGED <<error, output>>
       ELSE Finish(ParseResponse(call, Render(answer.tree, answer.gap),
                                 IF shared THEN error ELSE NoError))
    /\ request' = <<>>          \* locals of the call
    /\ answer' = Empty
    /\ arrived' = FALSE
    /\ UNCHANGED <<call, shared>>

\* The caller goes on with a new PhantasmaError.
NewError ==
    /\ phase = "idle"
    /\ error # NoError
    /\ error' = NoError
    /\ UNCHANGED <<phase, call, shared, request, answer, arrived, output>>

Next ==
    \/ \E c \in Calls, withError \in BOOLEAN : Ask(c, withError)
    \/ \E a \in Answers[call.method] : HttpPost(a, TRUE)
    \/ HttpPost(Empty, FALSE)
    \/ Return
    \/ NewError

Spec == Init /\ [][Next]_vars
=============================================================================
