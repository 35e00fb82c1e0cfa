---------------------------- MODULE JsonScanner ----------------------------
(***************************************************************************)
(* The built-in JSON reader of phantasma/PhantasmaAPI.h (namespace json).  *)
(* It never builds a tree: a JSONValue is a view that starts at a value    *)
(* and runs to the END of the document, and every lookup scans the text    *)
(* again from the start of the view.                                       *)
(*                                                                         *)
(* A document v is a sequence of tokens.  A structural character is a      *)
(* token of its own; a run of ordinary characters, a literal and a number  *)
(* are one token each; an escape is a backslash and one more token.  A     *)
(* view is the position where it starts, or NoValue for JSONValue().       *)
(* Every operator returns what its function returns together with "bad",   *)
(* which stands for out_error having been set.                             *)
(***************************************************************************)
EXTENDS Integers, Sequences

CONSTANTS
    NumberOf,   \* the numeric tokens, with the number strtoll makes of each
    IntBits     \* the width of Int32 and UInt32

ASSUME NumberAssumption == NumberOf \in [DOMAIN NumberOf -> Int]
ASSUME IntBitsAssumption == IntBits \in Nat \ {0}

Quote      == "'"
Backslash  == "bs"
Spaces     == {" "}
Numerals   == DOMAIN NumberOf
Literals   == {"true", "false", "null"}
EscapeEndsNoQuote == {Backslash, "b", "f", "n", "r", "t", "u0000"}   \* mutant
EscapeEnds == {Quote, Backslash, "b", "f", "n", "r", "t", "u0000"}

NoValue == 0           \* JSONValue(), the empty view
NPos    == 1000000     \* JSONValue::npos, beyond every document

\* v.find_first_of(S, i) and v.find_first_not_of(S, i).
RECURSIVE FindFirstOf(_, _, _)
FindFirstOf(v, S, i) ==
    IF i > Len(v) THEN NPos ELSE IF v[i] \in S THEN i ELSE FindFirstOf(v, S, i + 1)

RECURSIVE FindFirstNotOf(_, _, _)
FindFirstNotOf(v, S, i) ==
    IF i > Len(v) THEN NPos ELSE IF v[i] \notin S THEN i ELSE FindFirstNotOf(v, S, i + 1)

\* Where a scan stands, and whether it has met an error; where it stands after
\* skipping one more value.
Stop(i, bad) == [at |-> i, bad |-> bad]
Onward(s, e) == Stop(e.at, s.bad \/ e.bad)
Past(i)      == IF i = NPos THEN i ELSE i + 1

NumberUpTo(i, j) == IF j = i THEN Stop(i + 1, TRUE) ELSE Stop(j, FALSE)
SkipNumber(v, i) == NumberUpTo(i, FindFirstNotOf(v, Numerals, i))

\* The loop of SkipString, inside the string; j is the next quote or escape.
RECURSIVE StringLoop(_, _), StringStep(_, _, _)
StringLoop(v, s) ==
    IF s.at > Len(v) THEN Stop(Past(s.at), s.bad)
    ELSE StringStep(v, s, FindFirstOf(v, {Quote, Backslash}, s.at))
StringStep(v, s, j) ==
    IF j = NPos THEN Stop(NPos, TRUE)
    ELSE IF v[j] = Quote THEN Stop(j + 1, s.bad)
    ELSE IF j + 1 <= Len(v) /\ v[j + 1] \in EscapeEnds THEN StringLoop(v, Stop(j + 2, s.bad))
    ELSE StringLoop(v, Stop(j + 1, TRUE))

SkipString(v, i) ==
    IF v[i] # Quote THEN Stop(i + 1, TRUE) ELSE StringLoop(v, Stop(i + 1, FALSE))

\* A literal is one token, so its length is one position.
SkipBoolNull(v, i) == Stop(i + 1, v[i] \notin Literals)

RECURSIVE SkipValue(_, _), ArrayLoop(_, _), ArrayStep(_, _, _), ObjectLoop(_, _), ObjectStep(_, _, _)

SkipArray(v, i)  == IF v[i] # "[" THEN Stop(i + 1, TRUE) ELSE ArrayLoop(v, Stop(i + 1, FALSE))
SkipObject(v, i) == IF v[i] # "{" THEN Stop(i + 1, TRUE) ELSE ObjectLoop(v, Stop(i, FALSE))

\* The switch on the first character of a value, the same in every loop.
SkipValue(v, i) ==
    CASE v[i] = "{"        -> SkipObject(v, i)
      [] v[i] = "["        -> SkipArray(v, i)
      [] v[i] = Quote      -> SkipString(v, i)
      [] v[i] \in Literals -> SkipBoolNull(v, i)
      [] OTHER             -> SkipNumber(v, i)

\* The next element of an array, or its bracket.
NextItem(v, from) == FindFirstNotOf(v, {","} \cup Spaces, from)

ArrayLoop(v, s) ==
    IF s.at > Len(v) THEN Stop(Past(s.at), TRUE) ELSE ArrayStep(v, s, NextItem(v, s.at))
ArrayStep(v, s, i) ==
    IF i = NPos THEN Stop(NPos, TRUE)
    ELSE IF v[i] = "]" THEN Stop(i + 1, s.bad)
    ELSE ArrayLoop(v, Onward(s, SkipValue(v, i)))

\* The next key of an object, from position i: where its text begins (open)
\* and ends (close), and where its value begins.  "none" is the exit of the
\* loop, with or without an error.
NoKey(bad) == [none |-> TRUE, bad |-> bad, key |-> <<>>, value |-> NoValue]
KeyWithValue(key, value) ==
    IF value = NPos THEN NoKey(TRUE)
    ELSE [none |-> FALSE, bad |-> FALSE, key |-> key, value |-> value]
KeyUpTo(v, open, close) ==
    IF close = NPos THEN NoKey(TRUE)
    ELSE KeyWithValue(SubSeq(v, open + 1, close - 1),
                      FindFirstNotOf(v, {":"} \cup Spaces, close + 1))
KeyFrom(v, open) ==
    IF open = NPos THEN NoKey(FALSE)
    ELSE IF v[open] = "}" THEN NoKey(FALSE)
    ELSE KeyUpTo(v, open, FindFirstOf(v, {Quote}, open + 1))
NextKey(v, i) == KeyFrom(v, FindFirstOf(v, {Quote, "}"}, i))

\* The loop leaves with s.at still just after the last value, and the function
\* steps over ONE more character, which it takes to be the closing brace.
ObjectLoop(v, s) ==
    IF s.at > Len(v) THEN Stop(Past(s.at), s.bad) ELSE ObjectStep(v, s, NextKey(v, s.at))
ObjectStep(v, s, k) ==
    IF k.none THEN Stop(s.at + 1, s.bad \/ k.bad)
    ELSE ObjectLoop(v, Onward(s, SkipValue(v, k.value)))

\* LookupValue in an object: the view of the first value whose key is the
\* field, NoValue (and no error) when there is none.
RECURSIVE FieldLoop(_, _, _), FieldStep(_, _, _, _)
FieldLoop(v, s, field) ==
    IF s.at > Len(v) THEN Stop(NoValue, s.bad) ELSE FieldStep(v, s, field, NextKey(v, s.at))
FieldStep(v, s, field, k) ==
    IF k.none THEN Stop(NoValue, s.bad \/ k.bad)
    ELSE IF k.key = <<field>> THEN Stop(k.value, s.bad)
    ELSE FieldLoop(v, Onward(s, SkipValue(v, k.value)), field)

LookupValue(v, p, field) ==
    IF p = NoValue THEN Stop(NoValue, TRUE)
    ELSE IF v[p] # "{" THEN Stop(NoValue, TRUE) ELSE FieldLoop(v, Stop(p, FALSE), field)

Read(value, bad) == [value |-> value, bad |-> bad]

AsBool(v, p) ==
    IF p = NoValue THEN Read(FALSE, TRUE)
    ELSE Read(v[p] = "true", v[p] \notin {"true", "false"})

\* (Int32) of a long long, and (UInt32) of that.
ToInt32(n)  == LET m == n % 2^IntBits IN IF m >= 2^(IntBits - 1) THEN m - 2^IntBits ELSE m
ToUInt32(n) == n % 2^IntBits

AsInt32(v, p) ==
    IF p = NoValue \/ v[p] \notin Numerals THEN Read(0, TRUE)
    ELSE Read(ToInt32(NumberOf[v[p]]), FALSE)

AsUInt32(v, p) == LET n == AsInt32(v, p) IN Read(ToUInt32(n.value), n.bad)

\* The string ends at the next quote, an escaped one included.
StringUpTo(v, p, close) ==
    IF close = NPos THEN Read(<<>>, TRUE) ELSE Read(SubSeq(v, p + 1, close - 1), FALSE)
AsString(v, p) ==
    IF p = NoValue THEN Read(<<>>, TRUE)
    ELSE IF v[p] # Quote THEN Read(<<>>, TRUE)
    ELSE StringUpTo(v, p, FindFirstOf(v, {Quote}, p + 1))

IsArray(v, p)  == Read(p # NoValue /\ v[p] = "[", p = NoValue)
IsObject(v, p) == Read(p # NoValue /\ v[p] = "{", p = NoValue)

FieldHeld(f) == Read(f.at # NoValue, f.bad)
HasField(v, p, field) == FieldHeld(LookupValue(v, p, field))

\* The loops of ArraySize and IndexArray count the elements they skip; a
\* boolean or a null is skipped and not counted.
Counted(v, i) == IF v[i] \in Literals THEN 0 ELSE 1

RECURSIVE SizeLoop(_, _, _), SizeStep(_, _, _, _)
SizeLoop(v, s, count) ==
    IF s.at > Len(v) THEN Read(count, s.bad) ELSE SizeStep(v, s, count, NextItem(v, s.at))
SizeStep(v, s, count, i) ==
    IF i = NPos THEN Read(count, TRUE)
    ELSE IF v[i] = "]" THEN Read(count, s.bad)
    ELSE SizeLoop(v, Onward(s, SkipValue(v, i)), count + Counted(v, i))

ArraySize(v, p) ==
    IF p = NoValue THEN Read(0, TRUE)
    ELSE IF v[p] # "[" THEN Read(0, TRUE) ELSE SizeLoop(v, Stop(p + 1, FALSE), 0)

\* The index is compared before the bracket is looked for.
RECURSIVE IndexLoop(_, _, _, _), IndexStep(_, _, _, _, _)
IndexLoop(v, s, count, index) ==
    IF s.at > Len(v) THEN Stop(NoValue, TRUE)
    ELSE IndexStep(v, s, count, index, NextItem(v, s.at))
IndexStep(v, s, count, index, i) ==
    IF i = NPos THEN Stop(NoValue, TRUE)
    ELSE IF count = index THEN Stop(i, s.bad)
    ELSE IF v[i] = "]" THEN Stop(NoValue, TRUE)
    ELSE IndexLoop(v, Onward(s, SkipValue(v, i)), count + Counted(v, i), index)

IndexArray(v, p, index) ==
    IF p = NoValue THEN Stop(NoValue, TRUE)
    ELSE IF v[p] # "[" THEN Stop(NoValue, TRUE)
    ELSE IndexLoop(v, Stop(p + 1, FALSE), 0, index)

=============================================================================
