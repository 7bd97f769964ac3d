------------------------------ MODULE JsonDoc -------------------------------
(***************************************************************************)
(* JSON documents, and what the util module (script_util.rs) does to one   *)
(* by pointer, path or key.  A document is a function from its places to   *)
(* what stands there: a place is the steps that lead to it from the root,  *)
(* each the key of an object or the position of an item in an array.       *)
(* An operator that may fail yields a set: empty when it fails, and        *)
(* otherwise of its one result.                                            *)
(***************************************************************************)
EXTENDS Integers, SequencesExt

CONSTANTS
    Names,          \* texts, as sequences of characters: keys, tokens and segments
    MaxCopyNodes,   \* MAX_COPY_NODES
    MaxIndex        \* usize::MAX

Key(name) == <<"key", name>>
Item(i) == <<"item", i>>    \* counted from 0
Steps == ({"key"} \X Names) \cup ({"item"} \X Nat)

\* What may stand at a place.
Null == [k |-> "null"]
Text(t) == [k |-> "text", v |-> t]
Object == [k |-> "object"]
Array == [k |-> "array"]

\* The document that is one value with nothing in it.
Single(value) == [place \in {<<>>} |-> value]

Holds(value, step) ==
    \/ value = Object /\ step[1] = "key"
    \/ value = Array /\ step[1] = "item"

\* What every serde_json::Value is: a tree, in which the items of an array are
\* numbered from 0 with no gap.
Tree(doc) ==
    /\ IsFiniteSet(DOMAIN doc) /\ DOMAIN doc \subseteq Seq(Steps)
    /\ <<>> \in DOMAIN doc
    /\ \A p \in DOMAIN doc \ {<<>>} :
        /\ Front(p) \in DOMAIN doc
        /\ Holds(doc[Front(p)], Last(p))
        /\ Last(p)[1] = "item" =>
              \A i \in 0 .. Last(p)[2] : Append(Front(p), Item(i)) \in DOMAIN doc

Under(doc, place) == {p \in DOMAIN doc : IsPrefix(place, p)}

\* The value at a place, as a document.
Part(doc, place) ==
    [p \in {SubSeq(q, Len(place) + 1, Len(q)) : q \in Under(doc, place)} |-> doc[place \o p]]

\* Mutant: what a copy is charged for is what stands right under it.
NodesShallow(doc) == Cardinality({p \in DOMAIN doc : Len(p) <= 1})

Nodes(doc) == Cardinality(DOMAIN doc)

\* The document with another value at a place, or none.
Put(doc, place, value) ==
    [p \in (DOMAIN doc \ Under(doc, place)) \cup {place \o q : q \in DOMAIN value} |->
        IF IsPrefix(place, p) THEN value[SubSeq(p, Len(place) + 1, Len(p))] ELSE doc[p]]
Without(doc, place) == [p \in DOMAIN doc \ Under(doc, place) |-> doc[p]]

Children(doc, place) == {p \in DOMAIN doc : p # <<>> /\ Front(p) = place}
Length(doc, place) == Cardinality(Children(doc, place))

\* What stands in the array at a place from item n on, and where it goes when
\* the items are numbered anew.
Later(doc, place, n) ==
    {p \in DOMAIN doc : IsStrictPrefix(place, p) /\ p[Len(place) + 1][2] >= n}
Moved(p, place, by) ==
    [p EXCEPT ![Len(place) + 1] = Item(@[2] + by)]

\* Vec::insert and Vec::remove on that array.
InsertItem(doc, place, n, value) ==
    LET later == {Moved(p, place, 1) : p \in Later(doc, place, n)}
        opened == [p \in (DOMAIN doc \ Later(doc, place, n)) \cup later |->
                      IF p \in later THEN doc[Moved(p, place, -1)] ELSE doc[p]]
    IN Put(opened, Append(place, Item(n)), value)
RemoveItem(doc, place, n) ==
    LET later == {Moved(p, place, -1) : p \in Later(doc, place, n + 1)}
    IN [p \in (DOMAIN doc \ Later(doc, place, n)) \cup later |->
           IF p \in later THEN doc[Moved(p, place, 1)] ELSE doc[p]]

-----------------------------------------------------------------------------
(* Pointers and JSON patch.                                                *)

\* str::replace of "~" and a mark, which cannot overlap.
Replaced(text, mark, new) ==
    LET from[i \in 1 .. Len(text) + 1] ==
            IF i > Len(text) THEN <<>>
            ELSE IF i < Len(text) /\ text[i] = "~" /\ text[i + 1] = mark
            THEN <<new>> \o from[i + 2]
            ELSE <<text[i]>> \o from[i + 1]
    IN from[1]

\* str::split('/'), which yields at least one piece.
SplitSlash(text) ==
    FoldLeft(LAMBDA pieces, char :
                 IF char = "/" THEN Append(pieces, <<>>)
                 ELSE Append(Front(pieces), Append(Last(pieces), char)),
             << <<>> >>, text)

\* Mutant: ~0 before ~1.
UnescapedZeroFirst(token) == Replaced(Replaced(token, "0", "~"), "1", "/")

\* ~1 before ~0.
Unescaped(token) == Replaced(Replaced(token, "1", "/"), "0", "~")

PointerTokens(pointer) ==
    IF pointer = <<>> THEN { <<>> }
    ELSE IF pointer[1] # "/" THEN {}
    ELSE LET pieces == SplitSlash(Tail(pointer))
         IN {[i \in DOMAIN pieces |-> Unescaped(pieces[i])]}

DigitChars == <<"0", "1", "2", "3", "4", "5", "6", "7", "8", "9">>

IsDigits(token) == token # <<>> /\ \A i \in DOMAIN token : token[i] \in ToSet(DigitChars)

Decimal(digits) ==
    FoldLeft(LAMBDA n, char : 10 * n + IndexFirstSubSeq(<<char>>, DigitChars) - 1, 0, digits)

\* Digits with no leading zero; - is the end, where the operation may use it.
\* Past that end every caller fails.
ArrayIndex(token, len, end) ==
    IF token = <<"-">> THEN IF end THEN {len} ELSE {}
    ELSE IF ~IsDigits(token) \/ (Len(token) > 1 /\ token[1] = "0") THEN {}
    ELSE {i \in 0 .. len : Decimal(token) = i /\ (i < len \/ end)}

\* The step a token asks for.
Named(doc, place, token) ==
    IF doc[place] = Array
    THEN {Item(i) : i \in ArrayIndex(token, Length(doc, place), FALSE)}
    ELSE {Key(token)}

Resolve(doc, tokens) ==
    {p \in DOMAIN doc :
        /\ Len(p) = Len(tokens)
        /\ \A n \in 1 .. Len(p) : p[n] \in Named(doc, SubSeq(p, 1, n - 1), tokens[n])}

PatchAdd(doc, tokens, value) ==
    IF tokens = <<>> THEN {value}
    ELSE UNION {
        IF doc[parent] = Object THEN {Put(doc, Append(parent, Key(Last(tokens))), value)}
        ELSE IF doc[parent] = Array
        THEN {InsertItem(doc, parent, i, value) :
                 i \in ArrayIndex(Last(tokens), Length(doc, parent), TRUE)}
        ELSE {} : parent \in Resolve(doc, Front(tokens))}

\* What there is to remove, and what that leaves; never the whole document.
Removable(doc, tokens) == Resolve(doc, tokens) \ { <<>> }
PatchRemove(doc, place) ==
    IF doc[Front(place)] = Array
    THEN RemoveItem(doc, Front(place), Last(place)[2])
    ELSE Without(doc, place)

\* Never into a descendant; the target is found in what the removal leaves.
PatchMove(doc, from, to) ==
    IF IsStrictPrefix(from, to) THEN {}
    ELSE UNION {PatchAdd(PatchRemove(doc, p), to, Part(doc, p)) : p \in Removable(doc, from)}

PatchCopy(doc, from, to) ==
    UNION {IF Nodes(Part(doc, p)) > MaxCopyNodes THEN {} ELSE PatchAdd(doc, to, Part(doc, p)) :
               p \in Resolve(doc, from)}

Tokens(pointers) == UNION {PointerTokens(pointer) : pointer \in pointers}

\* apply_one.  A field of the operation is its one value, or none if it is
\* missing or no text.
ApplyOne(doc, op) ==
    UNION {
        IF op.op = "add" THEN UNION {PatchAdd(doc, path, value) : value \in op.value}
        ELSE IF op.op = "remove" THEN {PatchRemove(doc, p) : p \in Removable(doc, path)}
        ELSE IF op.op = "replace"
        THEN {Put(doc, p, value) : p \in Resolve(doc, path), value \in op.value}
        ELSE IF op.op = "move" THEN UNION {PatchMove(doc, from, path) : from \in Tokens(op.from)}
        ELSE IF op.op = "copy" THEN UNION {PatchCopy(doc, from, path) : from \in Tokens(op.from)}
        ELSE IF op.op = "test"
        THEN {doc : p \in {q \in Resolve(doc, path) : Part(doc, q) \in op.value}}
        ELSE {} : path \in Tokens(op.path)}

-----------------------------------------------------------------------------
(* Deep paths and merge patch.                                             *)

\* str::parse::<usize>() takes leading zeros and a plus, and refuses what is too large.
Unsigned(segment) ==
    IF Len(segment) > 1 /\ segment[1] = "+" THEN Tail(segment) ELSE segment
IsNumber(segment) == IsDigits(Unsigned(segment)) /\ Decimal(Unsigned(segment)) <= MaxIndex

\* The item of an array that a segment indexes: one or none.
Indexed(doc, place, segment) ==
    IF IsNumber(segment)
    THEN {i \in 0 .. Length(doc, place) - 1 : Decimal(Unsigned(segment)) = i}
    ELSE {}

\* walk, for util::at
Walk(doc, segments) ==
    {p \in DOMAIN doc :
        /\ Len(p) = Len(segments)
        /\ \A n \in 1 .. Len(p) :
            LET above == SubSeq(p, 1, n - 1)
            IN p[n] \in IF doc[above] = Array
                        THEN {Item(i) : i \in Indexed(doc, above, segments[n])}
                        ELSE {Key(segments[n])}}

\* "if !node.is_object() { *node = Object(Map::new()) }"
AsObject(doc, place) ==
    IF place \in DOMAIN doc /\ doc[place] = Object THEN doc
    ELSE Put(doc, place, Single(Object))
=============================================================================
