------------------------------ MODULE JsonRfc -------------------------------
(***************************************************************************)
(* What RFC 6901 and 6902 say of a patch, stated over another form of a    *)
(* document: a value holds its values, as a record of a function or a      *)
(* sequence, and a path is followed into it by recursion.                  *)
(***************************************************************************)
EXTENDS ScriptUtil

CONSTANT Places    \* the paths of tokens that pointers may stand for

RECURSIVE Nested(_, _)
\* The value that stands at a place of a document.
Nested(d, place) ==
    LET below(step) == Nested(d, Append(place, step))
        steps == {Last(p) : p \in Children(d, place)}
    IN IF d[place] = Object
       THEN [k |-> "object", m |-> [name \in {step[2] : step \in steps} |-> below(Key(name))]]
       ELSE IF d[place] = Array
       THEN [k |-> "array", s |-> [i \in 1 .. Cardinality(steps) |-> below(Item(i - 1))]]
       ELSE d[place]

\* Which child a token names.  The arrays here have at most ten items.
Child(value, token) ==
    IF value.k = "object" THEN {token} \cap DOMAIN value.m
    ELSE IF value.k = "array" THEN {i \in DOMAIN value.s : token = <<DigitChars[i]>>}
    ELSE {}

Below(value, child) == IF value.k = "object" THEN value.m[child] ELSE value.s[child]

RECURSIVE RfcGet(_, _)
RfcGet(value, tokens) ==
    IF tokens = <<>> THEN {value}
    ELSE UNION {RfcGet(Below(value, c), Tail(tokens)) : c \in Child(value, Head(tokens))}

WithChild(value, child, new_) ==
    IF value.k = "object" THEN [value EXCEPT !.m = (child :> new_) @@ @]
    ELSE [value EXCEPT !.s[child] = new_]

\* 4.1 at the parent: an index may be that of the end, or "-".
Added(value, token, new_) ==
    IF value.k = "object" THEN {WithChild(value, token, new_)}
    ELSE IF value.k = "array"
    THEN {[value EXCEPT !.s = InsertAt(@, i, new_)] :
             i \in Child([value EXCEPT !.s = Append(@, Null)], token)
                   \cup IF token = <<"-">> THEN {Len(value.s) + 1} ELSE {}}
    ELSE {}

\* 4.2 at the parent.
Removed(value, token) ==
    {IF value.k = "object" THEN [value EXCEPT !.m = Restrict(@, DOMAIN @ \ {c})]
     ELSE [value EXCEPT !.s = RemoveAt(@, c)] : c \in Child(value, token)}

RECURSIVE Changed(_, _, _, _)
\* The value with something added, removed or replaced at a path.
Changed(value, tokens, how, new_) ==
    IF tokens = <<>> THEN IF how = "remove" THEN {} ELSE {new_}
    ELSE IF Len(tokens) = 1 /\ how = "add" THEN Added(value, tokens[1], new_)
    ELSE IF Len(tokens) = 1 /\ how = "remove" THEN Removed(value, tokens[1])
    ELSE UNION {{WithChild(value, c, below) :
                    below \in Changed(Below(value, c), Tail(tokens), how, new_)} :
                    c \in Child(value, tokens[1])}

RECURSIVE Size(_)
Size(value) ==
    LET children == IF value.k = "object" THEN value.m ELSE IF value.k = "array" THEN value.s ELSE <<>>
    IN 1 + FoldFunction(+, 0, [c \in DOMAIN children |-> Size(children[c])])

\* 4.1 to 4.6, for operations whose pointers have become paths, with copies of
\* limited size.
RfcApply(value, op, to, from, operand) ==
    IF op \in {"add", "remove"} THEN Changed(value, to, op, operand)
    ELSE IF op = "replace" THEN Changed(value, to, op, operand)
    ELSE IF op = "move"
    THEN IF IsStrictPrefix(from, to) THEN {}
         ELSE UNION {UNION {Changed(rest, to, "add", moved) : rest \in Changed(value, from, "remove", Null)} :
                         moved \in RfcGet(value, from)}
    ELSE IF op = "copy"
    THEN UNION {Changed(value, to, "add", copied) :
                    copied \in {c \in RfcGet(value, from) : Size(c) <= MaxCopyNodes}}
    ELSE IF op = "test" THEN IF operand \in RfcGet(value, to) THEN {value} ELSE {}
    ELSE {}

\* RFC 6901 3: every ~ and / of a key is escaped on its own.
RfcEscaped(name) ==
    FoldLeft(LAMBDA escaped, char : escaped \o
                 IF char = "~" THEN <<"~", "0">> ELSE IF char = "/" THEN <<"~", "1">> ELSE <<char>>,
             <<>>, name)
RfcPointer(tokens) ==
    FoldLeft(LAMBDA pointer, token : pointer \o <<"/">> \o RfcEscaped(token), <<>>, tokens)

RfcPaths(pointers) == {tokens \in Places : RfcPointer(tokens) \in pointers}

RfcResults(value, op) ==
    LET froms == IF op.op \in {"move", "copy"} THEN RfcPaths(op.from) ELSE {<<>>}
        operands == IF op.op \in {"add", "replace", "test"} THEN {Nested(v, <<>>) : v \in op.value}
                    ELSE {Null}
    IN UNION {RfcApply(value, op.op, r[1], r[2], r[3]) : r \in RfcPaths(op.path) \X froms \X operands}

\* To every document a patch comes by, every operation does what RFC 6902 says,
\* and it fails exactly when the RFC or the limit on copies refuses it.
PatchMeetsRfc ==
    phase = "patching" /\ left > 0 =>
        LET value == Nested(copy, <<>>)
        IN \A op \in Operations :
              {Nested(result, <<>>) : result \in ApplyOne(copy, op)} = RfcResults(value, op)
=============================================================================
