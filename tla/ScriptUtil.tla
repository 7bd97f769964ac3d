----------------------------- MODULE ScriptUtil -----------------------------
(***************************************************************************)
(* A handler that holds a document and calls the util module on it         *)
(* (script_util.rs, http.rs).  Each function takes a copy of what it is    *)
(* given and works on that: json_patch operation by operation,             *)
(* json_merge_patch value by value of the patch, set segment by segment,   *)
(* and rewrite_links text by text, each of them by the turns of            *)
(* swap_authorities.  The handler gets the copy when the call succeeds.    *)
(***************************************************************************)
EXTENDS JsonDoc, LinkText

CONSTANTS
    Docs,          \* the documents a handler may hold
    Supplied,      \* the values and merge patches a caller may supply
    Pointers,      \* the texts it may supply for a pointer
    Paths,         \* the paths it may supply, split at their slashes
    MaxPatchOps    \* MAX_PATCH_OPS

Contents == {Null, Object, Array} \cup [k : {"text"}, v : Seq(Characters)]

ASSUME UtilAssumption ==
    /\ MaxPatchOps \in Nat /\ MaxCopyNodes \in Nat
    /\ \A document \in Docs \cup Supplied :
        Tree(document) /\ document \in [DOMAIN document -> Contents]
    /\ \A pointer \in Pointers : PointerTokens(pointer) \subseteq Seq(Names)
    /\ Paths \subseteq Seq(Names) \ {<<>>}

VARIABLES
    doc,       \* what the handler holds
    given,     \* history: what it held when it made the call
    copy,      \* what the call works on
    ops,       \* json_patch: how many operations there are
    left,      \* and how many are yet to apply
    patch,     \* json_merge_patch: the patch
    path,      \* set: the segments
    new,       \* and what to write there
    at,        \* set: where node points; rewrite_links: the text in hand
    todo       \* the places that the recursion of json_merge_patch (in the patch) or
               \* of rewrite_links (in the copy) is yet to come to

\* phase is "holding", what is being done, what was done, or "failed".
patchVars == <<ops, left>>
setVars == <<path, new>>
utilVars == <<phase, doc, given, copy, patchVars, patch, setVars, at, todo, swapVars>>

OneOrNone(S) == {{}} \cup {{s} : s \in S}

\* Operations, those with a field missing or an unknown name included.
Operations ==
    [op : {"add", "replace", "test"}, path : OneOrNone(Pointers), value : OneOrNone(Supplied),
     from : {{}}]
    \cup [op : {"move", "copy"}, path : OneOrNone(Pointers), value : {{}},
          from : OneOrNone(Pointers)]
    \cup [op : {"remove", "unknown"}, path : OneOrNone(Pointers), value : {{}}, from : {{}}]

UtilInit ==
    /\ phase = "holding"
    /\ doc \in Docs /\ given = doc /\ copy = doc
    /\ ops = 0 /\ left = 0
    /\ patch = Single(Null)
    /\ path = <<>> /\ new = Single(Null)
    /\ at = <<>> /\ todo = {}
    /\ text = <<>> /\ all = FALSE /\ cursor = 0 /\ written = <<>>

\* What a call began returns its copy, or fails.
Return(done) == phase' = done /\ doc' = copy

-----------------------------------------------------------------------------
(* util::json_patch, up to its loop, and the loop.                         *)

BeginPatch(n, list) ==
    /\ phase = "holding"
    /\ IF list /\ n <= MaxPatchOps
       THEN phase' = "patching" /\ ops' = n /\ left' = n
       ELSE phase' = "failed" /\ UNCHANGED patchVars
    /\ UNCHANGED <<doc, given, copy, patch, setVars, at, todo, swapVars>>

\* Mutant: the operations apply to the document in hand.
ApplyInPlace(op) ==
    /\ phase = "patching" /\ left > 0
    /\ LET results == ApplyOne(copy, op)
       IN IF results = {} THEN phase' = "failed" /\ UNCHANGED <<copy, doc, left>>
          ELSE /\ copy' \in results /\ doc' = copy'
               /\ left' = left - 1
               /\ UNCHANGED phase
    /\ UNCHANGED <<given, ops, patch, setVars, at, todo, swapVars>>

Apply(op) ==
    /\ phase = "patching" /\ left > 0
    /\ LET results == ApplyOne(copy, op)
       IN IF results = {} THEN phase' = "failed" /\ UNCHANGED <<copy, left>>
          ELSE /\ copy' \in results
               /\ left' = left - 1
               /\ UNCHANGED phase
    /\ UNCHANGED <<doc, given, ops, patch, setVars, at, todo, swapVars>>

EndPatch ==
    /\ phase = "patching" /\ left = 0
    /\ Return("patched")
    /\ UNCHANGED <<given, copy, patchVars, patch, setVars, at, todo, swapVars>>

-----------------------------------------------------------------------------
(* util::json_merge_patch.  The places of an object are apart, so that it  *)
(* does not matter in which order the recursion comes to them.             *)

BeginMerge(supplied) ==
    /\ phase = "holding"
    /\ phase' = "merging" /\ patch' = supplied /\ todo' = {<<>>}
    /\ UNCHANGED <<doc, given, copy, patchVars, setVars, at, swapVars>>

\* Mutant: a null is passed over, and the key it names stays.
MergeTurnKeeping(place) ==
    /\ phase = "merging" /\ place \in todo
    /\ IF patch[place] = Object
       THEN /\ copy' = AsObject(copy, place)
            /\ todo' = (todo \ {place}) \cup Children(patch, place)
       ELSE /\ todo' = todo \ {place}
            /\ copy' = IF patch[place] = Null /\ place # <<>> THEN copy
                       ELSE Put(copy, place, Part(patch, place))
    /\ UNCHANGED <<phase, doc, given, patchVars, patch, setVars, at, swapVars>>

\* merge_json at one place; a null under a key removes what the target has there.
MergeTurn(place) ==
    /\ phase = "merging" /\ place \in todo
    /\ IF patch[place] = Object
       THEN /\ copy' = AsObject(copy, place)
            /\ todo' = (todo \ {place}) \cup Children(patch, place)
       ELSE /\ todo' = todo \ {place}
            /\ copy' = IF patch[place] = Null /\ place # <<>> THEN Without(copy, place)
                       ELSE Put(copy, place, Part(patch, place))
    /\ UNCHANGED <<phase, doc, given, patchVars, patch, setVars, at, swapVars>>

EndMerge ==
    /\ phase = "merging" /\ todo = {}
    /\ Return("merged")
    /\ UNCHANGED <<given, copy, patchVars, patch, setVars, at, todo, swapVars>>

-----------------------------------------------------------------------------
(* util::set, segment by segment.                                          *)

\* The empty path splits into one empty segment, and is refused.
BeginSet(segments, value) ==
    /\ phase = "holding"
    /\ phase' = IF segments = << <<>> >> THEN "failed" ELSE "setting"
    /\ path' = segments /\ new' = value
    /\ UNCHANGED <<doc, given, copy, patchVars, patch, at, todo, swapVars>>

Segment == path[Len(at) + 1]
OnParent == phase = "setting" /\ Len(at) < Len(path) - 1

StepToItem ==
    /\ OnParent
    /\ copy[at] = Array /\ IsNumber(Segment)
    /\ IF Indexed(copy, at, Segment) = {} THEN phase' = "failed" /\ UNCHANGED at
       ELSE /\ \E i \in Indexed(copy, at, Segment) : at' = Append(at, Item(i))
            /\ UNCHANGED phase
    /\ UNCHANGED <<doc, given, copy, patchVars, patch, setVars, todo, swapVars>>

\* entry(..).or_insert_with(an object)
StepToKey ==
    /\ OnParent
    /\ ~(copy[at] = Array /\ IsNumber(Segment))
    /\ LET object == AsObject(copy, at)
           next == Append(at, Key(Segment))
       IN /\ copy' = IF next \in DOMAIN object THEN object ELSE Put(object, next, Single(Object))
          /\ at' = next
    /\ UNCHANGED <<phase, doc, given, patchVars, patch, setVars, todo, swapVars>>

\* Mutant: an array is written through as if it held nothing.
WriteLastKey ==
    /\ phase = "setting" /\ Len(at) = Len(path) - 1
    /\ copy' = Put(AsObject(copy, at), Append(at, Key(Segment)), new)
    /\ phase' = "set" /\ doc' = copy'
    /\ UNCHANGED <<given, patchVars, patch, setVars, at, todo, swapVars>>

WriteLast ==
    /\ phase = "setting" /\ Len(at) = Len(path) - 1
    /\ IF copy[at] = Array /\ Indexed(copy, at, Segment) # {}
       THEN \E i \in Indexed(copy, at, Segment) : copy' = Put(copy, Append(at, Item(i)), new)
       ELSE copy' = Put(AsObject(copy, at), Append(at, Key(Segment)), new)
    /\ phase' = "set" /\ doc' = copy'
    /\ UNCHANGED <<given, patchVars, patch, setVars, at, todo, swapVars>>

-----------------------------------------------------------------------------
(* util::rewrite_links, and rewrite_value on the JSON body of a response.  *)

BeginRewrite ==
    /\ phase = "holding"
    /\ phase' = "visiting" /\ todo' = {<<>>}
    /\ UNCHANGED <<doc, given, copy, patchVars, patch, setVars, at, swapVars>>

\* Mutant: the items of an array are passed over.
VisitObjectsOnly(place) ==
    /\ phase = "visiting" /\ place \in todo
    /\ copy[place].k # "text"
    /\ todo' = (todo \ {place}) \cup IF copy[place] = Array THEN {} ELSE Children(copy, place)
    /\ UNCHANGED <<phase, doc, given, copy, patchVars, patch, setVars, at, swapVars>>

\* Into the items and the values of a container, in whatever order.
Visit(place) ==
    /\ phase = "visiting" /\ place \in todo
    /\ copy[place].k # "text"
    /\ todo' = (todo \ {place}) \cup Children(copy, place)
    /\ UNCHANGED <<phase, doc, given, copy, patchVars, patch, setVars, at, swapVars>>

\* rewrite_text; a text without "://" takes no turn.
TakeText(place) ==
    /\ phase = "visiting" /\ place \in todo
    /\ copy[place].k = "text"
    /\ phase' = "swapping" /\ at' = place /\ todo' = todo \ {place}
    /\ text' = copy[place].v /\ all' = FALSE /\ cursor' = 0 /\ written' = <<>>
    /\ UNCHANGED <<doc, given, copy, patchVars, patch, setVars>>

Swapping ==
    /\ SwapNext
    /\ UNCHANGED <<doc, given, copy, patchVars, patch, setVars, at, todo>>

\* *s = rewrite_text(..)
PutText ==
    /\ phase = "swapped"
    /\ phase' = "visiting" /\ copy' = [copy EXCEPT ![at] = Text(written)]
    /\ UNCHANGED <<doc, given, patchVars, patch, setVars, at, todo, swapVars>>

EndRewrite ==
    /\ phase = "visiting" /\ todo = {}
    /\ Return("rewritten")
    /\ UNCHANGED <<given, copy, patchVars, patch, setVars, at, todo, swapVars>>

-----------------------------------------------------------------------------

UtilNext ==
    \/ \E n \in 0 .. MaxPatchOps + 1, list \in BOOLEAN : BeginPatch(n, list)
    \/ \E op \in Operations : Apply(op)
    \/ EndPatch
    \/ \E supplied \in Supplied : BeginMerge(supplied)
    \/ \E place \in todo : MergeTurn(place)
    \/ EndMerge
    \/ \E segments \in Paths, value \in Supplied : BeginSet(segments, value)
    \/ StepToItem \/ StepToKey \/ WriteLast
    \/ BeginRewrite
    \/ \E place \in todo : Visit(place) \/ TakeText(place)
    \/ Swapping
    \/ PutText \/ EndRewrite

UtilSpec == UtilInit /\ [][UtilNext]_utilVars

-----------------------------------------------------------------------------

\* What every call holds is a document, the items of its arrays numbered without a
\* gap, whatever was inserted, removed or moved; and it knows where it is in it.
UtilTypeOK ==
    /\ \A d \in {doc, given, copy, patch, new} : Tree(d) /\ \A p \in DOMAIN d : d[p] \in Contents
    /\ ops \in 0 .. MaxPatchOps /\ left \in 0 .. ops
    /\ path \in Paths \cup {<<>>}
    /\ at \in Seq(Steps)
    /\ phase \in {"setting", "swapping", "swapped"} => at \in DOMAIN copy
    /\ todo \subseteq DOMAIN (IF phase = "merging" THEN patch ELSE copy)
    /\ text \in Seq(Characters) /\ written \in Seq(Characters)

\* A call that fails, at whatever operation or segment, leaves the handler the
\* document it gave (json_patch: "All or nothing").
AllOrNothing == phase \notin {"patched", "merged", "set", "rewritten"} => doc = given

\* No operation adds more than the largest value supplied or a copy of
\* MAX_COPY_NODES, so that a patch cannot double a document over and over.
GrowthBounded ==
    phase \in {"patching", "patched"} =>
        LET size(d) == Cardinality(DOMAIN d)
        IN \A most \in {MaxCopyNodes} \cup {size(value) : value \in Supplied} :
              (MaxCopyNodes <= most /\ \A value \in Supplied : size(value) <= most)
                  => size(copy) <= size(given) + (ops - left) * most

\* By way of objects alone a path leads to a place of the patch, which is itself
\* no object: the patch decides there.
ByObjects(place) == \A n \in 0 .. Len(place) - 1 : patch[SubSeq(place, 1, n)] = Object
Decides(place) == place \in DOMAIN patch /\ patch[place] # Object /\ ByObjects(place)

\* What stands there, if anything does; and whether it had to become an object.
Said(d, place) == {d[p] : p \in {place} \cap DOMAIN d}
Turns(place) ==
    /\ place \in DOMAIN patch /\ patch[place] = Object /\ ByObjects(place)
    /\ place \in DOMAIN given /\ given[place] # Object

\* RFC 7386 for one place of the target, the patch or the result: under a
\* place the patch decides it is what the patch says, or gone if that is a null
\* of a key; where the patch has an object it is an object; and elsewhere the target's
\* own, unless something above it had to become an object first.
MergedAsSaid(place) ==
    LET above(n) == SubSeq(place, 1, n)
        deciding == {n \in 0 .. Len(place) : Decides(above(n))}
        turned == \E n \in 0 .. Len(place) - 1 : Turns(above(n))
    IN IF deciding # {}
       THEN Said(doc, place) = IF \E n \in deciding : n > 0 /\ patch[above(n)] = Null THEN {}
                               ELSE Said(patch, place)
       ELSE IF place \in DOMAIN patch THEN Said(doc, place) = {Object}
       ELSE Said(doc, place) = IF turned THEN {} ELSE Said(given, place)

\* A merge patch leaves at every place what RFC 7386 says, nulls removing and
\* nothing else being disturbed.
MergeMeetsRfc ==
    phase = "merged" =>
        \A place \in DOMAIN given \cup DOMAIN patch \cup DOMAIN doc : MergedAsSaid(place)

\* What util::set wrote is what util::at reads there.  Of what there was, only
\* what stands under the target is lost, or under a value on the way that is no
\* object and in which util::at cannot go on; and nothing comes to be anywhere else.
\* It fails only for the empty path and on an array too short for the path.
SetLands ==
    /\ phase = "set" =>
        \E target \in Walk(doc, path) :
            LET way(n) == SubSeq(target, 1, n)
                lost(n) == \/ n = Len(target)
                           \/ given[way(n)] # Object /\ Walk(given, SubSeq(path, 1, n + 1)) = {}
            IN /\ Part(doc, target) = new
               /\ \A p \in DOMAIN given :
                    \/ p \in DOMAIN doc /\ doc[p] = given[p]
                    \/ \E n \in 0 .. Len(target) :
                          way(n) \in DOMAIN given /\ lost(n) /\ IsPrefix(way(n), p)
               /\ \A p \in DOMAIN doc \ DOMAIN given : IsPrefix(p, target) \/ IsPrefix(target, p)
    /\ phase = "failed" /\ path \notin {<<>>, << <<>> >>} =>
        \E n \in 0 .. Len(path) - 2 : \E p \in Walk(given, SubSeq(path, 1, n)) :
            given[p] = Array /\ IsNumber(path[n + 1]) /\ Indexed(given, p, path[n + 1]) = {}

\* No link to the BMC is left in any text of a document that was rewritten, however
\* deep it stands, and nothing but texts is touched.
DocumentHoldsNoLink ==
    phase = "rewritten" =>
        /\ DOMAIN doc = DOMAIN given
        /\ \A p \in DOMAIN doc :
            IF doc[p].k = "text" THEN given[p].k = "text" /\ HoldsNoLink(doc[p].v)
            ELSE doc[p] = given[p]
=============================================================================
