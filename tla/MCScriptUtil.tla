---------------------------- MODULE MCScriptUtil ----------------------------
EXTENDS JsonRfc

a == <<"a">>
slash == <<"/">>
tilde1 == <<"~", "1">>

plain == Text(<<"x">>)
link == Text(<<"x", ":", "/", "/", "B", "/">>)

\* A document from its places; the root is an object unless it is said otherwise.
From(places) == places @@ Single(Object)

\* Objects in arrays, arrays in objects, a key of every kind that a pointer has
\* to escape, and a document that is no container.
MCDocs ==
    {From(<<Key(a)>> :> Array @@ <<Key(a), Item(0)>> :> plain @@ <<Key(a), Item(1)>> :> Null
            @@ <<Key(slash)>> :> link),
     From(<<>> :> Array @@ <<Item(0)>> :> Object @@ <<Item(0), Key(a)>> :> link @@ <<Item(1)>> :> plain),
     From(<<Key(tilde1)>> :> Object @@ <<Key(tilde1), Key(a)>> :> plain @@ <<Key(slash)>> :> Object),
     Single(plain)}

\* Supplied to add, replace, test, set and as merge patches: a null, a text, an
\* object that removes one key and sets another below it.
MCSupplied ==
    {Single(Null), Single(plain),
     From(<<Key(a)>> :> Object @@ <<Key(a), Key(slash)>> :> plain @@ <<Key(a), Key(a)>> :> Null
          @@ <<Key(slash)>> :> Null)}

\* The root, each key, and of an array the first item, the one past two, the end,
\* and an index with a leading zero.
MCPlaces ==
    {<<>>, <<a>>, <<slash>>, <<tilde1>>, <<tilde1, a>>, <<a, <<"0">>>>, <<a, <<"1">>>>, <<a, <<"2">>>>,
     <<a, <<"3">>>>, <<a, <<"-">>>>, <<a, <<"0", "1">>>>, <<<<"0">>>>, <<<<"0">>, a>>, <<<<"2">>, a>>, << <<>> >>}

MCPointers == {RfcPointer(tokens) : tokens \in MCPlaces} \cup {<<"a">>}

\* As paths of set also one with a plus, and an index too large to be one; a slash in
\* a segment cannot be.
MCPaths ==
    {segments \in MCPlaces \ {<<>>} : \A i \in DOMAIN segments : segments[i] # slash}
        \cup {<<a, <<"+", "1">>>>, <<a, <<"1", "0">>>>, <<a, <<"1", "0">>, a>>, <<<<"1">>, a>>, <<a, <<"0">>, a>>}

MCNames == {a, slash, tilde1, <<>>} \cup UNION {ToSet(path_) : path_ \in MCPlaces \cup MCPaths}

Pieces == {<<"x">>, <<"9">>, <<"B">>, <<"x">> \o Separator, Separator, <<":", "9">>, <<":">>,
           <<"/">>, <<" ">>}

\* Up to five of these, one after the other: two links to the BMC, a link with a
\* port, schemes that begin with a digit, links glued to links.
MCTexts == {FlattenSeq(pieces) : pieces \in UNION {[1 .. n -> Pieces] : n \in 0 .. 5}}

\* The swap of any of these texts: as rewrite_links_text has it, which is
\* rewrite_links on a document that is one text, or as the Location of a response.
LinksInit ==
    /\ SwapInit
    /\ doc = Single(Text(text)) /\ given = doc /\ copy = doc
    /\ ops = 0 /\ left = 0 /\ patch = Single(Null)
    /\ path = <<>> /\ new = Single(Null)
    /\ at = <<>> /\ todo = {}

\* A Location goes back into no document.
MCNext == ~(all /\ phase = "swapped") /\ UtilNext

MCSpec == (UtilInit \/ LinksInit) /\ [][MCNext]_utilVars
=============================================================================
