------------------------------ MODULE MCRouter ------------------------------
EXTENDS Router

\* Exact, below, beside and above one another; a slash at the end; one wildcard
\* of each kind; a tie in which either may come first; one that is no glob.
MCPatterns ==
    {<<"/", "a">>, <<"/", "a", "/">>, <<"/", "a", "/", "*">>, <<"/", "*">>, <<"/", "**">>,
     <<"/", "[ab]", "/", "b">>, <<"/", "?">>, <<"/", "[">>}

MCBadMethods == {"G T"}

\* Each pattern for any method, for reads, with a name in lower case, which is
\* another method, and one of them with a name that is none.  A script per route.
MCRouteConfigs ==
    {[path |-> p, methods |-> m, script |-> <<p, m>>] :
        p \in MCPatterns, m \in {{}, {"GET"}, {"get", "POST"}}}
    \cup {[path |-> <<"/", "a">>, methods |-> {"GET", "G T"}, script |-> <<>>]}

MCPaths == {<<"/", "a">>, <<"/", "b">>, <<"/", "a", "/">>, <<"/", "a", "/", "b">>,
            <<"/", "b", "/", "b">>, <<"/", "a", "/", "b", "/", "a">>, <<"*">>}
=============================================================================
