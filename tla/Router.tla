------------------------------- MODULE Router -------------------------------
(***************************************************************************)
(* The routes of the configuration and the script a request goes to        *)
(* (config.rs, Config::validate and Router; proxy.rs, handle).  The file   *)
(* is read and checked once; from then on resolve, claims_path and the     *)
(* default script decide for every request.                                *)
(*                                                                         *)
(* A path is a sequence of characters and a pattern one of tokens: a       *)
(* character stands for itself, the rest are the wildcards a glob may have. *)
(***************************************************************************)
EXTENDS Naturals, Sequences

CONSTANTS
    RouteConfigs,   \* what a [[route]] may say: [path, methods, script]
    BadMethods,     \* the texts http::Method refuses
    Methods,        \* the methods requests come with
    Paths,          \* the paths they name
    Default,        \* rune.default_script
    Refusal,        \* the 405
    None,           \* not answered yet
    MaxRoutes       \* bound: routes in the file

ASSUME RouterAssumption ==
    /\ \A r \in RouteConfigs :
        Len(r.path) \in Nat /\ r.script \notin {Default, Refusal, None}
    /\ Default # Refusal /\ Default # None /\ Refusal # None
    /\ MaxRoutes \in Nat

VARIABLES
    stage,     \* "reading", "building", "routed", "serving" or "refused"
    config,    \* Config::route, in the order of the file
    routes,    \* Router::routes; while building, what build has pushed so far
    request,   \* the request being routed: [method, path], or None
    outcome    \* the script it goes to, Default or Refusal

routerVars == <<stage, config, routes, request, outcome>>

Wildcards == {"*", "?", "**", "[ab]", "["}

\* A class that is never closed is what globset refuses here.
GoodGlob(pattern) == \A i \in DOMAIN pattern : pattern[i] # "["

\* What one token takes for one character; no wildcard but ** takes a slash.
Takes(token, char) ==
    \/ token = char
    \/ token = "?" /\ char # "/"
    \/ token = "[ab]" /\ char \in {"a", "b"}

\* GlobMatcher::is_match with literal_separator: a star takes what is left of a
\* segment, nothing included, and a final ** anything at all.
MatchesPath(pattern, path) ==
    LET from[i \in 1 .. Len(pattern) + 1, j \in 1 .. Len(path) + 1] ==
            IF i > Len(pattern) THEN j > Len(path)
            ELSE IF pattern[i] = "**" THEN TRUE
            ELSE IF pattern[i] = "*"
            THEN from[i + 1, j] \/ (j <= Len(path) /\ path[j] # "/" /\ from[i, j + 1])
            ELSE j <= Len(path) /\ Takes(pattern[i], path[j]) /\ from[i + 1, j + 1]
    IN from[1, 1]

\* Mutant: only a star ends the literal prefix.
PrefixToStar(pattern, n) ==
    /\ n <= Len(pattern)
    /\ \A i \in 1 .. n : pattern[i] \notin {"*", "**"}
    /\ n < Len(pattern) => pattern[n + 1] \in {"*", "**"}

\* n = literal_prefix_len(pattern): up to the first wildcard, or all of it.
IsPrefixLen(pattern, n) ==
    /\ n <= Len(pattern)
    /\ \A i \in 1 .. n : pattern[i] \notin Wildcards
    /\ n < Len(pattern) => pattern[n + 1] \in Wildcards

\* Route::allows: an empty list means any method.
Allows(route, method) == route.methods = {} \/ method \in route.methods

\* Route::matches
Matches(route, method, path) == Allows(route, method) /\ MatchesPath(route.path, path)

\* What a stable sort by Reverse(specificity) does: descending, ties as declared.
StablySorted(built, order) ==
    \A i, j \in DOMAIN order : i < j =>
        \/ built[order[i]].specificity > built[order[j]].specificity
        \/ /\ built[order[i]].specificity = built[order[j]].specificity
           /\ order[i] < order[j]

RouterInit ==
    /\ stage = "reading"
    /\ config = <<>>
    /\ routes = <<>>
    /\ request = None
    /\ outcome = None

\* The file has another [[route]].
Declare(r) ==
    /\ stage = "reading" /\ Len(config) < MaxRoutes
    /\ config' = Append(config, r)
    /\ UNCHANGED <<stage, routes, request, outcome>>

Duplicate == \E i, j \in DOMAIN config : i # j /\ config[i].path = config[j].path

\* Config::validate, over the routes, the path of external_base_url and which
\* half of the TLS pair is named.
Validate(base, cert, key) ==
    /\ stage = "reading"
    /\ stage' = IF Duplicate \/ base \notin {"", "/"} \/ cert # key
                THEN "refused" ELSE "building"
    /\ UNCHANGED <<config, routes, request, outcome>>

\* The route Router::build is at.
Upcoming == config[Len(routes) + 1]

\* Mutant: a route with a method that does not parse is left out, not refused.
BuildSkippingMethods ==
    /\ stage = "building" /\ Len(routes) < Len(config)
    /\ GoodGlob(Upcoming.path)
    /\ \E n \in 0 .. Len(Upcoming.path) :
        /\ IsPrefixLen(Upcoming.path, n)
        /\ routes' = Append(routes, [path |-> Upcoming.path, specificity |-> n,
                                     methods |-> Upcoming.methods \ BadMethods,
                                     script |-> Upcoming.script])
    /\ UNCHANGED <<stage, config, request, outcome>>

\* Router::build, one turn of its loop.
Build ==
    /\ stage = "building" /\ Len(routes) < Len(config)
    /\ GoodGlob(Upcoming.path) /\ Upcoming.methods \cap BadMethods = {}
    /\ \E n \in 0 .. Len(Upcoming.path) :
        /\ IsPrefixLen(Upcoming.path, n)
        /\ routes' = Append(routes, [path |-> Upcoming.path, specificity |-> n,
                                     methods |-> Upcoming.methods, script |-> Upcoming.script])
    /\ UNCHANGED <<stage, config, request, outcome>>

\* RouteError: the glob or a method does not parse.
RefuseRoute ==
    /\ stage = "building" /\ Len(routes) < Len(config)
    /\ ~GoodGlob(Upcoming.path) \/ Upcoming.methods \cap BadMethods # {}
    /\ stage' = "refused"
    /\ UNCHANGED <<config, routes, request, outcome>>

\* The sort at the end of Router::build.
Sort ==
    /\ stage = "building" /\ Len(routes) = Len(config)
    /\ \E order \in [DOMAIN routes -> DOMAIN routes] :
        /\ \A i, j \in DOMAIN routes : i # j => order[i] # order[j]
        /\ StablySorted(routes, order)
        /\ routes' = [i \in DOMAIN routes |-> routes[order[i]]]
    /\ stage' = "routed"
    /\ UNCHANGED <<config, request, outcome>>

\* The rest of AppState::build: an env_allow that is no regex, a CA file that is
\* none, or one beside accept_invalid_certs.
Connect(usable, ca, invalid) ==
    /\ stage = "routed"
    /\ stage' = IF usable /\ ~(ca /\ invalid) THEN "serving" ELSE "refused"
    /\ UNCHANGED <<config, routes, request, outcome>>

\* Router::resolve found routes[k]: the first that matches.
First(k, method, path) ==
    /\ Matches(routes[k], method, path)
    /\ \A i \in 1 .. k - 1 : ~Matches(routes[i], method, path)

\* Router::claims_path
ClaimsPath(path) == \E k \in DOMAIN routes : MatchesPath(routes[k].path, path)

\* Mutant: a path claimed for other methods is relayed like any other.
RouteRelaying(method, path) ==
    /\ stage = "serving" /\ request = None
    /\ request' = [method |-> method, path |-> path]
    /\ \/ \E k \in DOMAIN routes : First(k, method, path) /\ outcome' = routes[k].script
       \/ /\ \A k \in DOMAIN routes : ~Matches(routes[k], method, path)
          /\ outcome' = Default
    /\ UNCHANGED <<stage, config, routes>>

\* The choice handle makes.
Route(method, path) ==
    /\ stage = "serving" /\ request = None
    /\ request' = [method |-> method, path |-> path]
    /\ \/ \E k \in DOMAIN routes : First(k, method, path) /\ outcome' = routes[k].script
       \/ /\ \A k \in DOMAIN routes : ~Matches(routes[k], method, path)
          /\ outcome' = IF ClaimsPath(path) THEN Refusal ELSE Default
    /\ UNCHANGED <<stage, config, routes>>

\* The request is answered, and the next may come.
Answered ==
    /\ request # None
    /\ request' = None /\ outcome' = None
    /\ UNCHANGED <<stage, config, routes>>

RouterNext ==
    \/ \E r \in RouteConfigs : Declare(r)
    \/ \E base \in {"", "/", "/bmc"}, cert, key \in BOOLEAN : Validate(base, cert, key)
    \/ Build
    \/ RefuseRoute
    \/ Sort
    \/ \E usable, ca, invalid \in BOOLEAN : Connect(usable, ca, invalid)
    \/ \E method \in Methods, path \in Paths : Route(method, path)
    \/ Answered

RouterSpec == RouterInit /\ [][RouterNext]_routerVars

-----------------------------------------------------------------------------

RouterTypeOK ==
    /\ stage \in {"reading", "building", "routed", "serving", "refused"}
    /\ config \in Seq(RouteConfigs)
    /\ \A i \in DOMAIN routes :
        \E r \in RouteConfigs :
            /\ routes[i] = [path |-> r.path, specificity |-> routes[i].specificity,
                            methods |-> r.methods, script |-> r.script]
            /\ IsPrefixLen(r.path, routes[i].specificity)
    /\ request \in [method : Methods, path : Paths] \cup {None}
    /\ outcome \in {r.script : r \in RouteConfigs} \cup {Default, Refusal, None}

\* The literal prefix of one pattern is no shorter than that of another.
Outranks(one, other) ==
    \A n \in 0 .. Len(other.path) :
        (\A i \in 1 .. n : other.path[i] \notin Wildcards) =>
            n <= Len(one.path) /\ \A i \in 1 .. n : one.path[i] \notin Wildcards

Claims(r) == MatchesPath(r.path, request.path) /\ Allows(r, request.method)

\* A scripted request goes to the claiming route of the file with the longest
\* literal prefix, and among equals to the one declared first, whatever the
\* order of the file ("the most specific route wins", config.toml 47).
MostSpecificWins ==
    request # None /\ (\E i \in DOMAIN config : Claims(config[i])) =>
        \E i \in DOMAIN config :
            /\ Claims(config[i]) /\ outcome = config[i].script
            /\ \A j \in DOMAIN config : Claims(config[j]) =>
                 /\ Outranks(config[i], config[j])
                 /\ j < i => ~Outranks(config[j], config[i])

\* The default script, which relays to the BMC, only gets paths no route of the
\* file names, and a 405 is for paths that routes name for other methods alone.
RestrictionHolds ==
    request # None =>
        LET named == {i \in DOMAIN config : MatchesPath(config[i].path, request.path)}
        IN  /\ outcome = Default <=> named = {}
            /\ outcome = Refusal <=> named # {} /\ \A i \in named : ~Claims(config[i])
=============================================================================
