-------------------------- MODULE ScriptHostProofs --------------------------
(***************************************************************************)
(* Proofs about the scripts that run, for any scripts, texts, requests,    *)
(* edits and restarts.  What the loader has read is still what is on disk  *)
(* as long as no edit came after the last SIGHUP, and a script that is     *)
(* missing from what it read went away after the start.                    *)
(*                                                                         *)
(* The second half is about the routes a request is served by, for any     *)
(* file of any length: the sorted table is a rearrangement of the file in  *)
(* which what comes first is at least as specific and, among equals, was   *)
(* declared first, so that the first match is the one the file means.      *)
(***************************************************************************)
EXTENDS ScriptHost, Router, FiniteSetTheorems, TLAPS

\* The loader and the signal handler: what is at rest when nothing loads, and
\* what no phase of the process can show.
AtRest ==
    /\ ~loading => todo = {} /\ opening = Absent
    /\ phase = "starting" => loading /\ ~armed
    /\ phase = "stopped" => ~loading /\ ~armed
    /\ hangup => armed
    /\ \A s \in Scripts : s \in todo \/ s = opening => got[s] = Absent
    /\ opening \notin todo

\* Nothing was edited since the last SIGHUP and that one has been received:
\* what was read is on disk, and so is what the last load made live.
Fresh ==
    ~hangup /\ ~edited =>
        /\ loading =>
             /\ \A s \in Scripts : s \notin todo /\ s # opening => got[s] = disk[s]
             /\ opening # Absent => disk[opening] # Absent
        /\ phase = "serving" /\ ~loading => units = disk \/ ~Compiles(disk)

\* A named script missing from anywhere was removed since the start.
Stay ==
    /\ phase = "starting" =>
         \A s \in Scripts : got[s] # Absent /\ disk[s] = Absent => s \in removed
    /\ phase = "serving" =>
         \A s \in Needed :
            /\ disk[s] = Absent \/ units[s] = Absent => s \in removed
            /\ loading /\ s \notin todo /\ s # opening /\ got[s] = Absent => s \in removed

\* The inductive invariant.
IInv ==
    /\ TypeOK
    /\ AtRest
    /\ Fresh
    /\ Stay
    /\ OnlyCompiledRuns

\* No file at all compiles, and is a directory.
LEMMA NoFilesCompile ==
    /\ NoFiles \in Files
    /\ Compiles(NoFiles)
    /\ \A s \in Scripts : NoFiles[s] = Absent
BY HostAssumption DEF NoFiles, Files, Compiles

\* The end of the process leaves the disk and what was done to it.
LEMMA GoneSteps ==
    ASSUME IInv, Gone, UNCHANGED <<disk, book>>
    PROVE  IInv'
<1> USE NoFilesCompile, HostAssumption
<1>1. TypeOK'
  BY DEF Gone, EndLoad, CutExchanges, IInv, TypeOK, book, counters, history
<1>2. AtRest' /\ Fresh' /\ Stay'
  BY DEF Gone, EndLoad, AtRest, Fresh, Stay
<1>3. OnlyCompiledRuns'
  BY DEF Gone, CutExchanges, OnlyCompiledRuns, Compiles
<1> QED
  BY <1>1, <1>2, <1>3 DEF IInv

\* The process and its signals.
LEMMA ServerSteps ==
    ASSUME IInv, Start \/ Arm \/ Hangup \/ Stop
    PROVE  IInv'
<1> USE NoFilesCompile, HostAssumption
<1>1. CASE Start
  <2>1. TypeOK'
    <3>1. starts' \in 0 .. MaxStarts
      <4>1. starts \in 0 .. MaxStarts
        BY DEF IInv, TypeOK
      <4> QED
        BY <1>1, <4>1 DEF Start
    <3> QED
      BY <1>1, <3>1 DEF Start, StartLoad, exchange, IInv, TypeOK
  <2>2. AtRest'
    BY <1>1 DEF Start, StartLoad, IInv, AtRest
  <2>3. Fresh' /\ Stay'
    BY <1>1 DEF Start, StartLoad, Fresh, Stay
  <2>4. OnlyCompiledRuns'
    BY <1>1 DEF Start, exchange, IInv, OnlyCompiledRuns, Compiles
  <2> QED
    BY <2>1, <2>2, <2>3, <2>4 DEF IInv
<1>2. CASE Arm
  BY <1>2 DEF Arm, loader, exchange, book, counters, history,
              IInv, TypeOK, AtRest, Fresh, Stay, OnlyCompiledRuns, Compiles
<1>3. CASE Hangup
  <2>1. CASE armed
    <3>1. /\ hangup' = TRUE /\ edited' = FALSE
          /\ UNCHANGED <<disk, phase, armed, units, loading, todo, opening, got, removed>>
          /\ UNCHANGED <<req, ver, status, edits, starts>>
      BY <1>3, <2>1 DEF Hangup, loader, exchange, counters
    <3>2. TypeOK'
      BY <3>1 DEF IInv, TypeOK
    <3>3. AtRest' /\ Fresh'
      BY <2>1, <3>1 DEF IInv, AtRest, Fresh
    <3>4. Stay' /\ OnlyCompiledRuns'
      BY <3>1 DEF IInv, Stay, OnlyCompiledRuns, Compiles
    <3> QED
      BY <3>2, <3>3, <3>4 DEF IInv
  <2>2. CASE ~armed
    BY <1>3, <2>2, GoneSteps DEF Hangup, book, history
  <2> QED
    BY <2>1, <2>2
<1>4. CASE Stop
  BY <1>4, GoneSteps DEF Stop
<1> QED
  BY <1>1, <1>2, <1>3, <1>4

\* A load that finds out what is there.
LEMMA ReadingSteps ==
    ASSUME IInv, Receive \/ (\E s \in Scripts : Visit(s)) \/ Read
    PROVE  IInv'
<1> USE NoFilesCompile, HostAssumption
<1>1. CASE Receive
  <2>1. TypeOK'
    BY <1>1 DEF Receive, StartLoad, exchange, book, counters, history, IInv, TypeOK
  <2>2. AtRest'
    BY <1>1 DEF Receive, StartLoad, IInv, AtRest
  <2>3. Fresh' /\ Stay'
    BY <1>1 DEF Receive, StartLoad, book, history, IInv, Fresh, Stay
  <2>4. OnlyCompiledRuns'
    BY <1>1 DEF Receive, exchange, IInv, OnlyCompiledRuns, Compiles
  <2> QED
    BY <2>1, <2>2, <2>3, <2>4 DEF IInv
<1>2. ASSUME NEW s \in Scripts, Visit(s)
      PROVE  IInv'
  <2>1. /\ loading /\ opening = Absent /\ s \in todo /\ todo' = todo \ {s}
        /\ UNCHANGED <<disk, phase, armed, hangup, units, loading, got, edited, removed>>
        /\ UNCHANGED <<req, ver, status, edits, starts>>
    BY <1>2 DEF Visit, server, exchange, book, counters, history
  <2>2. got[s] = Absent
    BY <2>1 DEF IInv, AtRest
  <2>3. \/ disk[s] = Absent /\ opening' = Absent
        \/ disk[s] # Absent /\ opening' = s
    BY <1>2 DEF Visit
  <2>4. TypeOK'
    BY <2>1, <2>3 DEF IInv, TypeOK
  <2>5. AtRest'
    BY <2>1, <2>2, <2>3 DEF IInv, AtRest
  <2>6. Fresh'
    BY <2>1, <2>2, <2>3 DEF IInv, Fresh, Compiles
  <2>7. Stay'
    BY <2>1, <2>2, <2>3 DEF IInv, Stay
  <2>8. OnlyCompiledRuns'
    BY <2>1 DEF IInv, OnlyCompiledRuns, Compiles
  <2> QED
    BY <2>4, <2>5, <2>6, <2>7, <2>8 DEF IInv
<1>3. CASE Read
  <2>1. /\ loading /\ opening \in Scripts /\ opening' = Absent /\ disk[opening] # Absent
        /\ got' = [got EXCEPT ![opening] = disk[opening]]
        /\ UNCHANGED <<disk, phase, armed, hangup, units, loading, todo, edited, removed>>
        /\ UNCHANGED <<req, ver, status, edits, starts>>
    BY <1>3 DEF Read, server, exchange, book, counters, history, IInv, TypeOK
  <2>2. /\ got \in [Scripts -> Versions \cup {Absent}] /\ disk \in [Scripts -> Versions \cup {Absent}]
    BY DEF IInv, TypeOK, Files
  <2>3. /\ got' \in [Scripts -> Versions \cup {Absent}]
        /\ got'[opening] = disk[opening]
        /\ \A s \in Scripts : s # opening => got'[s] = got[s]
    BY <2>1, <2>2
  <2>4. TypeOK'
    BY <2>1, <2>3 DEF IInv, TypeOK, Files
  <2>5. AtRest'
    BY <2>1, <2>3, HostAssumption DEF IInv, TypeOK, AtRest
  <2>6. Fresh'
    BY <2>1, <2>3 DEF IInv, Fresh, Compiles
  <2>7. Stay'
    BY <2>1, <2>3 DEF IInv, Stay
  <2>8. OnlyCompiledRuns'
    BY <2>1 DEF IInv, OnlyCompiledRuns, Compiles
  <2> QED
    BY <2>4, <2>5, <2>6, <2>7, <2>8 DEF IInv
<1> QED
  BY <1>1, <1>2, <1>3

\* A load that fails: the process exits, or what was live stays so.
LEMMA FailingSteps ==
    ASSUME IInv, Vanished \/ CompileFails
    PROVE  IInv'
<1> USE NoFilesCompile, HostAssumption
<1>1. loading /\ Abandon /\ UNCHANGED <<disk, book>>
  BY DEF Vanished, CompileFails, AllRead
<1>2. CASE phase = "starting"
  BY <1>1, <1>2, GoneSteps DEF Abandon
<1>3. CASE phase # "starting"
  <2>1. /\ EndLoad /\ phase = "serving"
        /\ UNCHANGED <<disk, phase, armed, hangup, units, edited, removed>>
        /\ UNCHANGED <<req, ver, status, edits, starts>>
    BY <1>1, <1>3 DEF Abandon, server, exchange, book, counters, history, IInv, TypeOK, AtRest
  <2>2. ~hangup /\ ~edited => ~Compiles(disk)
    <3>1. CASE Vanished
      BY <3>1 DEF Vanished, IInv, Fresh
    <3>2. CASE CompileFails
      BY <3>2 DEF CompileFails, AllRead, IInv, Fresh, Compiles
    <3> QED
      BY <3>1, <3>2
  <2>3. TypeOK'
    BY <2>1 DEF EndLoad, IInv, TypeOK
  <2>4. AtRest'
    BY <2>1 DEF EndLoad, IInv, AtRest
  <2>5. Fresh'
    BY <2>1, <2>2 DEF EndLoad, Fresh, Compiles
  <2>6. Stay'
    BY <2>1 DEF EndLoad, IInv, Stay
  <2>7. OnlyCompiledRuns'
    BY <2>1 DEF IInv, OnlyCompiledRuns, Compiles
  <2> QED
    BY <2>3, <2>4, <2>5, <2>6, <2>7 DEF IInv
<1> QED
  BY <1>2, <1>3

\* A load that succeeds, at startup or on a reload.
LEMMA GoLiveSteps ==
    ASSUME IInv, Swap \/ Serve
    PROVE  IInv'
<1> USE NoFilesCompile, HostAssumption
<1>1. /\ loading /\ todo = {} /\ opening = Absent /\ Compiles(got)
      /\ EndLoad /\ units' = got /\ phase' = "serving"
      /\ phase = "serving" \/ (phase = "starting" /\ Complete(got))
      /\ UNCHANGED <<disk, armed, hangup, edited, removed>>
      /\ UNCHANGED <<req, ver, status, edits, starts>>
  BY DEF Swap, Serve, AllRead, exchange, book, counters, history
<1>2. got \in Files /\ disk \in Files /\ \A s \in Scripts : s \notin todo /\ s # opening
  BY <1>1 DEF IInv, TypeOK
<1>3. TypeOK'
  BY <1>1, <1>2 DEF EndLoad, IInv, TypeOK
<1>4. AtRest'
  BY <1>1 DEF EndLoad, IInv, AtRest
<1>5. Fresh'
  <2>1. ~hangup /\ ~edited => got = disk
    BY <1>1, <1>2 DEF IInv, Fresh, Files
  <2> QED
    BY <1>1, <2>1 DEF EndLoad, Fresh
<1>6. Stay'
  BY <1>1, <1>2 DEF EndLoad, IInv, Stay, Complete
<1>7. OnlyCompiledRuns'
  BY <1>1 DEF IInv, OnlyCompiledRuns, Compiles
<1> QED
  BY <1>3, <1>4, <1>5, <1>6, <1>7 DEF IInv

\* What a request runs is a unit of its snapshot.
LEMMA RequestSteps ==
    ASSUME IInv, NEW r \in Requests,
           \/ Arrive(r) \/ BadBody(r) \/ MethodNotAllowed(r)
           \/ (\E s \in Needed : Execute(r, s)) \/ Finish(r) \/ Leave(r)
    PROVE  IInv'
<1> USE HostAssumption
<1>1. UNCHANGED <<disk, phase, armed, hangup, units, loading, todo, opening, got, edits, starts,
                  edited, removed>>
  BY DEF Arrive, BadBody, MethodNotAllowed, Execute, Finish, Leave, server, loader,
         book, counters, history
<1>2. /\ req' \in [Requests -> {"idle", "body", "running", "answered"}]
      /\ status' \in [Requests -> {"none", "400", "405", "no script", "script", "502"}]
      /\ ver' \in [Requests -> Versions \cup {Absent}]
  <2>1. req' \in [Requests -> {"idle", "body", "running", "answered"}]
    BY DEF Arrive, BadBody, MethodNotAllowed, Execute, Finish, Leave, Answer, IInv, TypeOK
  <2>2. status' \in [Requests -> {"none", "400", "405", "no script", "script", "502"}]
    BY DEF Arrive, BadBody, MethodNotAllowed, Execute, Finish, Leave, Answer, IInv, TypeOK
  <2>3. \A s \in Needed : units[s] \in Versions \cup {Absent}
    BY DEF IInv, TypeOK, Files
  <2>4. ver' \in [Requests -> Versions \cup {Absent}]
    BY <2>3 DEF Arrive, BadBody, MethodNotAllowed, Execute, Finish, Leave, IInv, TypeOK
  <2> QED
    BY <2>1, <2>2, <2>4
<1>3. ASSUME NEW q \in Requests, req'[q] = "running"
      PROVE  ver'[q] # Absent /\ ver'[q] \notin Broken
  <2>1. CASE \E s \in Needed : Execute(r, s) /\ units[s] # Absent /\ q = r
    BY <2>1 DEF Execute, IInv, TypeOK, OnlyCompiledRuns, Compiles
  <2>2. CASE req[q] = "running" /\ ver'[q] = ver[q]
    BY <2>2 DEF IInv, TypeOK, OnlyCompiledRuns
  <2> QED
    BY <1>3, <2>1, <2>2
    DEF Arrive, BadBody, MethodNotAllowed, Execute, Finish, Leave, Answer, IInv, TypeOK
<1>4. TypeOK'
  BY <1>1, <1>2, <1>3 DEF IInv, TypeOK
<1>5. AtRest' /\ Fresh' /\ Stay'
  BY <1>1 DEF IInv, AtRest, Fresh, Stay, Compiles
<1>6. OnlyCompiledRuns'
  BY <1>1, <1>3 DEF IInv, OnlyCompiledRuns, Compiles
<1> QED
  BY <1>4, <1>5, <1>6 DEF IInv

\* The operator changes one file.
LEMMA EditSteps ==
    ASSUME IInv, NEW s \in Scripts, NEW v \in Versions \cup {Absent}, Edit(s, v)
    PROVE  IInv'
<1> USE HostAssumption
<1>1. /\ disk' = [disk EXCEPT ![s] = v] /\ edited' = TRUE
      /\ removed' = IF v = Absent THEN removed \cup {s} ELSE removed
      /\ edits' = edits + 1 /\ edits < MaxEdits
      /\ UNCHANGED <<phase, armed, hangup, units, loading, todo, opening, got>>
      /\ UNCHANGED <<req, ver, status, starts>>
  BY DEF Edit, server, loader, exchange
<1>2. TypeOK'
  <2>1. disk' \in Files
    BY <1>1 DEF IInv, TypeOK, Files
  <2>2. edits' \in 0 .. MaxEdits
    <3>1. edits \in 0 .. MaxEdits
      BY DEF IInv, TypeOK
    <3> QED
      BY <1>1, <3>1
  <2> QED
    BY <1>1, <2>1, <2>2 DEF IInv, TypeOK
<1>3. \A q \in Scripts : disk'[q] = Absent => q \in removed' \/ disk[q] = Absent
  BY <1>1 DEF IInv, TypeOK, Files
<1>4. removed \subseteq removed'
  BY <1>1
<1>5. Stay'
  BY <1>1, <1>3, <1>4 DEF IInv, Stay
<1>6. AtRest' /\ Fresh'
  BY <1>1 DEF IInv, AtRest, Fresh
<1>7. OnlyCompiledRuns'
  BY <1>1 DEF IInv, OnlyCompiledRuns, Compiles
<1> QED
  BY <1>2, <1>5, <1>6, <1>7 DEF IInv

\* The invariant is inductive.
LEMMA Inductive ==
    Spec => []IInv
<1>1. Init => IInv
  <2> SUFFICES ASSUME Init PROVE IInv
    OBVIOUS
  <2>1. TypeOK
    <3>1. edits \in 0 .. MaxEdits /\ starts \in 0 .. MaxStarts
      BY HostAssumption DEF Init
    <3>2. /\ req \in [Requests -> {"idle", "body", "running", "answered"}]
          /\ ver \in [Requests -> Versions \cup {Absent}]
          /\ status \in [Requests -> {"none", "400", "405", "no script", "script", "502"}]
          /\ \A r \in Requests : req[r] # "running"
      BY DEF Init, NoExchange
    <3> QED
      BY <3>1, <3>2, NoFilesCompile DEF Init, NoLoad, TypeOK
  <2> QED
    BY <2>1, NoFilesCompile, HostAssumption
    DEF Init, NoLoad, NoExchange, IInv, AtRest, Fresh, Stay, OnlyCompiledRuns
<1>2. IInv /\ [Next]_vars => IInv'
  <2> SUFFICES ASSUME IInv, [Next]_vars PROVE IInv'
    OBVIOUS
  <2>1. CASE Start \/ Arm \/ Hangup \/ Stop
    BY <2>1, ServerSteps
  <2>2. CASE Receive \/ (\E s \in Scripts : Visit(s)) \/ Read
    BY <2>2, ReadingSteps
  <2>3. CASE Vanished \/ CompileFails
    BY <2>3, FailingSteps
  <2>4. CASE Swap \/ Serve
    BY <2>4, GoLiveSteps
  <2>5. CASE CheckPasses \/ RefuseStart
    BY <2>5, GoneSteps DEF CheckPasses, RefuseStart
  <2>6. CASE \E r \in Requests :
               \/ Arrive(r) \/ BadBody(r) \/ MethodNotAllowed(r)
               \/ (\E s \in Needed : Execute(r, s)) \/ Finish(r) \/ Leave(r)
    BY <2>6, RequestSteps
  <2>7. CASE \E s \in Scripts, v \in Versions \cup {Absent} : Edit(s, v)
    BY <2>7, EditSteps
  <2>8. CASE UNCHANGED vars
    BY <2>8 DEF vars, server, loader, exchange, book, counters, history,
                IInv, TypeOK, AtRest, Fresh, Stay, OnlyCompiledRuns, Compiles
  <2> QED
    BY <2>1, <2>2, <2>3, <2>4, <2>5, <2>6, <2>7, <2>8 DEF Next, LoaderStep
<1> QED
  BY <1>1, <1>2, PTL DEF Spec

\* The state of the process, the loader and the requests is what it is declared
\* to be, and a request that runs has a unit.
THEOREM HostTypeCorrect ==
    Spec => []TypeOK
<1>1. IInv => TypeOK
  BY DEF IInv
<1> QED
  BY Inductive, <1>1, PTL

\* A text that does not compile is never live and never runs (rune_host.rs,
\* compile_dir and reload).
THEOREM CompiledRuns ==
    Spec => []OnlyCompiledRuns
<1>1. IInv => OnlyCompiledRuns
  BY DEF IInv
<1> QED
  BY Inductive, <1>1, PTL

\* A reload that is over has what was on disk when the last SIGHUP came, if
\* that compiles and was left alone (main.rs, spawn_reload_listener).
THEOREM FreshAfterReload ==
    Spec => []ReloadIsFresh
<1>1. IInv => ReloadIsFresh
  BY DEF IInv, Fresh, ReloadIsFresh
<1> QED
  BY Inductive, <1>1, PTL

\* A script that a route names is missing only if its file was removed since
\* the start (rune_host.rs, load_for).
THEOREM NamedStay ==
    Spec => []NamedScriptsStay
<1>1. IInv => NamedScriptsStay
  BY DEF IInv, Stay, NamedScriptsStay
<1> QED
  BY Inductive, <1>1, PTL

-----------------------------------------------------------------------------
(* The routes.                                                             *)

\* What Router::build makes of a [[route]].
Entry(r, n) == [path |-> r.path, specificity |-> n, methods |-> r.methods, script |-> r.script]

Entries == {Entry(r, n) : r \in RouteConfigs, n \in Nat}

\* The i-th of the routes is what was built of the k-th of the file.
Placed(i, k) ==
    /\ routes[i] = Entry(config[k], routes[i].specificity)
    /\ routes[i].specificity \in 0 .. Len(config[k].path)
    /\ IsPrefixLen(config[k].path, routes[i].specificity)

\* While building: the routes of the file so far, in its order.
InStep ==
    /\ stage = "reading" => Len(routes) = 0
    /\ stage = "building" =>
         Len(routes) <= Len(config) /\ \A i \in DOMAIN routes : Placed(i, i)

\* The routes are those of the file, all of them, in this order: the more
\* specific first, and equals as they were declared.
ArrangedBy(order) ==
    /\ DOMAIN routes = DOMAIN config
    /\ order \in [DOMAIN config -> DOMAIN config]
    /\ \A k \in DOMAIN config : \E i \in DOMAIN config : order[i] = k
    /\ \A i \in DOMAIN config : Placed(i, order[i])
    /\ \A i, j \in DOMAIN config : i < j =>
         \/ routes[i].specificity > routes[j].specificity
         \/ routes[i].specificity = routes[j].specificity /\ order[i] < order[j]

Arranged ==
    stage \in {"routed", "serving"} =>
        \E order \in [DOMAIN config -> DOMAIN config] : ArrangedBy(order)

\* The inductive invariant: an answer is only given by a sorted table.
RouterInv ==
    /\ RouterTypeOK
    /\ routes \in Seq(Entries)
    /\ InStep
    /\ Arranged
    /\ request # None => stage = "serving"
    /\ MostSpecificWins
    /\ RestrictionHolds

-----------------------------------------------------------------------------
(* Facts about patterns and arrangements.                                  *)

\* A route is for the path, or claims the request, if and only if its [[route]]
\* does.
LEMMA PlacedMatches ==
    ASSUME NEW i, NEW k, Placed(i, k), NEW method, NEW path
    PROVE  /\ routes[i].path = config[k].path
           /\ routes[i].script = config[k].script
           /\ MatchesPath(routes[i].path, path) <=> MatchesPath(config[k].path, path)
           /\ Matches(routes[i], method, path)
                <=> Allows(config[k], method) /\ MatchesPath(config[k].path, path)
<1>1. /\ routes[i].path = config[k].path
      /\ routes[i].methods = config[k].methods
      /\ routes[i].script = config[k].script
  BY DEF Placed, Entry
<1> QED
  BY <1>1 DEF Matches, Allows

\* The prefix that literal_prefix_len finds is the longest.
LEMMA LongestPrefix ==
    ASSUME NEW p, Len(p) \in Nat, NEW n \in 0 .. Len(p), IsPrefixLen(p, n),
           NEW m \in 0 .. Len(p), \A i \in 1 .. m : p[i] \notin Wildcards
    PROVE  m <= n
<1>1. SUFFICES ASSUME n < m PROVE FALSE
  OBVIOUS
<1>2. n + 1 \in 1 .. m /\ n < Len(p)
  BY <1>1
<1>3. p[n + 1] \in Wildcards
  BY <1>2 DEF IsPrefixLen
<1> QED
  BY <1>2, <1>3

\* To outrank is to have a specificity no smaller.
LEMMA OutranksIsSpecificity ==
    ASSUME NEW one \in RouteConfigs, NEW other \in RouteConfigs,
           NEW n \in 0 .. Len(one.path), IsPrefixLen(one.path, n),
           NEW m \in 0 .. Len(other.path), IsPrefixLen(other.path, m)
    PROVE  Outranks(one, other) <=> n >= m
<1> USE RouterAssumption
<1>1. ASSUME n >= m, NEW l \in 0 .. Len(other.path),
             \A i \in 1 .. l : other.path[i] \notin Wildcards
      PROVE  l <= Len(one.path) /\ \A i \in 1 .. l : one.path[i] \notin Wildcards
  <2>1. l <= m
    BY <1>1, LongestPrefix
  <2>2. l <= n /\ n <= Len(one.path)
    BY <2>1, <1>1
  <2>3. \A i \in 1 .. l : i \in 1 .. n
    BY <2>2
  <2> QED
    BY <2>2, <2>3 DEF IsPrefixLen
<1>2. ASSUME Outranks(one, other)
      PROVE  n >= m
  <2>1. m <= Len(one.path) /\ \A i \in 1 .. m : one.path[i] \notin Wildcards
    BY <1>2 DEF Outranks, IsPrefixLen
  <2> QED
    BY <2>1, LongestPrefix
<1> QED
  BY <1>1, <1>2 DEF Outranks

\* An injection of the positions of a finite sequence into themselves reaches
\* every one.
LEMMA Permutes ==
    ASSUME NEW n \in Nat, NEW order \in [1 .. n -> 1 .. n],
           \A i, j \in 1 .. n : i # j => order[i] # order[j]
    PROVE  \A k \in 1 .. n : \E i \in 1 .. n : order[i] = k
<1>1. IsFiniteSet(1 .. n)
  BY FS_Interval
<1>2. order \in Injection(1 .. n, 1 .. n)
  BY DEF Injection, IsInjective
<1>3. order \in Surjection(1 .. n, 1 .. n)
  BY <1>1, <1>2, FS_Injection
<1> QED
  BY <1>3 DEF Surjection

-----------------------------------------------------------------------------
(* Building and sorting.                                                   *)

\* Another route is pushed, where its [[route]] stands in the file.
LEMMA BuildSteps ==
    ASSUME RouterInv, Build
    PROVE  RouterInv'
<1> USE RouterAssumption
<1>1. /\ stage = "building" /\ Len(routes) < Len(config)
      /\ UNCHANGED <<stage, config, request, outcome>>
  BY DEF Build
<1>2. /\ config \in Seq(RouteConfigs) /\ routes \in Seq(Entries)
      /\ Len(routes) \in Nat /\ Len(config) \in Nat
  BY DEF RouterInv, RouterTypeOK
<1> PICK at \in Nat : at = Len(routes) + 1
  BY <1>2
<1>3. at \in 1 .. Len(config) /\ Upcoming = config[at] /\ Upcoming \in RouteConfigs
  BY <1>1, <1>2 DEF Upcoming
<1>4. PICK n \in 0 .. Len(Upcoming.path) :
        IsPrefixLen(Upcoming.path, n) /\ routes' = Append(routes, Entry(Upcoming, n))
  BY DEF Build, Entry
<1>5. n \in Nat /\ Entry(Upcoming, n) \in Entries
  BY <1>3, <1>4 DEF Entries
<1>6. /\ routes' \in Seq(Entries)
      /\ Len(routes') = at /\ DOMAIN routes' = 1 .. at
      /\ \A i \in 1 .. Len(routes) : routes'[i] = routes[i]
      /\ routes'[at] = Entry(Upcoming, n)
  BY <1>2, <1>4, <1>5
<1>7. Placed(at, at)'
  BY <1>1, <1>3, <1>4, <1>6 DEF Placed, Entry
<1>8. ASSUME NEW i \in 1 .. at
      PROVE  Placed(i, i)'
  <2>1. CASE i = at
    BY <2>1, <1>7
  <2>2. CASE i # at
    <3>1. i \in 1 .. Len(routes)
      BY <2>2, <1>2
    <3>2. Placed(i, i)
      BY <3>1, <1>1, <1>2 DEF RouterInv, InStep
    <3> QED
      BY <3>1, <3>2, <1>1, <1>6 DEF Placed
  <2> QED
    BY <2>1, <2>2
<1>9. InStep'
  BY <1>1, <1>2, <1>3, <1>6, <1>8 DEF InStep
<1>10. RouterTypeOK'
  <2>1. ASSUME NEW i \in DOMAIN routes'
        PROVE  \E r \in RouteConfigs :
                 /\ routes'[i] = [path |-> r.path, specificity |-> routes'[i].specificity,
                                  methods |-> r.methods, script |-> r.script]
                 /\ IsPrefixLen(r.path, routes'[i].specificity)
    <3>1. i \in 1 .. at /\ config[i] \in RouteConfigs
      BY <1>2, <1>3, <1>6
    <3> QED
      BY <3>1, <1>1, <1>8 DEF Placed, Entry
  <2> QED
    BY <2>1, <1>1 DEF RouterInv, RouterTypeOK
<1>11. request' = None
  BY <1>1 DEF RouterInv
<1> QED
  BY <1>1, <1>6, <1>9, <1>10, <1>11 DEF RouterInv, Arranged, MostSpecificWins, RestrictionHolds

\* The sort arranges the whole file.
LEMMA SortSteps ==
    ASSUME RouterInv, Sort
    PROVE  RouterInv'
<1> USE RouterAssumption
<1>1. /\ stage = "building" /\ Len(routes) = Len(config)
      /\ stage' = "routed"
      /\ UNCHANGED <<config, request, outcome>>
  BY DEF Sort
<1>2. /\ config \in Seq(RouteConfigs) /\ routes \in Seq(Entries)
      /\ Len(config) \in Nat
      /\ DOMAIN routes = 1 .. Len(config) /\ DOMAIN config = 1 .. Len(config)
  BY <1>1 DEF RouterInv, RouterTypeOK
<1> DEFINE N == Len(config)
<1>3. PICK order \in [1 .. N -> 1 .. N] :
        /\ \A i, j \in 1 .. N : i # j => order[i] # order[j]
        /\ StablySorted(routes, order)
        /\ routes' = [i \in 1 .. N |-> routes[order[i]]]
  <2>1. PICK order \in [DOMAIN routes -> DOMAIN routes] :
          /\ \A i, j \in DOMAIN routes : i # j => order[i] # order[j]
          /\ StablySorted(routes, order)
          /\ routes' = [i \in DOMAIN routes |-> routes[order[i]]]
    BY DEF Sort
  <2> QED
    BY <2>1, <1>2
<1>4. \A i \in 1 .. N : routes'[i] = routes[order[i]] /\ order[i] \in 1 .. N
  BY <1>3
<1>5. DOMAIN routes' = 1 .. N /\ routes' \in Seq(Entries) /\ Len(routes') = N
  <2>1. \A i \in 1 .. N : routes[i] \in Entries
    BY <1>2
  <2>2. routes' \in [1 .. N -> Entries]
    BY <2>1, <1>3, <1>4
  <2> QED
    BY <2>2, <1>2
<1>6. ASSUME NEW i \in 1 .. N
      PROVE  Placed(i, order[i])'
  <2>1. Placed(order[i], order[i])
    BY <1>1, <1>2, <1>4 DEF RouterInv, InStep
  <2> QED
    BY <2>1, <1>1, <1>4 DEF Placed
<1>7. \A k \in 1 .. N : \E i \in 1 .. N : order[i] = k
  BY <1>2, <1>3, Permutes
<1>8. ASSUME NEW i \in 1 .. N, NEW j \in 1 .. N, i < j
      PROVE  \/ routes'[i].specificity > routes'[j].specificity
             \/ routes'[i].specificity = routes'[j].specificity /\ order[i] < order[j]
  BY <1>3, <1>4, <1>8 DEF StablySorted
<1>9. ArrangedBy(order)'
  BY <1>1, <1>2, <1>3, <1>5, <1>6, <1>7, <1>8 DEF ArrangedBy
<1>10. Arranged'
  BY <1>1, <1>2, <1>9 DEF Arranged
<1>11. RouterTypeOK'
  <2>1. ASSUME NEW i \in DOMAIN routes'
        PROVE  \E r \in RouteConfigs :
                 /\ routes'[i] = [path |-> r.path, specificity |-> routes'[i].specificity,
                                  methods |-> r.methods, script |-> r.script]
                 /\ IsPrefixLen(r.path, routes'[i].specificity)
    <3>1. i \in 1 .. N /\ config[order[i]] \in RouteConfigs
      BY <1>2, <1>4, <1>5
    <3> QED
      BY <3>1, <1>1, <1>6 DEF Placed, Entry
  <2> QED
    BY <2>1, <1>1 DEF RouterInv, RouterTypeOK
<1>12. request' = None
  BY <1>1 DEF RouterInv
<1> QED
  BY <1>1, <1>5, <1>10, <1>11, <1>12 DEF RouterInv, InStep, MostSpecificWins, RestrictionHolds

-----------------------------------------------------------------------------
(* Routing.                                                                *)

\* The first of the sorted routes that matches is the one the file means.
LEMMA FirstIsMeant ==
    ASSUME RouterInv, NEW order, ArrangedBy(order), NEW k \in DOMAIN config,
           NEW method, NEW path, First(k, method, path)
    PROVE  LET c == config[order[k]]
               claims(r) == MatchesPath(r.path, path) /\ Allows(r, method)
           IN  /\ claims(c) /\ routes[k].script = c.script
               /\ \A j \in DOMAIN config : claims(config[j]) =>
                    /\ Outranks(c, config[j])
                    /\ j < order[k] => ~Outranks(config[j], c)
<1> DEFINE c == config[order[k]]
           claims(r) == MatchesPath(r.path, path) /\ Allows(r, method)
<1>1. /\ config \in Seq(RouteConfigs) /\ Len(config) \in Nat
      /\ DOMAIN config = 1 .. Len(config)
      /\ order[k] \in DOMAIN config
  BY DEF RouterInv, RouterTypeOK, ArrangedBy
<1>2. Placed(k, order[k])
  BY DEF ArrangedBy
<1>3. claims(c) /\ routes[k].script = c.script
  BY <1>2, PlacedMatches DEF First
<1>4. ASSUME NEW j \in DOMAIN config, claims(config[j])
      PROVE  Outranks(c, config[j]) /\ (j < order[k] => ~Outranks(config[j], c))
  <2>1. PICK i \in DOMAIN config : order[i] = j
    BY DEF ArrangedBy
  <2>2. Placed(i, j)
    BY <2>1 DEF ArrangedBy
  <2>3. Matches(routes[i], method, path)
    BY <2>2, <1>4, PlacedMatches
  <2>4. ~(i < k)
    BY <2>3, <1>1 DEF First
  <2> DEFINE n == routes[k].specificity
             m == routes[i].specificity
  <2>5. /\ c \in RouteConfigs /\ config[j] \in RouteConfigs
        /\ n \in 0 .. Len(c.path) /\ IsPrefixLen(c.path, n)
        /\ m \in 0 .. Len(config[j].path) /\ IsPrefixLen(config[j].path, m)
    BY <1>1, <1>2, <2>2 DEF Placed
  <2>6. n \in Nat /\ m \in Nat
    BY <2>5, RouterAssumption
  <2>7. n > m \/ (n = m /\ ~(j < order[k]))
    <3>1. CASE i = k
      BY <3>1, <2>1, <2>6, <1>1
    <3>2. CASE k < i
      <4>1. n > m \/ (n = m /\ order[k] < order[i])
        BY <3>2 DEF ArrangedBy
      <4> QED
        BY <4>1, <2>1, <1>1
    <3> QED
      BY <3>1, <3>2, <2>4, <1>1
  <2>8. Outranks(c, config[j]) <=> n >= m
    BY <2>5, OutranksIsSpecificity
  <2>9. Outranks(config[j], c) <=> m >= n
    BY <2>5, OutranksIsSpecificity
  <2> QED
    BY <2>6, <2>7, <2>8, <2>9
<1> QED
  BY <1>3, <1>4

\* A table left alone, in the phases where it is one, stays in order.
LEMMA TableKept ==
    ASSUME InStep, Arranged, UNCHANGED <<config, routes>>,
           \/ stage' = stage
           \/ stage' = "refused"
           \/ stage = "routed" /\ stage' = "serving"
    PROVE  InStep' /\ Arranged'
<1>1. InStep'
  BY DEF InStep, Placed
<1>2. ASSUME NEW order \in [DOMAIN config -> DOMAIN config], ArrangedBy(order)
      PROVE  ArrangedBy(order)'
  BY <1>2 DEF ArrangedBy, Placed
<1>3. ASSUME stage' \in {"routed", "serving"}
      PROVE  \E order \in [DOMAIN config' -> DOMAIN config'] : ArrangedBy(order)'
  <2>1. PICK order \in [DOMAIN config -> DOMAIN config] : ArrangedBy(order)
    BY <1>3 DEF Arranged
  <2> QED
    BY <2>1, <1>2
<1> QED
  BY <1>1, <1>3 DEF Arranged

\* The choice handle makes is the file's.
LEMMA RouteSteps ==
    ASSUME RouterInv, NEW method \in Methods, NEW path \in Paths, Route(method, path)
    PROVE  RouterInv'
<1> USE RouterAssumption
<1>1. /\ stage = "serving"
      /\ request' = [method |-> method, path |-> path]
      /\ UNCHANGED <<stage, config, routes>>
  BY DEF Route
<1>2. PICK order : ArrangedBy(order)
  BY <1>1 DEF RouterInv, Arranged
<1>3. /\ config \in Seq(RouteConfigs) /\ DOMAIN routes = DOMAIN config
      /\ \A i \in DOMAIN config : config[i] \in RouteConfigs
      /\ \A i \in DOMAIN config : order[i] \in DOMAIN config /\ Placed(i, order[i])
      /\ \A k \in DOMAIN config : \E i \in DOMAIN config : order[i] = k
  BY <1>2 DEF RouterInv, RouterTypeOK, ArrangedBy
<1> DEFINE claims(r) == MatchesPath(r.path, path) /\ Allows(r, method)
           names(r) == MatchesPath(r.path, path)
<1>4. request'.method = method /\ request'.path = path
  BY <1>1
<1>5. \A r : Claims(r)' <=> claims(r)
  BY <1>4 DEF Claims
<1>6. \A i \in DOMAIN config : Matches(routes[i], method, path) <=> claims(config[order[i]])
  BY <1>3, PlacedMatches
<1>7. ClaimsPath(path) <=> \E k \in DOMAIN config : names(config[k])
  <2>1. \A i \in DOMAIN config : names(routes[i]) <=> names(config[order[i]])
    BY <1>3, PlacedMatches
  <2> QED
    BY <2>1, <1>3 DEF ClaimsPath
<1>10. InStep' /\ Arranged'
  BY <1>1, TableKept DEF RouterInv
<1>11. ASSUME outcome' \in {r.script : r \in RouteConfigs} \cup {Default, Refusal}
       PROVE  RouterTypeOK'
  BY <1>1, <1>11 DEF RouterInv, RouterTypeOK
<1>8. CASE \E k \in DOMAIN routes : First(k, method, path) /\ outcome' = routes[k].script
  <2>1. PICK k \in DOMAIN config : First(k, method, path) /\ outcome' = routes[k].script
    BY <1>8, <1>3
  <2>2. /\ claims(config[order[k]]) /\ outcome' = config[order[k]].script
        /\ \A j \in DOMAIN config : claims(config[j]) =>
             /\ Outranks(config[order[k]], config[j])
             /\ j < order[k] => ~Outranks(config[j], config[order[k]])
    BY <2>1, <1>2, FirstIsMeant
  <2>3. order[k] \in DOMAIN config /\ config[order[k]] \in RouteConfigs
    BY <1>3
  <2>4. MostSpecificWins'
    BY <2>2, <2>3, <1>1, <1>4 DEF MostSpecificWins, Claims
  <2>5. outcome' \notin {Default, Refusal, None}
    BY <2>2, <2>3
  <2>6. RestrictionHolds'
    BY <2>2, <2>3, <2>5, <1>1, <1>4, <1>5 DEF RestrictionHolds
  <2> QED
    BY <2>2, <2>3, <2>4, <2>6, <1>1, <1>10, <1>11 DEF RouterInv
<1>9. CASE /\ \A k \in DOMAIN routes : ~Matches(routes[k], method, path)
           /\ outcome' = IF ClaimsPath(path) THEN Refusal ELSE Default
  <2>1. \A k \in DOMAIN config : ~claims(config[k])
    BY <1>9, <1>3, <1>6
  <2>2. MostSpecificWins'
    BY <2>1, <1>1, <1>5 DEF MostSpecificWins
  <2>3. RestrictionHolds'
    BY <2>1, <1>1, <1>4, <1>5, <1>7, <1>9 DEF RestrictionHolds
  <2> QED
    BY <2>2, <2>3, <1>1, <1>9, <1>10, <1>11 DEF RouterInv
<1> QED
  BY <1>8, <1>9 DEF Route

-----------------------------------------------------------------------------

\* The empty table satisfies the invariant.
LEMMA InitHolds ==
    RouterInit => RouterInv
<1> SUFFICES ASSUME RouterInit PROVE RouterInv
  OBVIOUS
<1> QED
  BY RouterAssumption
  DEF RouterInit, RouterInv, RouterTypeOK, InStep, Arranged, MostSpecificWins, RestrictionHolds

\* Reading the file: there are no routes yet, and no request.
LEMMA FileSteps ==
    ASSUME RouterInv, stage = "reading", stage' \in {"reading", "building", "refused"},
           UNCHANGED <<routes, request, outcome>>, config' \in Seq(RouteConfigs)
    PROVE  RouterInv'
<1>1. routes' \in Seq(Entries) /\ Len(routes') = 0 /\ request' = None
  BY DEF RouterInv, InStep
<1>2. RouterTypeOK'
  BY <1>1 DEF RouterInv, RouterTypeOK
<1>3. InStep'
  <2>1. Len(config') \in Nat /\ DOMAIN routes' = 1 .. 0
    BY <1>1
  <2> QED
    BY <1>1, <2>1 DEF InStep, Placed
<1>4. Arranged'
  BY DEF Arranged
<1> QED
  BY <1>1, <1>2, <1>3, <1>4 DEF RouterInv, MostSpecificWins, RestrictionHolds

\* The rest leaves the table as it is, and gives no answer or takes one back.
LEMMA OtherSteps ==
    ASSUME RouterInv,
           \/ RefuseRoute
           \/ \E usable, ca, invalid \in BOOLEAN : Connect(usable, ca, invalid)
           \/ Answered
           \/ UNCHANGED routerVars
    PROVE  RouterInv'
<1>1. UNCHANGED <<config, routes>>
  BY DEF RefuseRoute, Connect, Answered, routerVars
<1>2. \/ stage' = stage
      \/ stage' = "refused"
      \/ stage = "routed" /\ stage' = "serving"
  BY DEF RefuseRoute, Connect, Answered, routerVars
<1>3. \/ request' = None /\ outcome' \in {outcome, None}
      \/ UNCHANGED <<stage, request, outcome>>
  <2>1. CASE Answered \/ UNCHANGED routerVars
    BY <2>1 DEF Answered, routerVars
  <2>2. CASE RefuseRoute \/ \E usable, ca, invalid \in BOOLEAN : Connect(usable, ca, invalid)
    BY <2>2 DEF RefuseRoute, Connect, RouterInv
  <2> QED
    BY <2>1, <2>2
<1>4. RouterTypeOK'
  BY <1>1, <1>2, <1>3 DEF RouterInv, RouterTypeOK
<1>5. InStep' /\ Arranged'
  BY <1>1, <1>2, TableKept DEF RouterInv
<1>7. CASE request' = None
  BY <1>1, <1>4, <1>5, <1>7 DEF RouterInv, MostSpecificWins, RestrictionHolds
<1>8. CASE UNCHANGED <<stage, request, outcome>>
  <2>1. MostSpecificWins'
    BY <1>1, <1>8 DEF RouterInv, MostSpecificWins, Claims
  <2>2. RestrictionHolds'
    BY <1>1, <1>8 DEF RouterInv, RestrictionHolds, Claims
  <2> QED
    BY <1>1, <1>4, <1>5, <1>8, <2>1, <2>2 DEF RouterInv
<1> QED
  BY <1>3, <1>7, <1>8

\* The invariant is inductive.
LEMMA RouterInductive ==
    RouterSpec => []RouterInv
<1>1. RouterInv /\ [RouterNext]_routerVars => RouterInv'
  <2> SUFFICES ASSUME RouterInv, [RouterNext]_routerVars PROVE RouterInv'
    OBVIOUS
  <2>1. CASE Build
    BY <2>1, BuildSteps
  <2>2. CASE Sort
    BY <2>2, SortSteps
  <2>3. CASE \E method \in Methods, path \in Paths : Route(method, path)
    BY <2>3, RouteSteps
  <2>4. CASE \/ \E r \in RouteConfigs : Declare(r)
             \/ \E base \in {"", "/", "/bmc"}, cert, key \in BOOLEAN : Validate(base, cert, key)
    <3>1. /\ stage = "reading" /\ stage' \in {"reading", "building", "refused"}
          /\ UNCHANGED <<routes, request, outcome>>
          /\ config' \in Seq(RouteConfigs)
      BY <2>4 DEF Declare, Validate, RouterInv, RouterTypeOK
    <3> QED
      BY <3>1, FileSteps
  <2>5. CASE \/ RefuseRoute
             \/ \E usable, ca, invalid \in BOOLEAN : Connect(usable, ca, invalid)
             \/ Answered
             \/ UNCHANGED routerVars
    BY <2>5, OtherSteps
  <2> QED
    BY <2>1, <2>2, <2>3, <2>4, <2>5 DEF RouterNext
<1> QED
  BY InitHolds, <1>1, PTL DEF RouterSpec

\* Every route of the table is one of the file with the prefix length its
\* pattern has, and every outcome a script of the file, the default or the 405.
THEOREM RoutesTypeCorrect ==
    RouterSpec => []RouterTypeOK
<1>1. RouterInv => RouterTypeOK
  BY DEF RouterInv
<1> QED
  BY RouterInductive, <1>1, PTL

\* A request goes to the claiming route with the longest literal prefix, and
\* among equals to the first declared (config.rs, Router::build and resolve).
THEOREM MostSpecific ==
    RouterSpec => []MostSpecificWins
<1>1. RouterInv => MostSpecificWins
  BY DEF RouterInv
<1> QED
  BY RouterInductive, <1>1, PTL

\* A path that routes restrict never falls through to the script that relays
\* (proxy.rs, handle; config.rs, Router::claims_path).
THEOREM Restriction ==
    RouterSpec => []RestrictionHolds
<1>1. RouterInv => RestrictionHolds
  BY DEF RouterInv
<1> QED
  BY RouterInductive, <1>1, PTL
=============================================================================
