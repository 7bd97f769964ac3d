----------------------------- MODULE ScriptHost -----------------------------
(***************************************************************************)
(* How the scripts on disk become the units that answer requests           *)
(* (rune_host.rs, proxy.rs, main.rs): the startup that must find them all, *)
(* the SIGHUP task that recompiles them file by file while requests run,   *)
(* the snapshot each request takes, and the ways a request ends.  An       *)
(* operator edits the files at any moment.                                 *)
(*                                                                         *)
(* A version is the text of one file; the texts in Broken do not compile.  *)
(* What a handler does while it runs is the subject of other modules.      *)
(***************************************************************************)
EXTENDS Naturals, FiniteSets

CONSTANTS
    Scripts,   \* the .rn paths under rune.script_dir that ever exist
    Needed,    \* those a route or rune.default_script names
    Versions,  \* the texts a file may hold
    Broken,    \* the versions that fail to compile
    Absent,    \* no file, no unit
    Requests,  \* the exchanges in flight
    MaxEdits,  \* bound: edits of the directory in one behaviour
    MaxStarts  \* bound: starts of the process in one behaviour

ASSUME HostAssumption ==
    /\ Needed \subseteq Scripts
    /\ Broken \subseteq Versions
    /\ Absent \notin Versions \cup Scripts
    /\ MaxEdits \in Nat
    /\ MaxStarts \in Nat

VARIABLES
    disk,     \* what each file holds now
    phase,    \* "starting", "serving" or "stopped"
    armed,    \* the SIGHUP handler is registered
    hangup,   \* a SIGHUP waits to be received; more than one coalesce
    units,    \* ScriptStore::current, the compiled units requests snapshot
    loading,  \* compile_dir is running
    todo,     \* the directory entries collect_scripts has yet to visit
    opening,  \* the file it has found and is about to read, or Absent
    got,      \* the texts it has read
    req,      \* per request: "idle", "body", "running" or "answered"
    ver,      \* per request: the version of the unit it runs
    status,   \* per request: what it was answered
    edits,    \* edits so far
    starts,   \* starts so far
    edited,   \* history: a file changed since the last start or SIGHUP
    removed   \* history: the files that went away since the last start

loader == <<loading, todo, opening, got>>
server == <<phase, armed, hangup, units>>
exchange == <<req, ver, status>>
counters == <<edits, starts>>
history == <<edited, removed>>
book == <<counters, history>>
vars == <<disk, server, loader, exchange, book>>

Files == [Scripts -> Versions \cup {Absent}]
NoFiles == [s \in Scripts |-> Absent]

Compiles(files) == \A s \in Scripts : files[s] \notin Broken
\* Mutant: startup is content with any script at all.
CompleteIfAny(files) == \E s \in Scripts : files[s] # Absent

Complete(files) == \A s \in Needed : files[s] # Absent

NoLoad ==
    /\ loading = FALSE
    /\ todo = {}
    /\ opening = Absent
    /\ got = NoFiles

NoExchange ==
    /\ req = [r \in Requests |-> "idle"]
    /\ ver = [r \in Requests |-> Absent]
    /\ status = [r \in Requests |-> "none"]

StartLoad ==
    /\ loading' = TRUE
    /\ todo' = Scripts
    /\ opening' = Absent
    /\ got' = NoFiles

EndLoad ==
    /\ loading' = FALSE
    /\ todo' = {}
    /\ opening' = Absent
    /\ got' = NoFiles

CutExchanges ==
    /\ req' = [r \in Requests |-> "idle"]
    /\ ver' = [r \in Requests |-> Absent]
    /\ status' = [r \in Requests |-> "none"]

\* The process is gone: the runtime drops every handler where it stands, and
\* nothing it held survives.
Gone ==
    /\ phase' = "stopped"
    /\ armed' = FALSE
    /\ hangup' = FALSE
    /\ units' = NoFiles
    /\ EndLoad
    /\ CutExchanges

Init ==
    /\ disk \in Files
    /\ phase = "stopped"
    /\ armed = FALSE
    /\ hangup = FALSE
    /\ units = NoFiles
    /\ NoLoad
    /\ NoExchange
    /\ edits = 0
    /\ starts = 0
    /\ edited = FALSE
    /\ removed = {}

-----------------------------------------------------------------------------
(* The process and its signals.                                            *)

\* run: AppState::build compiles the directory before there is a listener.
Start ==
    /\ phase = "stopped"
    /\ starts < MaxStarts
    /\ starts' = starts + 1
    /\ phase' = "starting"
    /\ StartLoad
    /\ edited' = FALSE /\ removed' = {}
    /\ UNCHANGED <<disk, armed, hangup, units, exchange, edits>>

\* spawn_reload_listener's task runs for the first time.
Arm ==
    /\ phase = "serving"
    /\ ~armed
    /\ armed' = TRUE
    /\ UNCHANGED <<disk, phase, hangup, units, loader, exchange, book>>

\* A SIGHUP before that has its default action, which ends the process.
Hangup ==
    /\ phase # "stopped"
    /\ IF armed
       THEN /\ hangup' = TRUE
            /\ edited' = FALSE
            /\ UNCHANGED <<phase, armed, units, loader, exchange>>
       ELSE Gone /\ UNCHANGED edited
    /\ UNCHANGED <<disk, counters, removed>>

\* SIGINT or SIGTERM: serve returns, and nothing drains.  A crash is the same.
Stop ==
    /\ phase # "stopped"
    /\ Gone
    /\ UNCHANGED <<disk, book>>

\* hangup.recv() returns, and the task is busy until the reload is over.
Receive ==
    /\ phase = "serving" /\ armed
    /\ hangup /\ ~loading
    /\ hangup' = FALSE
    /\ StartLoad
    /\ UNCHANGED <<disk, phase, armed, units, exchange, book>>

-----------------------------------------------------------------------------
(* compile_dir, at startup and on reload.                                  *)

\* read_dir yields the entries in no order, and an entry only if it exists.
Visit(s) ==
    /\ loading /\ opening = Absent
    /\ s \in todo
    /\ todo' = todo \ {s}
    /\ opening' = IF disk[s] = Absent THEN Absent ELSE s
    /\ UNCHANGED <<disk, server, loading, got, exchange, book>>

Read ==
    /\ loading /\ opening # Absent
    /\ disk[opening] # Absent
    /\ got' = [got EXCEPT ![opening] = disk[opening]]
    /\ opening' = Absent
    /\ UNCHANGED <<disk, server, loading, todo, exchange, book>>

\* Mutant: a failed reload ends the task, which receives nothing more.
AbandonTask ==
    IF phase = "starting"
    THEN Gone
    ELSE UNCHANGED <<loader, server, exchange>>

\* What a failed compile_dir means: at startup the process exits, on a reload
\* the previous units keep serving.
Abandon ==
    IF phase = "starting"
    THEN Gone
    ELSE EndLoad /\ UNCHANGED <<server, exchange>>

\* The file was renamed or removed between read_dir and read_to_string.
Vanished ==
    /\ loading /\ opening # Absent
    /\ disk[opening] = Absent
    /\ Abandon
    /\ UNCHANGED <<disk, book>>

AllRead == loading /\ todo = {} /\ opening = Absent

CompileFails ==
    /\ AllRead
    /\ ~Compiles(got)
    /\ Abandon
    /\ UNCHANGED <<disk, book>>

\* Mutant: units go live as they compile, the failed ones too.
SwapUnchecked ==
    /\ AllRead
    /\ phase = "serving"
    /\ units' = got
    /\ EndLoad
    /\ UNCHANGED <<disk, phase, armed, hangup, exchange, book>>

\* Mutant: a reload takes the signals that came in while it ran for its own.
SwapForgetsHangup ==
    /\ AllRead
    /\ phase = "serving"
    /\ Compiles(got)
    /\ units' = got
    /\ hangup' = FALSE
    /\ EndLoad
    /\ UNCHANGED <<disk, phase, armed, exchange, book>>

\* ScriptStore::reload swaps the snapshot; nothing is checked against routes.
Swap ==
    /\ AllRead
    /\ phase = "serving"
    /\ Compiles(got)
    /\ units' = got
    /\ EndLoad
    /\ UNCHANGED <<disk, phase, armed, hangup, exchange, book>>

\* load_for: every script that is named must have been found.
Serve ==
    /\ AllRead
    /\ phase = "starting"
    /\ Compiles(got) /\ Complete(got)
    /\ phase' = "serving"
    /\ units' = got
    /\ EndLoad
    /\ UNCHANGED <<disk, armed, hangup, exchange, book>>

\* --check: all is well, and run returns before there is a listener.
CheckPasses ==
    /\ AllRead
    /\ phase = "starting"
    /\ Compiles(got) /\ Complete(got)
    /\ Gone
    /\ UNCHANGED <<disk, book>>

RefuseStart ==
    /\ AllRead
    /\ phase = "starting"
    /\ Compiles(got) /\ ~Complete(got)
    /\ Gone
    /\ UNCHANGED <<disk, book>>

-----------------------------------------------------------------------------
(* Requests.                                                               *)

Arrive(r) ==
    /\ phase = "serving"
    /\ req[r] = "idle"
    /\ req' = [req EXCEPT ![r] = "body"]
    /\ UNCHANGED <<disk, server, loader, ver, status, book>>

Answer(r, what) ==
    /\ req' = [req EXCEPT ![r] = "answered"]
    /\ status' = [status EXCEPT ![r] = what]

\* The caller's body could not be read.
BadBody(r) ==
    /\ req[r] = "body"
    /\ Answer(r, "400")
    /\ UNCHANGED <<disk, server, loader, ver, book>>

\* A route claims the path for other methods only.
MethodNotAllowed(r) ==
    /\ req[r] = "body"
    /\ Answer(r, "405")
    /\ UNCHANGED <<disk, server, loader, ver, book>>

\* Mutant: execute without the ok_or_else after unit_for.
ExecuteUnchecked(r, s) ==
    /\ req[r] = "body"
    /\ req' = [req EXCEPT ![r] = "running"]
    /\ ver' = [ver EXCEPT ![r] = units[s]]
    /\ UNCHANGED <<disk, server, loader, status, book>>

\* execute takes its snapshot and looks the unit up in it; there is no await
\* between resolving the route and that.
Execute(r, s) ==
    /\ req[r] = "body"
    /\ IF units[s] = Absent
       THEN Answer(r, "no script") /\ UNCHANGED ver
       ELSE /\ req' = [req EXCEPT ![r] = "running"]
            /\ ver' = [ver EXCEPT ![r] = units[s]]
            /\ UNCHANGED status
    /\ UNCHANGED <<disk, server, loader, book>>

\* The handler ends with a response of its own making, or fails with a 502.
Finish(r) ==
    /\ req[r] = "running"
    /\ \E what \in {"script", "502"} : Answer(r, what)
    /\ UNCHANGED <<disk, server, loader, ver, book>>

\* The exchange is over, because it was answered or because the caller hung
\* up, which drops the handler at whatever await it is at.
Leave(r) ==
    /\ req[r] # "idle"
    /\ req' = [req EXCEPT ![r] = "idle"]
    /\ ver' = [ver EXCEPT ![r] = Absent]
    /\ status' = [status EXCEPT ![r] = "none"]
    /\ UNCHANGED <<disk, server, loader, book>>

-----------------------------------------------------------------------------
(* The operator, at any moment, in any state of the process.               *)

Edit(s, v) ==
    /\ edits < MaxEdits
    /\ v # disk[s]
    /\ disk' = [disk EXCEPT ![s] = v]
    /\ edits' = edits + 1
    /\ edited' = TRUE
    /\ removed' = IF v = Absent THEN removed \cup {s} ELSE removed
    /\ UNCHANGED <<server, loader, exchange, starts>>

LoaderStep ==
    \/ Receive
    \/ \E s \in Scripts : Visit(s)
    \/ Read
    \/ Vanished
    \/ CompileFails
    \/ Swap
    \/ Serve
    \/ CheckPasses
    \/ RefuseStart

Next ==
    \/ Start \/ Arm \/ Hangup \/ Stop
    \/ LoaderStep
    \/ \E r \in Requests :
         \/ Arrive(r)
         \/ BadBody(r)
         \/ MethodNotAllowed(r)
         \/ \E s \in Needed : Execute(r, s)
         \/ Finish(r)
         \/ Leave(r)
    \/ \E s \in Scripts, v \in Versions \cup {Absent} : Edit(s, v)

Spec == Init /\ [][Next]_vars

\* The reload task is polled and compile_dir returns; a handler, the operator
\* and the callers owe nothing.
Fairness == WF_vars(LoaderStep) /\ WF_vars(Arm)

LiveSpec == Spec /\ Fairness

-----------------------------------------------------------------------------

TypeOK ==
    /\ disk \in Files
    /\ phase \in {"starting", "serving", "stopped"}
    /\ armed \in BOOLEAN
    /\ hangup \in BOOLEAN
    /\ units \in Files
    /\ loading \in BOOLEAN
    /\ todo \subseteq Scripts
    /\ opening \in Scripts \cup {Absent}
    /\ got \in Files
    /\ req \in [Requests -> {"idle", "body", "running", "answered"}]
    /\ ver \in [Requests -> Versions \cup {Absent}]
    /\ \A r \in Requests : req[r] = "running" => ver[r] # Absent
    /\ status \in [Requests -> {"none", "400", "405", "no script", "script", "502"}]
    /\ edits \in 0 .. MaxEdits
    /\ starts \in 0 .. MaxStarts
    /\ edited \in BOOLEAN
    /\ removed \subseteq Scripts

\* A text that does not compile is never live and never runs, whatever was
\* edited while the loader was reading: "a typo must not [...] start failing
\* requests".
OnlyCompiledRuns ==
    /\ Compiles(units)
    /\ \A r \in Requests : req[r] = "running" => ver[r] \notin Broken

\* A SIGHUP is never lost, also one that arrives while an earlier reload is
\* still reading: once the task is idle again and nothing was edited since the
\* last SIGHUP, what runs is what is on disk, unless that does not compile.
ReloadIsFresh ==
    phase = "serving" /\ armed /\ ~hangup /\ ~loading /\ ~edited
      => units = disk \/ ~Compiles(disk)

\* Startup finds every script a route names, and afterwards only the operator
\* can lose one: a 502 for a missing unit means its file went away.
NamedScriptsStay ==
    phase = "serving" => \A s \in Needed : units[s] = Absent => s \in removed

\* After its last edit and a SIGHUP, the operator's scripts do go live.
ReloadReflected ==
    phase = "serving" /\ armed /\ ~edited
      ~> phase # "serving" \/ edited \/ units = disk \/ ~Compiles(disk)
=============================================================================
