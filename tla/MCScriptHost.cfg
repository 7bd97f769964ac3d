\* A default script and one no route names, two good texts and one that does
\* not compile, two edits and a restart: an edit between any two steps of a
\* load, a SIGHUP during a reload, a file that vanishes under the loader.  One
\* request, since requests share nothing but the units they run.
SPECIFICATION LiveSpec
CONSTANTS
    Scripts = {passthrough, extra}
    Needed = {passthrough}
    Versions = {v1, v2, typo}
    Broken = {typo}
    Absent = Absent
    Requests = {r1}
    MaxEdits = 2
    MaxStarts = 2
INVARIANTS
    TypeOK
    OnlyCompiledRuns
    ReloadIsFresh
    NamedScriptsStay
PROPERTY ReloadReflected
CHECK_DEADLOCK FALSE
