\* Callers of two kinds, so that each of five headers is once there and once not, two of
\* them also tried by the script, and handlers with two calls under way at once; a name of
\* each kind, of which the credential and odata-version are relayed.
SPECIFICATION LiveSpec
CONSTANTS
    Headers = {"authorization", "odata-version", "content-type", "te", "accept-encoding"}
    Callers = {{"odata-version", "accept-encoding"}, {"authorization", "content-type", "te"}}
    ScriptSets = {"authorization", "odata-version", "content-type"}
    Branches = {b1, b2}
    MaxCalls = 2
    None = None
INVARIANTS
    TypeOK
    CallersHeadersArrive
    FramedOnce
    RewrittenIsClean
    LengthIsTrue
PROPERTIES
    EveryWaitEnds
    KeepsContract
