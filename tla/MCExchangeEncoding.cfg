SPECIFICATION Spec
CONSTANTS
    Headers = {"authorization", "accept-encoding"}
    Callers = {{}, {"authorization", "accept-encoding"}}
    ScriptSets = {"authorization"}
    Branches = {b1}
    MaxCalls = 1
    None = None
INVARIANT NeverInvitesEncoding
