\* A handler that awaits each call before the next: three calls in a row, over
\* collections of up to three systems, every GET free to fail.
SPECIFICATION Spec
CONSTANTS
    Fibers = {handler}
    Systems = {System_0, HGX_Baseboard_0, Sys_1}
    System0 = System_0
    Managers = {iDRAC, BMC_Other}
    None = None
    MaxListed = 3
    MaxCalls = 3
INVARIANTS
    WalkFindsTheHost
    ProbedOnce
CHECK_DEADLOCK FALSE
