\* Every BMC of two systems and two managers, every collection of up to three
\* interfaces, and any GET free to fail.
SPECIFICATION Spec
CONSTANTS
    Systems = {System_0, Sys_1}
    System0 = System_0
    Managers = {iDRAC, BMC_Other}
    None = None
    MaxListed = 2
    Nics = {nic1, nic2}
    MaxNics = 3
INVARIANTS
    SerialsAgree
    ExpandedWhole
