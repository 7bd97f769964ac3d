\* A full map of two keys out of three, an overwrite of a full map, a removal
\* of several steps, and every interleaving of two calls.  No symmetry, which
\* is unsound for liveness.
SPECIFICATION LiveSpec
CONSTANTS
    Clients = {c1, c2}
    Keys = {lockdown, kcs, other}
    BadKeys = {empty}
    Values = {v1, v2}
    BadValues = {huge}
    Prefixes = {supermicro}
    Under <- MCUnder
    Outside = other
    MaxKeys = 2
    None = None
INVARIANTS
    TypeOK
    LockDiscipline
    WithinCapacity
PROPERTIES
    Linearizable
    LockComesFree
