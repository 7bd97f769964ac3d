\* Firmware of either spelling, without the exception for one of them.
SPECIFICATION Spec
CONSTANTS
    Clients = {c1, c2}
    Values = {nothing, attributes}
    Initial = nothing
    None = None
INVARIANT SdShowsPending
