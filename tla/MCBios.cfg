\* Two callers, either spelling, and a BMC that answers all it can or one where
\* every attempt is free to fail.
SPECIFICATION Spec
CONSTANTS
    Clients = {c1, c2}
    Values = {nothing, attributes}
    Initial = nothing
    None = None
INVARIANTS
    ActsAtMostOnce
    AnswersTellTheTruth
    CapitalSdShowsPending
