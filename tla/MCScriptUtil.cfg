\* Patches of up to two operations, any merge patch and any set of each of four
\* documents, and the rewriting of their links; and every text of up to five pieces.
SPECIFICATION MCSpec
CONSTANTS
    Names <- MCNames
    Docs <- MCDocs
    Supplied <- MCSupplied
    Places <- MCPlaces
    Pointers <- MCPointers
    Paths <- MCPaths
    Texts <- MCTexts
    MaxPatchOps = 2
    MaxCopyNodes = 3
    MaxIndex = 9
INVARIANTS
    AllOrNothing
    GrowthBounded
    DocumentHoldsNoLink
    PatchMeetsRfc
    MergeMeetsRfc
    SetLands
    SlicesInOrder
    NoTargetLinkLeft
    ForeignKept
CHECK_DEADLOCK FALSE
