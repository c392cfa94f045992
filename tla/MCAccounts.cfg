SPECIFICATION Spec
CONSTANTS
    a1 = a1  a2 = a2
    b1 = b1  b2 = b2
    c1 = c1  c2 = c2
    d1 = d1  d2 = d2
    IdSizes <- MCIdSizes
    SheetSizes <- MCSheetSizes
    LinkSizes <- MCLinkSizes
    FileSizes <- MCFileSizes
    JobSizes <- MCJobSizes
SYMMETRY Symmetry
INVARIANTS
    TypeOK
    IdsAreSound
    LinksProve
    ImportsAreWhole
    JobsTellTruth
PROPERTIES
    SheetIsFollowed
CHECK_DEADLOCK FALSE
