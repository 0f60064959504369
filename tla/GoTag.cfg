SPECIFICATION Spec
CONSTANTS
    Clones = {dev, ci}
    Versions = {"rc", "final"}
    Commits = {k1, k2}
    GoTags <- MCGoTags
    TagsOf <- MCTagsOf
    Longer <- MCLonger
    None = None
    MaxMoves = 1
    MaxFaults = 1
INVARIANTS
    TagsOfRelease
    ReportedOrSkipped
PROPERTIES
    TagsStay
SYMMETRY Alike
