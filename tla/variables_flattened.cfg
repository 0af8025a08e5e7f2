SPECIFICATION EditorSpec
CONSTANTS
    Undefined = Undefined
    Platforms = {linux, windows}
    Values = {v1, v2}
    Typed = {"noaudience"}
    MaxRows = 2
SYMMETRY Symmetry
PROPERTIES
    DifferentIsSaved
